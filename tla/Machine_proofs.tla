----------------------------- MODULE Machine_proofs -----------------------------
(***************************************************************************)
(* Proofs about the services of a machine: the gate in front of it (Gate), *)
(* the demo published into its workspace (OwnedDemo), what the backend     *)
(* learns of its work (RootActivity), how the agents' requests end         *)
(* (AgentDrain), its tool server (McpSupervisor) and what a browser learns *)
(* of the files (FileEvents), for any number of tokens, connections,       *)
(* members, starts, restarts, outages, lost answers, requests, runs,       *)
(* permits, frames and boots.                                              *)
(***************************************************************************)
EXTENDS Gate, OwnedDemo, RootActivity, AgentDrain, McpSupervisor, FileEvents,
        Sublists_proofs, TLAPS

--------------------
\* Gate: the three promises of the gate, for any skew, cookie age and
\* queue.

Relay == [kind : {"none", "http", "health", "ws"}, client : {"open", "left", "over"},
          up : {"none", "check", "pass", "dial", "open", "gone", "over"}, sent : BOOLEAN,
          fence : Nat, queue : Seq(Nat), check : {"none", "ok", "bad"}, alive : BOOLEAN]

GateTypes ==
    /\ now \in Nat /\ tokenExp \in [Tokens -> Nat] /\ grants \in [Tokens -> Nat]
    /\ epoch \in Nat /\ relay \in [Relays -> Relay]

\* A token that bought a cookie is in the replay map until its expiry refuses it.
SpentIsRefused ==
    \A t \in Tokens : grants[t] = 0 \/ (grants[t] = 1 /\ (t \in usedJtis \/ TokenExpired(t)))

Early == {"none", "check", "pass", "dial"}   \* the phases before an upstream answered

\* A message arrived at the epoch of its connection's fence or later; none is held
\* before the connection is open, and one whose check said "ok" arrived at the fence.
HeldInOrder(r, e) ==
    /\ r.fence <= e
    /\ \A i \in 1..Len(r.queue) : r.fence <= r.queue[i] /\ r.queue[i] <= e
    /\ r.up \in {"none", "check", "pass", "dial"} => r.queue = <<>> /\ r.check = "none"
    /\ r.up = "open" /\ r.check = "ok" => Len(r.queue) > 0 /\ (r.fence = 0 \/ r.queue[1] = r.fence)
    /\ r.fence = 0 => r.queue = <<>>

\* NothingLeftOpen for one connection; a probe is over when it is answered.
Closed(r) ==
    /\ r.client = "over" /\ r.kind # "health" => r.up \in {"over", "pass"}
    /\ r.kind = "health" => r.up # "open"

RelaysHold == \A c \in Relays : HeldInOrder(relay[c], epoch) /\ Closed(relay[c])

GateInv == GateTypes /\ SpentIsRefused /\ RelaysHold /\ NothingOvertaken

\* A step of one connection, that leaves the tokens, the clock and the file service.
LEMMA RelayStep ==
  ASSUME GateInv, NEW c \in Relays, NEW r \in Relay, relay' = [relay EXCEPT ![c] = r],
         HeldInOrder(r, epoch), Closed(r), NothingOvertaken',
         UNCHANGED <<now, tokenExp, usedJtis, grants, epoch>>
  PROVE  GateInv'
<1>1. GateTypes /\ SpentIsRefused /\ RelaysHold BY DEF GateInv
<1>2. GateTypes' BY <1>1 DEF GateTypes
<1>3. SpentIsRefused' BY <1>1 DEF SpentIsRefused, TokenExpired
<1>4. ASSUME NEW d \in Relays PROVE HeldInOrder(relay'[d], epoch) /\ Closed(relay'[d])
 <2>1. relay'[d] = IF d = c THEN r ELSE relay[d] BY <1>1 DEF GateTypes
 <2> QED BY <1>1, <2>1 DEF RelaysHold
<1>5. RelaysHold' BY <1>4 DEF RelaysHold, Closed
<1> QED BY <1>2, <1>3, <1>5 DEF GateInv

LEMMA BecomeStep ==
  ASSUME GateInv, NEW c \in Relays, NEW r \in Relay, Become(c, r), HeldInOrder(r, epoch), Closed(r)
  PROVE  GateInv'
<1>1. /\ relay' = [relay EXCEPT ![c] = r]
      /\ UNCHANGED <<now, tokenExp, usedJtis, grants, epoch, dispatched>> BY DEF Become, sessionVars, placeVars
<1>2. NothingOvertaken' BY <1>1 DEF GateInv, NothingOvertaken
<1> QED BY <1>1, <1>2, RelayStep

LEMMA AdmitStep ==
  ASSUME GateInv, NEW c \in Relays, NEW r \in Relay, AdmitRelay(c, r), HeldInOrder(r, epoch), Closed(r)
  PROVE  GateInv'
<1>1. /\ relay' = [relay EXCEPT ![c] = r]
      /\ UNCHANGED <<now, tokenExp, usedJtis, grants, epoch, dispatched>> BY DEF AdmitRelay, sessionVars, placeVars
<1>2. NothingOvertaken' BY <1>1 DEF GateInv, NothingOvertaken
<1> QED BY <1>1, <1>2, RelayStep

\* A fresh connection, at any phase before it is dialled.
LEMMA NoRelayType == NoRelay \in Relay
<1>1. <<>> \in Seq(Nat) OBVIOUS
<1> QED BY <1>1 DEF NoRelay, Relay

LEMMA FreshRelay ==
  ASSUME GateTypes, NEW r \in Relay, r.fence <= epoch, r.up \in {"none", "check", "pass", "dial"},
         r.queue = NoRelay.queue, r.check = NoRelay.check, r.client = NoRelay.client
  PROVE  HeldInOrder(r, epoch) /\ Closed(r)
<1>1. r.queue = <<>> /\ Len(<<>>) = 0 /\ r.check = "none" /\ r.client = "open" BY DEF NoRelay
<1> QED BY <1>1 DEF HeldInOrder, Closed

\* What a connection may become without its queue growing or its check ending.
LEMMA Onward ==
  ASSUME NEW r \in Relay, HeldInOrder(r, epoch), NEW q \in Relay, q.fence = r.fence,
         \/ q.queue = r.queue /\ q.check = r.check /\ (q.up = "open" => r.up \in {"dial", "open"})
         \/ q.queue = <<>> /\ q.up \in {"gone", "over"},
         q.up \in {"none", "check", "pass", "dial"} => r.up \in {"none", "check", "pass", "dial"}
  PROVE  HeldInOrder(q, epoch)
<1>1. Len(<<>>) = 0 OBVIOUS
<1> QED BY <1>1 DEF HeldInOrder, Relay

\* A step of the tokens, the clock or the file service.
LEMMA SessionStep ==
  ASSUME GateInv, UNCHANGED <<tokenExp, relay, dispatched>>, epoch' \in Nat, epoch <= epoch',
         now' \in Nat, grants' \in [Tokens -> Nat], SpentIsRefused'
  PROVE  GateInv'
<1>1. GateTypes /\ RelaysHold BY DEF GateInv
<1>2. GateTypes' BY <1>1 DEF GateTypes
<1>3. RelaysHold'
 <2>1. ASSUME NEW c \in Relays PROVE HeldInOrder(relay[c], epoch') /\ Closed(relay[c])
  <3>1. relay[c] \in Relay /\ HeldInOrder(relay[c], epoch) /\ Closed(relay[c]) BY <1>1 DEF GateTypes, RelaysHold
  <3>2. relay[c].fence \in Nat /\ relay[c].queue \in Seq(Nat) BY <3>1 DEF Relay
  <3>3. \A i \in 1..Len(relay[c].queue) : relay[c].queue[i] \in Nat BY <3>2, ElementOfSeq
  <3> QED BY <1>1, <3>1, <3>2, <3>3 DEF HeldInOrder, GateTypes
 <2> QED BY <2>1 DEF RelaysHold, Closed
<1> QED BY <1>2, <1>3 DEF GateInv, NothingOvertaken

\* A token that is exchanged bought nothing so far, and is refused from now on.
LEMMA ExchangeStep ==
  ASSUME GateInv, NEW t \in Tokens, Exchange(t)
  PROVE  GateInv'
<1>1. GateTypes /\ SpentIsRefused BY DEF GateInv
<1>2. /\ ~TokenExpired(t) /\ t \notin usedJtis /\ usedJtis' = Pruned(t)
      /\ grants' = [grants EXCEPT ![t] = @ + 1]
      /\ UNCHANGED <<now, tokenExp, relay, epoch, dispatched>> BY DEF Exchange, ExchangeToken, VerifyToken, placeVars
<1>3. grants[t] = 0 BY <1>1, <1>2 DEF SpentIsRefused
<1>4. grants' \in [Tokens -> Nat] /\ grants'[t] = 1
      /\ \A u \in Tokens \ {t} : grants'[u] = grants[u] BY <1>1, <1>2, <1>3 DEF GateTypes
<1>5. \A u \in Tokens : TokenExpired(u)' <=> TokenExpired(u) BY <1>2 DEF TokenExpired
<1>6. t \in usedJtis' /\ \A u \in usedJtis : u \in usedJtis' \/ TokenExpired(u) BY <1>2 DEF Pruned
<1>7. SpentIsRefused' BY <1>1, <1>4, <1>5, <1>6 DEF SpentIsRefused
<1> QED BY <1>1, <1>2, <1>4, <1>7, SessionStep DEF GateTypes

\* The tokens' promise outlives what leaves them alone, as time goes by.
LEMMA SpentStays ==
  ASSUME GateInv, Skew \in Nat, now' \in Nat, now <= now', UNCHANGED <<tokenExp, usedJtis, grants>>
  PROVE  SpentIsRefused'
<1>1. GateTypes /\ SpentIsRefused BY DEF GateInv
<1>2. \A t \in Tokens : TokenExpired(t) => TokenExpired(t)' BY <1>1 DEF TokenExpired, GateTypes
<1> QED BY <1>1, <1>2 DEF SpentIsRefused

\* The requests, probes and upgrades that open a connection.
LEMMA OpenStep ==
  ASSUME GateInv, NEW c \in Relays, ProxyRequest(c) \/ HealthProbe(c) \/ ProxyUpgrade(c)
  PROVE  GateInv'
<1>1. GateTypes /\ NoRelay \in Relay /\ epoch \in Nat BY NoRelayType DEF GateInv, GateTypes
<1>2. CASE ProxyRequest(c)
 <2> DEFINE r == [NoRelay EXCEPT !.kind = "http", !.up = "dial"]
 <2>1. r \in Relay /\ r.fence = 0 /\ r.up = "dial" BY <1>1 DEF NoRelay, Relay
 <2>2. r.queue = NoRelay.queue /\ r.check = NoRelay.check /\ r.client = NoRelay.client BY DEF NoRelay
 <2>3. AdmitRelay(c, r) BY <1>2 DEF ProxyRequest
 <2> HIDE DEF r
 <2> QED BY <1>1, <2>1, <2>2, <2>3, FreshRelay, AdmitStep
<1>3. CASE HealthProbe(c)
 <2> DEFINE r == [NoRelay EXCEPT !.kind = "health", !.up = "dial"]
 <2>1. r \in Relay /\ r.fence = 0 /\ r.up = "dial" BY <1>1 DEF NoRelay, Relay
 <2>2. r.queue = NoRelay.queue /\ r.check = NoRelay.check /\ r.client = NoRelay.client BY DEF NoRelay
 <2>3. Become(c, r) BY <1>3 DEF HealthProbe
 <2> HIDE DEF r
 <2> QED BY <1>1, <2>1, <2>2, <2>3, FreshRelay, BecomeStep
<1>4. CASE ProxyUpgrade(c)
 <2> DEFINE p(f) == IF f = 0 THEN "pass" ELSE "check"
            r(f) == [NoRelay EXCEPT !.kind = "ws", !.fence = f, !.up = p(f)]
 <2>1. PICK f \in 0..epoch : AdmitRelay(c, r(f)) BY <1>4 DEF ProxyUpgrade
 <2>2. p(f) \in {"none", "check", "pass", "dial"} /\ f \in Nat /\ f <= epoch BY <1>1
 <2> HIDE DEF p
 <2>3. r(f) \in Relay /\ r(f).fence = f /\ r(f).up = p(f) BY <1>1, <2>2 DEF NoRelay, Relay
 <2>4. r(f).queue = NoRelay.queue /\ r(f).check = NoRelay.check /\ r(f).client = NoRelay.client BY DEF NoRelay
 <2> HIDE DEF r
 <2> QED BY <1>1, <2>1, <2>2, <2>3, <2>4, FreshRelay, AdmitStep
<1> QED BY <1>2, <1>3, <1>4

\* A connection that goes on, or loses what it held.
LEMMA MoveStep ==
  ASSUME GateInv, NEW c \in Relays, NEW q \in Relay, Become(c, q), q.fence = relay[c].fence,
         \/ /\ q.queue = relay[c].queue /\ q.check = relay[c].check
            /\ q.up = "open" => relay[c].up \in {"dial", "open"}
         \/ q.queue = <<>> /\ q.up \in {"gone", "over"},
         q.up \in Early => relay[c].up \in Early,
         Closed(q)
  PROVE  GateInv'
<1>1. relay[c] \in Relay /\ HeldInOrder(relay[c], epoch) BY DEF GateInv, GateTypes, RelaysHold
<1>2. HeldInOrder(q, epoch) BY <1>1, Onward DEF Early
<1> QED BY <1>2, BecomeStep

LEMMA PhaseStep ==
  ASSUME GateInv, NEW c \in Relays,
         \/ FenceChecked(c) \/ FencePassed(c) \/ UpstreamAnswers(c) \/ UpstreamEnds(c)
         \/ UpstreamGone(c) \/ UpstreamHandlers(c) \/ ClientLeaves(c) \/ ClientHandlers(c)
         \/ EpochTick(c) \/ PingTick(c) \/ Pong(c)
  PROVE  GateInv'
<1> DEFINE r == relay[c]
           Cut(u) == [r EXCEPT !.up = u, !.client = "over"]
           At(u) == [r EXCEPT !.up = u]
           Sent == [r EXCEPT !.up = "open", !.sent = TRUE]
<1>1. r \in Relay /\ HeldInOrder(r, epoch) /\ Closed(r) BY DEF GateInv, GateTypes, RelaysHold
<1>2. Cut("over") \in Relay /\ Cut("over").fence = r.fence /\ Cut("over").queue = r.queue
      /\ Cut("over").check = r.check /\ Cut("over").up = "over" BY <1>1 DEF Relay
<1>3. ASSUME NEW u \in {"pass", "dial", "gone", "over"}
      PROVE  /\ At(u) \in Relay /\ At(u).fence = r.fence /\ At(u).queue = r.queue
             /\ At(u).check = r.check /\ At(u).up = u /\ At(u).client = r.client /\ At(u).kind = r.kind
  BY <1>1, <1>3 DEF Relay
<1>4. /\ Sent \in Relay /\ Sent.fence = r.fence /\ Sent.queue = r.queue /\ Sent.check = r.check
      /\ Sent.up = "open" /\ Sent.client = r.client /\ Sent.kind = r.kind BY <1>1 DEF Relay
<1>5. <<>> \in Seq(Nat) OBVIOUS
<1>6. /\ Denied(r) \in Relay /\ Denied(r).fence = r.fence /\ Denied(r).queue = <<>>
      /\ Denied(r).up = "gone" /\ Denied(r).client = r.client /\ Denied(r).kind = r.kind
  BY <1>1, <1>5 DEF Relay, Denied
<1> HIDE DEF Cut, At, Sent
<1> USE DEF Early
<1>7. ASSUME Become(c, Cut("over")) PROVE GateInv' BY <1>1, <1>2, <1>7, MoveStep DEF Closed
<1>8. CASE FenceChecked(c)
 <2>1. r.up = "check" /\ ((r.client = "open" /\ Become(c, At("pass"))) \/ Become(c, Cut("over")))
   BY <1>8 DEF FenceChecked, At, Cut
 <2> QED BY <1>1, <1>3, <1>7, <2>1, MoveStep DEF Closed
<1>9. CASE FencePassed(c)
 <2>1. r.up = "pass" /\ ((r.client = "open" /\ Become(c, At("dial"))) \/ Become(c, At("over")))
   BY <1>9 DEF FencePassed, MayDial, At
 <2> QED BY <1>1, <1>3, <2>1, MoveStep DEF Closed
<1>10. CASE UpstreamAnswers(c)
 <2>1. r.up = "dial" /\ ((r.kind # "health" /\ Become(c, Sent)) \/ Become(c, Cut("over")))
   BY <1>10 DEF UpstreamAnswers, Sent, Cut
 <2> QED BY <1>1, <1>4, <1>7, <2>1, MoveStep DEF Closed
<1>11. CASE UpstreamEnds(c) BY <1>7, <1>11 DEF UpstreamEnds, Cut
<1>12. CASE UpstreamGone(c)
 <2>1. r.up \in {"dial", "open"} /\ Become(c, At("gone")) BY <1>12 DEF UpstreamGone, At
 <2> QED BY <1>1, <1>3, <2>1, MoveStep DEF Closed
<1>13. CASE UpstreamHandlers(c)
 <2> DEFINE q == [r EXCEPT !.up = "over", !.client = "over", !.queue = <<>>]
 <2>1. q \in Relay /\ q.fence = r.fence /\ q.queue = <<>> /\ q.up = "over" BY <1>1, <1>5 DEF Relay
 <2>2. Become(c, q) BY <1>13 DEF UpstreamHandlers
 <2> HIDE DEF q
 <2> QED BY <2>1, <2>2, MoveStep DEF Closed
<1>14. CASE ClientLeaves(c)
 <2> DEFINE q == [r EXCEPT !.client = "left"]
 <2>1. /\ q \in Relay /\ q.fence = r.fence /\ q.queue = r.queue /\ q.check = r.check
       /\ q.up = r.up /\ q.client = "left" /\ q.kind = r.kind BY <1>1 DEF Relay
 <2>2. Become(c, q) BY <1>14 DEF ClientLeaves
 <2> HIDE DEF q
 <2> QED BY <1>1, <2>1, <2>2, MoveStep DEF Closed
<1>15. CASE ClientHandlers(c)
 <2> DEFINE u == IF r.kind # "health" /\ r.up # "pass" THEN "over" ELSE r.up
            q == [r EXCEPT !.client = "over", !.queue = <<>>, !.up = u]
 <2>1. u \in {"none", "check", "pass", "dial", "open", "gone", "over"} BY <1>1 DEF Relay
 <2> HIDE DEF u
 <2>2. /\ q \in Relay /\ q.fence = r.fence /\ q.queue = <<>> /\ q.check = r.check
       /\ q.up = u /\ q.client = "over" /\ q.kind = r.kind BY <1>1, <1>5, <2>1 DEF Relay
 <2>3. Become(c, q) BY <1>15 DEF ClientHandlers, u
 <2> HIDE DEF q
 <2>4. u = "over" \/ (u = r.up /\ (r.kind = "health" \/ r.up = "pass")) BY DEF u
 <2>5. Closed(q) /\ u # "open" BY <1>1, <2>2, <2>4 DEF Closed
 <2>6. u \in Early => r.up \in Early /\ q.queue = r.queue BY <1>1, <2>2, <2>4 DEF HeldInOrder
 <2>7. u \in Early \/ u \in {"gone", "over"} BY <2>1, <2>5
 <2> QED BY <2>2, <2>3, <2>5, <2>6, <2>7, MoveStep
<1>16. CASE EpochTick(c)
 <2> DEFINE q == [r EXCEPT !.client = "over", !.up = "over", !.queue = <<>>]
 <2>1. q \in Relay /\ q.fence = r.fence /\ q.queue = <<>> /\ q.up = "over" BY <1>1, <1>5 DEF Relay
 <2>2. Become(c, q) BY <1>16 DEF EpochTick
 <2> HIDE DEF q
 <2> QED BY <2>1, <2>2, MoveStep DEF Closed
<1>17. CASE PingTick(c) \/ Pong(c)
 <2> DEFINE q(b) == [r EXCEPT !.alive = b]
 <2>1. ASSUME NEW b \in BOOLEAN
       PROVE  /\ q(b) \in Relay /\ q(b).fence = r.fence /\ q(b).queue = r.queue /\ q(b).check = r.check
              /\ q(b).up = r.up /\ q(b).client = r.client /\ q(b).kind = r.kind BY <1>1, <2>1 DEF Relay
 <2>2. Become(c, q(FALSE)) \/ Become(c, q(TRUE)) \/ (SocketLive(c) /\ Become(c, Denied(r)))
   BY <1>17 DEF PingTick, Pong
 <2> HIDE DEF q
 <2> QED BY <1>1, <1>6, <2>1, <2>2, MoveStep DEF Closed, SocketLive
<1> QED BY <1>8, <1>9, <1>10, <1>11, <1>12, <1>13, <1>14, <1>15, <1>16, <1>17

\* A message joins the held ones, its check is answered, or its verdict is acted on.
LEMMA MessageStep ==
  ASSUME GateInv, NEW c \in Relays, MessageArrives(c) \/ MessageChecked(c) \/ MessageSettles(c)
  PROVE  GateInv'
<1> DEFINE r == relay[c]
<1>1. r \in Relay /\ HeldInOrder(r, epoch) /\ Closed(r) /\ epoch \in Nat BY DEF GateInv, GateTypes, RelaysHold
<1>2. r.queue \in Seq(Nat) /\ Len(r.queue) \in Nat BY <1>1, LenProperties DEF Relay
<1>3. <<>> \in Seq(Nat) OBVIOUS
<1>4. /\ Denied(r) \in Relay /\ Denied(r).fence = r.fence /\ Denied(r).queue = <<>>
      /\ Denied(r).up = "gone" /\ Denied(r).client = r.client /\ Denied(r).kind = r.kind
      /\ Denied(r).check = "none" BY <1>1, <1>3 DEF Relay, Denied
<1>5. ASSUME r.up = "open" PROVE HeldInOrder(Denied(r), epoch) /\ Closed(Denied(r))
  BY <1>1, <1>4, <1>5, Onward DEF Closed
<1>6. CASE MessageArrives(c)
 <2> DEFINE s == Append(r.queue, epoch)
            q == [r EXCEPT !.queue = Append(@, epoch)]
 <2>1. SocketLive(c) /\ r.fence > 0 /\ (Become(c, q) \/ Become(c, Denied(r))) BY <1>6 DEF MessageArrives
 <2>2. /\ s \in Seq(Nat) /\ Len(s) = Len(r.queue) + 1 /\ s[Len(r.queue) + 1] = epoch
       /\ \A i \in 1..Len(r.queue) : s[i] = r.queue[i] BY <1>1, <1>2, AppendProperties
 <2>3. /\ q \in Relay /\ q.fence = r.fence /\ q.queue = s /\ q.check = r.check
       /\ q.up = r.up /\ q.client = r.client /\ q.kind = r.kind BY <1>1, <2>2 DEF Relay
 <2> HIDE DEF s, q
 <2>4. \A i \in 1..Len(s) : r.fence <= s[i] /\ s[i] <= epoch
  <3>1. \A i \in 1..Len(s) : i \in 1..Len(r.queue) \/ i = Len(r.queue) + 1 BY <1>2, <2>2
  <3>2. r.fence <= epoch /\ \A i \in 1..Len(r.queue) : r.fence <= r.queue[i] /\ r.queue[i] <= epoch
    BY <1>1 DEF HeldInOrder
  <3>3. TAKE i \in 1..Len(s)
  <3>4. CASE i \in 1..Len(r.queue) BY <2>2, <3>2, <3>4
  <3>5. CASE i = Len(r.queue) + 1
   <4>1. s[i] = epoch /\ epoch <= epoch BY <1>1, <2>2, <3>5
   <4> QED BY <3>2, <4>1
  <3> QED BY <3>1, <3>4, <3>5
 <2>5. ASSUME r.check = "ok" PROVE s[1] = r.fence
  <3>1. Len(r.queue) > 0 /\ (r.fence = 0 \/ r.queue[1] = r.fence) BY <1>1, <2>1, <2>5 DEF HeldInOrder, SocketLive
  <3>2. r.fence # 0 BY <2>1
  <3>3. 1 \in 1..Len(r.queue) BY <1>2, <3>1
  <3> QED BY <2>2, <3>1, <3>2, <3>3
 <2>6. HeldInOrder(q, epoch) /\ Closed(q)
   BY <1>1, <1>2, <2>1, <2>2, <2>3, <2>4, <2>5 DEF HeldInOrder, Closed, SocketLive, Relay
 <2> QED BY <1>4, <1>5, <2>1, <2>3, <2>6, BecomeStep DEF SocketLive
<1>7. CASE MessageChecked(c)
 <2> DEFINE q == [r EXCEPT !.check = AnswerMessage(r)]
 <2>1. SocketLive(c) /\ r.queue # <<>> /\ Become(c, q) BY <1>7 DEF MessageChecked
 <2>2. AnswerMessage(r) \in {"ok", "bad"} /\ (AnswerMessage(r) = "ok" => r.fence = 0 \/ epoch = r.fence)
   BY DEF AnswerMessage, Matches
 <2>3. /\ q \in Relay /\ q.fence = r.fence /\ q.queue = r.queue /\ q.check = AnswerMessage(r)
       /\ q.up = r.up /\ q.client = r.client /\ q.kind = r.kind BY <1>1, <2>2 DEF Relay
 <2> HIDE DEF q
 <2>4. Len(r.queue) > 0 /\ r.queue[1] \in Nat /\ r.fence <= r.queue[1] /\ r.queue[1] <= epoch
   BY <1>1, <1>2, <2>1, EmptySeq, ElementOfSeq DEF HeldInOrder
 <2>5. r.fence \in Nat BY <1>1 DEF Relay
 <2>6. HeldInOrder(q, epoch) /\ Closed(q) BY <1>1, <2>1, <2>2, <2>3, <2>4, <2>5 DEF HeldInOrder, Closed, SocketLive
 <2> QED BY <2>1, <2>3, <2>6, BecomeStep
<1>8. CASE MessageSettles(c)
 <2> DEFINE q == [r EXCEPT !.queue = Tail(@), !.check = "none"]
 <2>1. r.check # "none" /\ r.check \in {"none", "ok", "bad"} BY <1>1, <1>8 DEF MessageSettles, Relay
 <2>2. relay' = [relay EXCEPT ![c] = IF r.check = "bad" THEN Denied(r) ELSE q] BY <1>8 DEF MessageSettles
 <2>3. dispatched' = (dispatched \/ (r.check = "ok" /\ Head(r.queue) # r.fence)) BY <1>8 DEF MessageSettles
 <2>4. SocketLive(c) /\ UNCHANGED <<now, tokenExp, usedJtis, grants, epoch>>
   BY <1>8 DEF MessageSettles, sessionVars, placeVars
 <2>5. ASSUME r.check = "ok" PROVE Len(r.queue) > 0 /\ r.queue # <<>> /\ Head(r.queue) = r.fence
  <3>1. Len(r.queue) > 0 /\ r.fence # 0 /\ r.queue[1] = r.fence
    BY <1>1, <1>2, <2>4, <2>5, EmptySeq DEF HeldInOrder, SocketLive
  <3> QED BY <1>2, <3>1, EmptySeq
 <2>6. NothingOvertaken' BY <2>3, <2>5 DEF GateInv, NothingOvertaken
 <2>7. ASSUME r.check = "ok" PROVE q \in Relay /\ HeldInOrder(q, epoch) /\ Closed(q)
  <3> DEFINE s == Tail(r.queue)
  <3>1. /\ s \in Seq(Nat) /\ Len(s) = Len(r.queue) - 1
        /\ \A i \in 1..Len(s) : s[i] = r.queue[i + 1] BY <1>2, <2>5, <2>7, HeadTailProperties
  <3>2. /\ q \in Relay /\ q.fence = r.fence /\ q.queue = s /\ q.check = "none"
        /\ q.up = r.up /\ q.client = r.client /\ q.kind = r.kind BY <1>1, <3>1 DEF Relay
  <3> HIDE DEF s, q
  <3>3. r.fence # 0 BY <1>1, <2>5, <2>7 DEF HeldInOrder
  <3>4. \A i \in 1..Len(s) : i + 1 \in 1..Len(r.queue) BY <1>2, <3>1
  <3> QED BY <1>1, <2>4, <3>1, <3>2, <3>3, <3>4 DEF HeldInOrder, Closed, SocketLive
 <2> HIDE DEF q
 <2>8. CASE r.check = "bad" BY <1>4, <1>5, <2>2, <2>4, <2>6, <2>8, RelayStep DEF SocketLive
 <2>9. CASE r.check = "ok" BY <2>2, <2>4, <2>6, <2>7, <2>9, RelayStep
 <2> QED BY <2>1, <2>8, <2>9
<1> QED BY <1>6, <1>7, <1>8

LEMMA GateInvStep == Skew \in Nat /\ GateInv /\ [GateNext]_gateVars => GateInv'
<1> SUFFICES ASSUME Skew \in Nat, GateInv, [GateNext]_gateVars PROVE GateInv' OBVIOUS
<1>1. GateTypes /\ now <= now /\ epoch <= epoch BY DEF GateInv, GateTypes
<1>2. CASE UNCHANGED gateVars
 <2>1. UNCHANGED <<now, tokenExp, usedJtis, grants, relay, epoch, dispatched>> BY <1>2 DEF gateVars
 <2> QED BY <1>1, <2>1, SpentStays, SessionStep DEF GateTypes
<1>3. CASE Logout \/ KeyWritten
 <2>1. UNCHANGED <<now, tokenExp, usedJtis, grants, relay, epoch, dispatched>>
   BY <1>3 DEF Logout, KeyWritten, placeVars
 <2> QED BY <1>1, <2>1, SpentStays, SessionStep DEF GateTypes
<1>4. CASE ClockTick
 <2>1. now' = now + 1 /\ UNCHANGED <<tokenExp, usedJtis, grants, relay, epoch, dispatched>>
   BY <1>4 DEF ClockTick, placeVars
 <2> QED BY <1>1, <2>1, SpentStays, SessionStep DEF GateTypes
<1>5. CASE FilesRestart
 <2>1. epoch' \in {epoch, epoch + 1} /\ UNCHANGED <<now, tokenExp, usedJtis, grants, relay, dispatched>>
   BY <1>5 DEF FilesRestart, sessionVars
 <2> QED BY <1>1, <2>1, SpentStays, SessionStep DEF GateTypes
<1>6. ASSUME NEW t \in Tokens, Exchange(t) PROVE GateInv' BY <1>6, ExchangeStep
<1>7. ASSUME NEW c \in Relays, ProxyRequest(c) \/ HealthProbe(c) \/ ProxyUpgrade(c) PROVE GateInv' BY <1>7, OpenStep
<1>8. ASSUME NEW c \in Relays,
             \/ FenceChecked(c) \/ FencePassed(c) \/ UpstreamAnswers(c) \/ UpstreamEnds(c)
             \/ UpstreamGone(c) \/ UpstreamHandlers(c) \/ ClientLeaves(c) \/ ClientHandlers(c)
             \/ EpochTick(c) \/ PingTick(c) \/ Pong(c)
      PROVE  GateInv' BY <1>8, PhaseStep
<1>9. ASSUME NEW c \in Relays, MessageArrives(c) \/ MessageChecked(c) \/ MessageSettles(c) PROVE GateInv'
  BY <1>9, MessageStep
<1> QED BY <1>2, <1>3, <1>4, <1>5, <1>6, <1>7, <1>8, <1>9 DEF GateNext

\* However many tokens, connections and changes of the workspace there are, and in
\* whatever order the ends of a connection go: a token buys one cookie, nothing is
\* left open upstream of a client that is gone, and no message that arrived after
\* the workspace changed reaches the broker.
THEOREM GateKeepsItsPromises == ASSUME Skew \in Nat PROVE GateSpec => []GatePromises
<1>1. GateInit => GateInv
 <2> SUFFICES ASSUME GateInit PROVE GateInv OBVIOUS
 <2>1. GateTypes BY NoRelayType DEF GateInit, GateTypes
 <2>2. SpentIsRefused BY DEF GateInit, SpentIsRefused
 <2>3. RelaysHold BY NoRelayType, FreshRelay, <2>1 DEF GateInit, RelaysHold, NoRelay
 <2> QED BY <2>1, <2>2, <2>3 DEF GateInv, NothingOvertaken, GateInit
<1>2. GateInv => GatePromises
 <2> SUFFICES ASSUME GateInv PROVE GatePromises OBVIOUS
 <2>1. TokenBuysOnce
  <3>1. ASSUME NEW t \in Tokens PROVE grants[t] <= 1
   <4>1. grants[t] \in Nat BY DEF GateInv, GateTypes
   <4>2. grants[t] = 0 \/ grants[t] = 1 BY DEF GateInv, SpentIsRefused
   <4> QED BY <4>1, <4>2
  <3> QED BY <3>1 DEF TokenBuysOnce
 <2>2. NothingLeftOpen BY DEF GateInv, RelaysHold, Closed, NothingLeftOpen
 <2> QED BY <2>1, <2>2 DEF GateInv, GatePromises
<1>3. GateInv /\ [GateNext]_gateVars => GateInv' BY GateInvStep
<1> QED BY <1>1, <1>2, <1>3, PTL DEF GateSpec

--------------------
\* OwnedDemo: once the deletion of the project has fenced its owner,
\* nothing is published for it.

\* The records keep their fields; a fence is one of the owners so far.
HasFields(r, d) == "fence" \in DOMAIN r /\ {"members", "map", "holds"} \subseteq DOMAIN d

Fences == HasFields(rec, disk) /\ owner \in Nat /\ owner > 0 /\ rec.fence \in 0..owner

\* After the fence only a restart opens admission again, and a fenced owner gets
\* no permit: it never comes to a step that publishes.
FencedIsIdle ==
    rec.fence = owner /\ admission = "open" => task \in {"off", "boot", "index", "idle"} /\ live # "save"

DemoInv == Fences /\ FencedIsIdle

\* What no step of a fenced owner does.
Unpublished == /\ disk'.members = disk.members /\ disk'.map = disk.map /\ (disk'.holds => disk.holds)

\* The record stays the one of fence f.
Same(r, q) == "fence" \in DOMAIN q /\ q.fence = r.fence

LEMMA RecSteps ==
  ASSUME NEW r, "fence" \in DOMAIN r
  PROVE  Same(r, Released(r)) /\ Same(r, Published(r)) /\ Same(r, Cleared(r)) /\ Same(r, Converted(r))
<1>1. Same(r, Released(r)) BY DEF Same, Released
<1>2. Same(r, Published(r)) BY DEF Same, Published
<1>3. Same(r, Cleared(r)) BY DEF Same, Cleared
<1>4. Same(r, Converted(r)) BY DEF Same, Converted
<1> QED BY <1>1, <1>2, <1>3, <1>4

LEMMA DispatchStep ==
  ASSUME NEW r, Same(rec, r), NEW after, NEW failing, Dispatch(r, after, failing)
  PROVE  Same(rec, rec') /\ task' \in {after, failing}
<1>1. rec' \in {r, Cleared(r)} /\ task' \in {after, failing} BY DEF Dispatch
<1>2. Same(r, Cleared(r)) BY RecSteps DEF Same
<1> QED BY <1>1, <1>2 DEF Same

LEMMA CheckpointStep ==
  ASSUME NEW r, Same(rec, r), NEW stage, NEW outcome, NEW kept, NEW after, NEW failing,
         Checkpoint(r, stage, outcome, kept, after, failing)
  PROVE  Same(rec, rec') /\ task' \in {after, failing}
<1> DEFINE q == [r EXCEPT !.pend = [stage |-> stage, outcome |-> outcome, mode |-> kept]]
<1>1. Same(rec, q) BY DEF Same
<1>2. Dispatch(q, after, failing) BY DEF Checkpoint
<1> HIDE DEF q
<1> QED BY <1>1, <1>2, DispatchStep

LEMMA LetGoStep ==
  ASSUME Fences, LetGo \/ UNCHANGED disk
  PROVE  Unpublished /\ {"members", "map", "holds"} \subseteq DOMAIN disk'
BY DEF LetGo, Unpublished, Fences, HasFields

LEMMA SettleStep ==
  ASSUME Fences, NEW after, SettleFiles(after)
  PROVE  Same(rec, rec') /\ task' \in {after, "off"}
<1> DEFINE done == rec.files = "published"
           r == IF done THEN rec ELSE [rec EXCEPT !.fFail = be.rev]
<1>1. Same(rec, r) BY DEF Same, Fences, HasFields
<1>2. Checkpoint(r, "files", IF done THEN "ready" ELSE "failed", "settlement", after, "off") BY DEF SettleFiles
<1> HIDE DEF r, done
<1> QED BY <1>1, <1>2, CheckpointStep

LEMMA ReportStep ==
  ASSUME Fences, NEW outcome, ReportFailure(outcome)
  PROVE  Same(rec, rec') /\ task' = "idle" /\ (LetGo \/ UNCHANGED disk)
<1> DEFINE r == [rec EXCEPT !.deferred = outcome]
           q == [r EXCEPT !.outcome = outcome, !.mFail = be.rev]
           kept == IF DemoExpired THEN "settlement" ELSE "publication"
<1>1. Same(rec, r) /\ Same(rec, q) BY DEF Same, Fences, HasFields
<1>2. \/ LetGo /\ Checkpoint(Released(q), "map", outcome, kept, "idle", "idle")
      \/ rec' = r /\ task' = "idle" /\ UNCHANGED disk BY DEF ReportFailure
<1> HIDE DEF r, q, kept
<1>3. Same(rec, Released(q)) BY <1>1, RecSteps DEF Same
<1> QED BY <1>1, <1>2, <1>3, CheckpointStep

\* What every step has to show.
Held == DemoInv' /\ (rec.fence = owner /\ owner' = owner => rec'.fence = owner /\ Unpublished)

\* A step that leaves fence and disk alone keeps everything, if a fenced owner is
\* still idle after it.
LEMMA Quiet ==
  ASSUME DemoInv, Same(rec, rec'), owner' = owner, LetGo \/ UNCHANGED disk, FencedIsIdle'
  PROVE  Held
<1>1. Unpublished /\ {"members", "map", "holds"} \subseteq DOMAIN disk' BY LetGoStep DEF DemoInv
<1>2. Fences' BY <1>1 DEF Same, Fences, HasFields, DemoInv
<1> QED BY <1>1, <1>2 DEF Held, DemoInv, Same

\* A step of an owner that has not been fenced, or under a closed admission.
LEMMA WorkGoesOn ==
  ASSUME DemoInv, Same(rec, rec'), owner' = owner, {"members", "map", "holds"} \subseteq DOMAIN disk',
         rec.fence # owner
  PROVE  Held BY DEF Held, DemoInv, Fences, HasFields, FencedIsIdle, Same

LEMMA SameRec == Fences => Same(rec, rec) BY DEF Same, Fences, HasFields

LEMMA HeldStep == DemoInv /\ [DemoNext]_demoVars => Held
<1> SUFFICES ASSUME DemoInv, [DemoNext]_demoVars PROVE Held OBVIOUS
<1>0. Fences /\ FencedIsIdle /\ Same(rec, rec) BY SameRec DEF DemoInv
<1>a. {"members", "map", "holds"} \subseteq DOMAIN disk BY <1>0 DEF Fences, HasFields
\* Steps that leave the record, the disk and the owner.
<1>b. ASSUME UNCHANGED <<rec, disk, owner>>,
             admission' = "open" => admission = "open",
             task' = task \/ task' \in {"off", "boot", "index", "idle"} \/ rec.fence # owner \/ admission' # "open",
             live' \in {live, None, "request"} \/ rec.fence # owner \/ admission' # "open"
      PROVE  Held
 <2>1. Same(rec, rec') BY <1>0, <1>b
 <2>2. FencedIsIdle' BY <1>0, <1>b DEF FencedIsIdle, None
 <2> QED BY <1>b, <2>1, <2>2, Quiet
<1>1. CASE Boot BY <1>1, <1>b DEF Boot, DemoOpen
<1>2. CASE BootReplay
 <2>1. /\ rec.fence = 0 /\ UNCHANGED <<disk, owner, admission, live>>
       /\ Dispatch(Converted(rec), "boot", "off") BY <1>2 DEF BootReplay, FilesPending
 <2>2. Same(rec, Converted(rec)) BY <1>0, RecSteps DEF Same
 <2>3. Same(rec, rec') BY <2>1, <2>2, DispatchStep
 <2>4. rec.fence # owner BY <1>0, <2>1 DEF Fences
 <2> QED BY <1>a, <2>1, <2>3, <2>4, WorkGoesOn
<1>3. CASE InitFiles
 <2>1. UNCHANGED <<disk, owner, admission, live>> BY <1>3 DEF InitFiles
 <2>2. Same(rec, rec') /\ task' \in {"index", "off"}
  <3>1. CASE rec' = Published(rec) /\ task' = "index" BY <1>0, <3>1, RecSteps DEF Same
  <3>2. CASE rec' = rec /\ task' \in {"index", "off"} BY <1>0, <3>2
  <3>3. CASE SettleFiles(IF rec.files = "published" THEN "index" ELSE "off") BY <1>0, <3>3, SettleStep
  <3> QED BY <1>3, <3>1, <3>2, <3>3 DEF InitFiles
 <2>3. FencedIsIdle' BY <1>0, <2>1, <2>2 DEF FencedIsIdle, Same
 <2> QED BY <2>1, <2>2, <2>3, Quiet
\* The permit is where a fenced owner is turned away.
<1>4. CASE PermitFiles
 <2>1. UNCHANGED <<disk, owner, live>> BY <1>4 DEF PermitFiles
 <2>2. CASE LoseAuthority BY <1>0, <2>1, <2>2, Quiet DEF LoseAuthority, FencedIsIdle
 <2>3. CASE ~Fenced /\ rec' = rec BY <1>0, <1>a, <2>1, <2>3, WorkGoesOn DEF Fenced
 <2>4. CASE ~Fenced /\ rec' = [rec EXCEPT !.fence = 0, !.pend = IF rec.fence # 0 THEN NoPend ELSE @, !.fRev = be.rev,
                                         !.files = IF @ = None THEN "staging" ELSE @]
  <3>1. rec'.fence = 0 /\ "fence" \in DOMAIN rec' BY <1>0, <2>4 DEF Same
  <3> QED BY <1>0, <1>a, <2>1, <2>4, <3>1 DEF Fenced, Held, DemoInv, Fences, HasFields, FencedIsIdle
 <2> QED BY <1>4, <2>2, <2>3, <2>4 DEF PermitFiles
\* Under open admission no step that publishes is a fenced owner's.
<1>c. ASSUME DemoOpen, task \notin {"off", "boot", "index", "idle"} \/ live = "save" PROVE rec.fence # owner
  BY <1>0, <1>c DEF FencedIsIdle, DemoOpen
<1>5. CASE Stage
 <2>1. rec' = [rec EXCEPT !.files = "publishing"] /\ UNCHANGED <<disk, owner>> /\ rec.fence # owner
   BY <1>5, <1>c DEF Stage, StepOf
 <2> QED BY <1>0, <1>a, <2>1, WorkGoesOn DEF Same
<1>6. CASE Install \/ HoldInputs
 <2>1. UNCHANGED <<rec, owner>> /\ rec.fence # owner /\ DOMAIN disk' = DOMAIN disk
   BY <1>6, <1>c DEF Install, HoldInputs, StepOf
 <2> QED BY <1>0, <1>a, <2>1, WorkGoesOn
<1>7. CASE PublishFiles
 <2>1. rec' = Published(rec) /\ UNCHANGED <<disk, owner>> /\ rec.fence # owner BY <1>7, <1>c DEF PublishFiles, StepOf
 <2> QED BY <1>0, <1>a, <2>1, RecSteps, WorkGoesOn DEF Same
<1>8. CASE StartupFails BY <1>8, <1>b DEF StartupFails
<1>9. CASE FilesIndexed
 <2>1. UNCHANGED <<disk, owner, admission, live>> BY <1>9 DEF FilesIndexed
 <2>2. Same(rec, rec') /\ task' \in {"idle", "off"}
  <3>1. CASE UNCHANGED rec /\ task' \in {"idle", "off"} BY <1>0, <3>1
  <3>2. CASE SettleFiles("idle") BY <1>0, <3>2, SettleStep
  <3>3. CASE Checkpoint(rec, "files", "ready", "publication", "idle", "off") BY <1>0, <3>3, CheckpointStep
  <3> QED BY <1>9, <3>1, <3>2, <3>3 DEF FilesIndexed
 <2>3. FencedIsIdle' BY <1>0, <2>1, <2>2 DEF FencedIsIdle, Same
 <2> QED BY <2>1, <2>2, <2>3, Quiet
\* Authority that is lost closes admission.
<1>d. ASSUME LoseAuthority, UNCHANGED <<disk, owner>> PROVE Held BY <1>0, <1>d, Quiet DEF LoseAuthority, FencedIsIdle
\* A turn that ends idle, whatever was recorded.
<1>e. ASSUME Same(rec, rec'), task' = "idle", LetGo \/ UNCHANGED disk, UNCHANGED <<owner, admission>>,
             live' \in {live, None, "request"} \/ rec.fence # owner
      PROVE  Held
 <2>1. FencedIsIdle' BY <1>0, <1>e DEF FencedIsIdle, Same, None
 <2> QED BY <1>e, <2>1, Quiet
<1>10. CASE DemoReplay
 <2>1. UNCHANGED <<disk, live, owner>> BY <1>10 DEF DemoReplay
 <2>2. CASE LoseAuthority BY <2>1, <2>2, <1>d
 <2>3. CASE Dispatch(Converted(rec), "idle", "idle") /\ UNCHANGED admission
  <3>1. Same(rec, rec') /\ task' = "idle" BY <1>0, <2>3, RecSteps, DispatchStep DEF Same
  <3> QED BY <1>e, <2>1, <2>3, <3>1
 <2> QED BY <1>10, <2>2, <2>3 DEF DemoReplay
<1>11. CASE DeferredFailure \/ Overdue
 <2>1. UNCHANGED <<live, owner>> BY <1>11 DEF DeferredFailure, Overdue
 <2>2. CASE LoseAuthority /\ UNCHANGED disk BY <2>1, <2>2, <1>d
 <2>3. ASSUME NEW outcome, ReportFailure(outcome), UNCHANGED admission PROVE Held
  <3>1. Same(rec, rec') /\ task' = "idle" /\ (LetGo \/ UNCHANGED disk) BY <1>0, <2>3, ReportStep
  <3> QED BY <1>e, <2>1, <2>3, <3>1
 <2>4. ASSUME Checkpoint([rec EXCEPT !.outcome = "ready"], "map", "ready", "settlement", "idle", "idle"),
              UNCHANGED <<admission, disk>>
       PROVE  Held
  <3>1. Same(rec, [rec EXCEPT !.outcome = "ready"]) BY <1>0 DEF Same
  <3>2. Same(rec, rec') /\ task' = "idle" BY <2>4, <3>1, CheckpointStep
  <3> QED BY <1>e, <2>1, <2>4, <3>2
 <2>5. CASE DeferredFailure BY <2>2, <2>3, <2>5 DEF DeferredFailure
 <2>6. CASE Overdue BY <2>2, <2>3, <2>4, <2>6 DEF Overdue
 <2> QED BY <1>11, <2>5, <2>6
<1>12. CASE Resume
 <2>1. UNCHANGED <<disk, live, owner>> BY <1>12 DEF Resume
 <2>2. CASE LoseAuthority BY <2>1, <2>2, <1>d
 <2>3. ASSUME NEW kept, Checkpoint([rec EXCEPT !.outcome = "ready"], "map", "ready", kept, "idle", "idle"),
              UNCHANGED admission
       PROVE  Held
  <3>1. Same(rec, [rec EXCEPT !.outcome = "ready"]) BY <1>0 DEF Same
  <3>2. Same(rec, rec') /\ task' = "idle" BY <2>3, <3>1, CheckpointStep
  <3> QED BY <1>e, <2>1, <2>3, <3>2
 <2> QED BY <1>12, <2>2, <2>3 DEF Resume
<1>13. CASE PermitMap
 <2>1. UNCHANGED <<disk, live, owner>> BY <1>13 DEF PermitMap
 <2>2. CASE LoseAuthority BY <2>1, <2>2, <1>d
 <2>3. CASE ~Fenced /\ rec' = rec BY <1>0, <1>a, <2>1, <2>3, WorkGoesOn DEF Fenced
 <2>4. CASE ~Fenced /\ rec' = [rec EXCEPT !.fence = 0, !.ret = "held", !.retRev = be.rev, !.mRev = be.rev,
                                     !.settled = IF rec.ret = "held" THEN @ ELSE FALSE,
                                     !.outcome = IF rec.ret = "held" THEN @ ELSE None]
  <3>1. rec'.fence = 0 /\ "fence" \in DOMAIN rec' BY <1>0, <2>4 DEF Same
  <3> QED BY <1>0, <1>a, <2>1, <2>4, <3>1 DEF Fenced, Held, DemoInv, Fences, HasFields, FencedIsIdle
 <2> QED BY <1>13, <2>2, <2>3, <2>4 DEF PermitMap
<1>14. CASE CaptureInputs \/ Report
 <2>1. rec.fence # owner /\ UNCHANGED owner BY <1>14, <1>c DEF CaptureInputs, Report
 <2>2. CASE \E outcome : ReportFailure(outcome)
  <3>1. Same(rec, rec') /\ (LetGo \/ UNCHANGED disk) BY <1>0, <2>2, ReportStep
  <3>2. {"members", "map", "holds"} \subseteq DOMAIN disk' BY <1>0, <3>1, LetGoStep
  <3> QED BY <2>1, <3>1, <3>2, WorkGoesOn
 <2>3. CASE UNCHANGED <<rec, disk>> BY <1>0, <1>a, <2>1, <2>3, WorkGoesOn
 <2> QED BY <1>14, <2>2, <2>3 DEF CaptureInputs, Report
<1>15. CASE RequestEnds \/ SaveClaims \/ Deadline \/ Retry \/ UNCHANGED demoVars
  BY <1>15, <1>b DEF RequestEnds, SaveClaims, Deadline, Retry, demoVars
<1>16. CASE DispatchSave \/ StepFails
 <2>1. rec.fence # owner /\ UNCHANGED <<rec, disk, owner, admission>> BY <1>16, <1>c DEF DispatchSave, StepFails
 <2> QED BY <1>0, <1>a, <2>1, WorkGoesOn
<1>17. CASE SaveEnds
 <2>1. live = "save" /\ UNCHANGED <<rec, owner, admission, task>> /\ DOMAIN disk' = DOMAIN disk /\ live' = None
   BY <1>17 DEF SaveEnds
 <2>2. CASE DemoOpen BY <1>0, <1>a, <1>c, <2>1, <2>2, WorkGoesOn
 <2>3. CASE ~DemoOpen BY <1>17, <1>b, <2>1, <2>3 DEF SaveEnds
 <2> QED BY <2>2, <2>3
<1>18. CASE SaveReturns
 <2>1. rec.fence # owner /\ UNCHANGED <<disk, owner>> BY <1>18, <1>c DEF SaveReturns
 <2>2. CASE UNCHANGED rec BY <1>0, <1>a, <2>1, <2>2, WorkGoesOn
 <2>3. CASE Checkpoint([rec EXCEPT !.outcome = "ready"], "map", "ready", "publication", "idle", "idle")
  <3>1. Same(rec, [rec EXCEPT !.outcome = "ready"]) BY <1>0 DEF Same
  <3>2. Same(rec, rec') BY <2>3, <3>1, CheckpointStep
  <3> QED BY <1>a, <2>1, <3>2, WorkGoesOn
 <2> QED BY <1>18, <2>2, <2>3 DEF SaveReturns
<1>19. CASE Preempted BY <1>19, <1>b DEF Preempted
\* The fence is written while admission is closed.
<1>20. CASE DemoDrain
 <2>1. UNCHANGED <<disk, owner>> /\ admission' = "closed"
       /\ (rec' = [rec EXCEPT !.fence = owner] \/ rec' = rec) BY <1>20 DEF DemoDrain
 <2>2. "fence" \in DOMAIN rec' /\ rec'.fence \in {owner, rec.fence} BY <1>0, <2>1 DEF Same
 <2> QED BY <1>0, <1>a, <2>1, <2>2 DEF Held, DemoInv, Fences, HasFields, FencedIsIdle, Unpublished
<1>21. CASE Barrier
 <2>1. rec' = Released(rec) /\ LetGo /\ admission' = "acked" /\ owner' = owner BY <1>21 DEF Barrier
 <2>2. Same(rec, rec') BY <1>0, <2>1, RecSteps DEF Same
 <2> QED BY <2>1, <2>2, Quiet DEF FencedIsIdle
\* A restart is idle, and finds the fence.
<1>22. CASE Stop
 <2>1. UNCHANGED <<rec, disk, owner>> /\ task' = "off" /\ live' = None BY <1>22 DEF Stop
 <2> QED BY <1>0, <2>1, Quiet DEF FencedIsIdle, None
<1>23. CASE Replace
 <2>1. UNCHANGED <<rec, disk>> /\ owner' = owner + 1 BY <1>23 DEF Replace
 <2>2. owner' \in Nat /\ owner' > 0 /\ rec.fence \in 0..owner' /\ rec.fence # owner' /\ owner' # owner
   BY <1>0, <2>1 DEF Fences
 <2> QED BY <1>0, <1>a, <2>1, <2>2 DEF Held, DemoInv, Fences, HasFields, FencedIsIdle
<1>24. CASE UserEdits
 <2>1. UNCHANGED <<rec, owner, admission, task, live>> /\ disk' = [disk EXCEPT !.edited = TRUE] BY <1>24 DEF UserEdits
 <2>2. Unpublished /\ {"members", "map", "holds"} \subseteq DOMAIN disk' BY <1>a, <2>1 DEF Unpublished
 <2> QED BY <1>0, <2>1, <2>2 DEF Held, DemoInv, Fences, HasFields, FencedIsIdle
<1>25. CASE OperatorRelease
 <2>1. rec' = Released(rec) /\ LetGo /\ UNCHANGED <<task, live, admission, owner>> BY <1>25 DEF OperatorRelease
 <2>2. Same(rec, rec') BY <1>0, <2>1, RecSteps DEF Same
 <2>3. FencedIsIdle' BY <1>0, <2>1, <2>2 DEF FencedIsIdle, Same
 <2> QED BY <2>1, <2>2, <2>3, Quiet
<1> QED BY <1>1, <1>2, <1>3, <1>4, <1>5, <1>6, <1>7, <1>8, <1>9, <1>10, <1>11, <1>12, <1>13, <1>14, <1>15,
     <1>16, <1>17, <1>18, <1>19, <1>20, <1>21, <1>22, <1>23, <1>24, <1>25 DEF DemoNext

LEMMA DemoStarts == DemoInit => DemoInv
<1> SUFFICES ASSUME DemoInit PROVE DemoInv OBVIOUS
<1>1. /\ "fence" \in DOMAIN rec /\ rec.fence = 0 /\ owner = 1
      /\ {"members", "map", "holds"} \subseteq DOMAIN disk BY DEF DemoInit
<1> QED BY <1>1 DEF DemoInv, Fences, HasFields, FencedIsIdle

\* A fence stands for its owner: after it no restart, retry or late answer installs
\* a file, saves the map or takes a hold, and only a replacement lifts it
\* (validatePermit, the drain of files-server.js, lifecycle-admission.js).
THEOREM FencedForGood == DemoSpec => FenceHolds
<1>1. DemoInit => DemoInv BY DemoStarts
<1>2. DemoInv /\ [DemoNext]_demoVars => DemoInv' BY HeldStep DEF Held
<1>3. DemoInv /\ [DemoNext]_demoVars =>
        [rec.fence = owner /\ owner' = owner =>
          /\ rec'.fence = owner
          /\ disk'.members = disk.members /\ disk'.map = disk.map /\ (disk'.holds => disk.holds)]_demoVars
  BY HeldStep DEF Held, Unpublished
<1> QED BY <1>1, <1>2, <1>3, PTL DEF DemoSpec, FenceHolds

\* For the truth of the reports: the stages of startup and of an attempt at the map.
Startup == {"off", "boot", "stage", "install", "index"}
Attempt == {"inputs", "capturing", "prepared", "saving", "reporting"}
Outcomes == {"ready", "failed", "conflict"}

Checkpoints == [stage : {"files", "map"}, outcome : Outcomes, mode : {"publication", "settlement", "validation"}]
Backend == [files : {"pending", "ready", "failed"}, map : {"pending", "ready", "failed"}, initial : BOOLEAN, rev : Nat, over : BOOLEAN,
            fp : {None, "granted", "completed", "failed"}, mp : {None, "granted", "completed", "failed"},
            mpId : Nat, bound : Nat, failed : Nat]
DemoRecord == [files : {None, "staging", "publishing", "published"}, fRev : Nat, fFail : Nat, fSettled : BOOLEAN,
               pend : {NoPend} \cup Checkpoints, ret : {None, "held", "released"}, retRev : Nat, outcome : {None} \cup Outcomes,
               mFail : Nat, mRev : Nat, deferred : {None, "failed", "conflict"}, settled : BOOLEAN, fence : Nat]
DemoDisk == [members : Nat, map : BOOLEAN, holds : BOOLEAN, edited : BOOLEAN]

DemoTypes(b, r, d, s, t, l) ==
    /\ b \in Backend /\ r \in DemoRecord /\ d \in DemoDisk
    /\ s \in {None, "failed", "accepted", "doubt", "committed"}
    /\ t \in Startup \cup {"idle"} \cup Attempt /\ l \in {None, "request", "save"}

\* Whoever takes the files for installed is right.
Installed(b, r, d, t) ==
    r.files = "published" \/ t = "index" \/ b.files = "ready" \/ (r.pend.stage = "files" /\ r.pend.outcome = "ready")
      => d.members = Members

\* A map reported, or to be reported, was saved, with its inputs held until they are released.
Saved(b, r, d, s, t, l) ==
    /\ b.map = "ready" \/ (r.pend.stage = "map" /\ r.pend.outcome = "ready") => s = "committed"
    /\ s = "committed" => d.map
    /\ (t = "prepared" \/ l = "save" \/ s \in {"accepted", "doubt", "committed"}) /\ r.ret = "held" => d.holds

\* What is outstanding belongs to the one attempt there is, or to one whose failure waits for it.
OneAttempt(r, s, t, l, open) ==
    /\ r.pend # NoPend => l = None /\ t \notin Attempt
    /\ t \in {"inputs", "capturing", "prepared"} => s \in {None, "failed"} /\ l # "save" /\ (l = None \/ t = "capturing")
    /\ l # None => s \in {None, "failed", "accepted"} /\ t \notin Startup
    /\ l # None /\ open => t \in {"capturing", "saving", "reporting"} \/ r.deferred # None \/ s = "accepted"

\* A failure is reported of an attempt that is over, and no attempt begins under its number again.
OverWhenFailed(b, r, s, t, l) ==
    /\ r.pend.stage = "map" /\ r.pend.outcome # "ready" => s \in {None, "failed"}
    /\ b.rev > 0 /\ b.mpId <= b.rev /\ b.failed <= b.rev
    /\ b.failed = b.rev => b.map # "pending" /\ b.mp # "granted"
    /\ b.failed # 0 /\ b.failed = r.mRev /\ b.failed = b.mpId => s \in {None, "failed"} /\ l = None /\ t \notin Attempt

Truth(b, r, d, s, t, l, open) ==
    /\ DemoTypes(b, r, d, s, t, l) /\ Installed(b, r, d, t) /\ Saved(b, r, d, s, t, l)
    /\ OneAttempt(r, s, t, l, open) /\ OverWhenFailed(b, r, s, t, l)

TruthInv == Truth(be, rec, disk, saveOp, task, live, DemoOpen)

\* With nothing outstanding and no attempt under way, what is awaited next does not matter.
LEMMA TaskEnds ==
  ASSUME NEW b, NEW r, NEW d, NEW s, NEW t, NEW u \in {"off", "boot", "stage", "install", "index", "idle"}, NEW o \in BOOLEAN,
         Truth(b, r, d, s, t, None, o), u = "index" => d.members = Members
  PROVE  Truth(b, r, d, s, u, None, o)
<1>1. u \notin Attempt /\ u \in Startup \cup {"idle"} /\ u # "prepared" /\ u \notin {"inputs", "capturing", "prepared"}
  BY DEF Attempt, Startup
<1> QED BY <1>1 DEF Truth, DemoTypes, Installed, Saved, OneAttempt, OverWhenFailed

\* The backend takes a checkpoint.
LEMMA Accepted ==
  ASSUME NEW b \in Backend, NEW p \in Checkpoints
  PROVE  LET a == Accept(b, p) IN
         /\ a \in Backend /\ a.rev = b.rev /\ a.mpId = b.mpId
         /\ a.files = "ready" => b.files = "ready" \/ (p.stage = "files" /\ p.outcome = "ready")
         /\ a.map = "ready" => b.map = "ready" \/ (p.stage = "map" /\ p.outcome = "ready")
         /\ \/ a.failed = b.failed /\ (a.map = "pending" => b.map = "pending") /\ (a.mp = "granted" => b.mp = "granted")
            \/ a.failed = b.mpId /\ a.map = "failed" /\ a.mp = "failed" /\ p.stage = "map" /\ p.outcome # "ready"
<1>1. CASE p.mode = "validation" BY <1>1 DEF Accept, Backend
<1>2. CASE p.mode # "validation" /\ Permit(b, p.stage) # "granted" BY <1>2 DEF Accept
<1>3. CASE p.mode # "validation" /\ Permit(b, p.stage) = "granted" /\ p.outcome = "ready" /\ p.stage = "files"
  BY <1>3 DEF Accept, Backend
<1>4. CASE p.mode # "validation" /\ Permit(b, p.stage) = "granted" /\ p.outcome = "ready" /\ p.stage = "map"
  BY <1>4 DEF Accept, Backend
<1>5. CASE p.mode # "validation" /\ Permit(b, p.stage) = "granted" /\ p.outcome # "ready" /\ p.stage = "files"
  BY <1>5 DEF Accept, Backend
<1>6. CASE p.mode # "validation" /\ Permit(b, p.stage) = "granted" /\ p.outcome # "ready" /\ p.stage = "map"
  BY <1>6 DEF Accept, Backend
<1> QED BY <1>1, <1>2, <1>3, <1>4, <1>5, <1>6 DEF Checkpoints

LEMMA AcceptKeeps ==
  ASSUME NEW b, NEW r, NEW d, NEW s, NEW l, NEW o \in BOOLEAN, Truth(b, r, d, s, "idle", l, o), r.pend # NoPend
  PROVE  Truth(Accept(b, r.pend), r, d, s, "idle", l, o)
<1> DEFINE a == Accept(b, r.pend)
<1>1. /\ b \in Backend /\ r \in DemoRecord /\ r.pend \in Checkpoints /\ l = None
      /\ DemoTypes(b, r, d, s, "idle", l) /\ Installed(b, r, d, "idle") /\ Saved(b, r, d, s, "idle", l)
      /\ OneAttempt(r, s, "idle", l, o) /\ OverWhenFailed(b, r, s, "idle", l)
  BY DEF Truth, DemoTypes, DemoRecord, OneAttempt
<1>2. /\ a \in Backend /\ a.rev = b.rev /\ a.mpId = b.mpId
      /\ a.files = "ready" => b.files = "ready" \/ (r.pend.stage = "files" /\ r.pend.outcome = "ready")
      /\ a.map = "ready" => b.map = "ready" \/ (r.pend.stage = "map" /\ r.pend.outcome = "ready")
      /\ \/ a.failed = b.failed /\ (a.map = "pending" => b.map = "pending") /\ (a.mp = "granted" => b.mp = "granted")
         \/ a.failed = b.mpId /\ a.map = "failed" /\ a.mp = "failed" /\ r.pend.stage = "map" /\ r.pend.outcome # "ready"
  BY <1>1, Accepted
<1> HIDE DEF a
<1>3. DemoTypes(a, r, d, s, "idle", l) /\ Installed(a, r, d, "idle") /\ Saved(a, r, d, s, "idle", l)
  BY <1>1, <1>2 DEF DemoTypes, Installed, Saved
<1>4. "idle" \notin Attempt BY DEF Attempt
<1>5. OverWhenFailed(a, r, s, "idle", l)
 <2>1. CASE a.failed = b.failed /\ (a.map = "pending" => b.map = "pending") /\ (a.mp = "granted" => b.mp = "granted")
   BY <1>1, <1>2, <2>1 DEF OverWhenFailed
 <2>2. CASE a.failed = b.mpId /\ a.map = "failed" /\ a.mp = "failed" /\ r.pend.stage = "map" /\ r.pend.outcome # "ready"
   BY <1>1, <1>2, <1>4, <2>2 DEF OverWhenFailed
 <2> QED BY <1>2, <2>1, <2>2
<1> QED BY <1>1, <1>3, <1>5 DEF Truth, a

\* An acknowledgement clears the checkpoint it is about.
LEMMA ClearKeeps ==
  ASSUME NEW b, NEW r, NEW d, NEW s, NEW l, NEW o \in BOOLEAN, Truth(b, r, d, s, "idle", l, o), r.pend # NoPend
  PROVE  Truth(b, Cleared(r), d, s, "idle", l, o)
<1> DEFINE q == Cleared(r)
<1>1. /\ r \in DemoRecord /\ l = None
      /\ DemoTypes(b, r, d, s, "idle", l) /\ Installed(b, r, d, "idle") /\ Saved(b, r, d, s, "idle", l)
      /\ OneAttempt(r, s, "idle", l, o) /\ OverWhenFailed(b, r, s, "idle", l) BY DEF Truth, DemoTypes, OneAttempt
<1>2. /\ q \in DemoRecord /\ q.files = r.files /\ q.pend = NoPend /\ q.ret = r.ret /\ q.mRev = r.mRev
  BY <1>1 DEF DemoRecord, Cleared
<1> HIDE DEF q
<1>3. NoPend.stage = None /\ None # "map" /\ None # "files" BY DEF NoPend, None
<1>4. DemoTypes(b, q, d, s, "idle", l) /\ Installed(b, q, d, "idle") /\ Saved(b, q, d, s, "idle", l)
  BY <1>1, <1>2, <1>3 DEF DemoTypes, Installed, Saved
<1>5. OverWhenFailed(b, q, s, "idle", l) BY <1>1, <1>2, <1>3 DEF OverWhenFailed
<1>6. OneAttempt(q, s, "idle", l, o) BY <1>1, <1>2 DEF OneAttempt
<1> QED BY <1>4, <1>5, <1>6 DEF Truth, q

\* A checkpoint is dispatched; the request or its answer may be lost.
LEMMA DispatchKeeps ==
  ASSUME NEW r, NEW d, NEW s, NEW l, NEW o \in BOOLEAN, Truth(be, r, d, s, "idle", l, o), r.pend # NoPend,
         NEW after \in {"off", "boot", "index", "idle"}, NEW failing \in {"off", "boot", "index", "idle"},
         after = "index" \/ failing = "index" => d.members = Members, Dispatch(r, after, failing)
  PROVE  Truth(be', rec', d, s, task', l, o)
<1>1. l = None BY DEF Truth, OneAttempt
<1>2. task' \in {after, failing} BY DEF Dispatch
<1>3. Truth(be', rec', d, s, "idle", l, o)
 <2>1. (be' = Accept(be, r.pend) \/ be' = be) /\ (rec' = r \/ (rec' = Cleared(r) /\ be' = Accept(be, r.pend)))
   BY DEF Dispatch
 <2>2. Truth(Accept(be, r.pend), r, d, s, "idle", l, o) BY AcceptKeeps
 <2>3. Truth(Accept(be, r.pend), Cleared(r), d, s, "idle", l, o) BY <2>2, ClearKeeps
 <2> QED BY <2>1, <2>2, <2>3
<1> QED BY <1>1, <1>2, <1>3, TaskEnds

LEMMA RecordKeeps ==
  ASSUME NEW b, NEW r, NEW q \in DemoRecord, NEW d, NEW s, NEW t, NEW l, NEW o \in BOOLEAN, Truth(b, r, d, s, t, l, o),
         q.files = r.files, q.pend = r.pend, q.mRev = r.mRev, q.ret = r.ret \/ q.ret # "held",
         q.deferred = r.deferred \/ q.deferred # None
  PROVE  Truth(b, q, d, s, t, l, o) BY DEF Truth, DemoTypes, Installed, Saved, OneAttempt, OverWhenFailed

\* The inputs are let go: the record and the hold at once.
LEMMA ReleaseKeeps ==
  ASSUME NEW b, NEW r, NEW d, NEW s, NEW t, NEW l, NEW o \in BOOLEAN, Truth(b, r, d, s, t, l, o)
  PROVE  Truth(b, Released(r), [d EXCEPT !.holds = @ /\ r.ret # "held"], s, t, l, o)
<1> DEFINE e == [d EXCEPT !.holds = @ /\ r.ret # "held"]
           q == Released(r)
<1>1. r \in DemoRecord /\ d \in DemoDisk BY DEF Truth, DemoTypes
<1>2. q \in DemoRecord /\ q.files = r.files /\ q.pend = r.pend /\ q.mRev = r.mRev /\ q.ret # "held" /\ q.deferred = r.deferred
  BY <1>1 DEF Released, DemoRecord
<1>3. e \in DemoDisk /\ e.members = d.members /\ e.map = d.map BY <1>1 DEF DemoDisk
<1> HIDE DEF e, q
<1>4. Truth(b, q, d, s, t, l, o) BY <1>2, RecordKeeps
<1>5. Truth(b, q, e, s, t, l, o) BY <1>2, <1>3, <1>4 DEF Truth, DemoTypes, Installed, Saved
<1> QED BY <1>5 DEF e, q

LEMMA CheckpointKeeps ==
  ASSUME NEW r, NEW d, NEW s, NEW o \in BOOLEAN, Truth(be, r, d, s, "idle", None, o),
         NEW stage \in {"files", "map"}, NEW outcome \in Outcomes, NEW how \in {"publication", "settlement", "validation"},
         NEW after \in {"off", "boot", "index", "idle"}, NEW failing \in {"off", "boot", "index", "idle"},
         after = "index" \/ failing = "index" => d.members = Members,
         stage = "files" /\ outcome = "ready" => d.members = Members,
         stage = "map" /\ outcome = "ready" => s = "committed",
         stage = "map" /\ outcome # "ready" => s \in {None, "failed"},
         Checkpoint(r, stage, outcome, how, after, failing)
  PROVE  Truth(be', rec', d, s, task', None, o)
<1> DEFINE p == [stage |-> stage, outcome |-> outcome, mode |-> how]
           q == [r EXCEPT !.pend = p]
<1>1. /\ r \in DemoRecord /\ DemoTypes(be, r, d, s, "idle", None) /\ Installed(be, r, d, "idle") /\ Saved(be, r, d, s, "idle", None)
      /\ OneAttempt(r, s, "idle", None, o) /\ OverWhenFailed(be, r, s, "idle", None) BY DEF Truth, DemoTypes
<1>2. p \in Checkpoints /\ p # NoPend /\ p.stage = stage /\ p.outcome = outcome BY DEF Checkpoints, NoPend, None
<1>3. Dispatch(q, after, failing) BY DEF Checkpoint
<1> HIDE DEF p
<1>4. /\ q \in DemoRecord /\ q.files = r.files /\ q.pend = p /\ q.ret = r.ret /\ q.mRev = r.mRev /\ q.deferred = r.deferred
  BY <1>1, <1>2 DEF DemoRecord
<1> HIDE DEF q
<1>5. "idle" \notin Attempt /\ "idle" \notin Startup BY DEF Attempt, Startup
<1>6. DemoTypes(be, q, d, s, "idle", None) /\ Installed(be, q, d, "idle") /\ Saved(be, q, d, s, "idle", None)
  BY <1>1, <1>2, <1>4 DEF DemoTypes, Installed, Saved
<1>7. OneAttempt(q, s, "idle", None, o) /\ OverWhenFailed(be, q, s, "idle", None)
  BY <1>1, <1>2, <1>4, <1>5 DEF OneAttempt, OverWhenFailed
<1>8. Truth(be, q, d, s, "idle", None, o) /\ q.pend # NoPend BY <1>2, <1>4, <1>6, <1>7 DEF Truth
<1> QED BY <1>3, <1>8, DispatchKeeps

\* A failure of the attempt: reported when the attempt is abandoned, kept until then.
LEMMA FailureKeeps ==
  ASSUME NEW o \in BOOLEAN, Truth(be, rec, disk, saveOp, task, live, o), task \in {"idle", "inputs", "reporting"},
         NEW outcome \in {"failed", "conflict"}, ReportFailure(outcome)
  PROVE  Truth(be', rec', disk', saveOp, task', live, o)
<1> DEFINE r == [rec EXCEPT !.deferred = outcome]
           q == [r EXCEPT !.outcome = outcome, !.mFail = be.rev]
<1>1. rec \in DemoRecord /\ be \in Backend /\ saveOp \in {None, "failed", "accepted", "doubt", "committed"}
  BY DEF Truth, DemoTypes
<1>2. /\ r \in DemoRecord /\ r.files = rec.files /\ r.pend = rec.pend /\ r.ret = rec.ret /\ r.mRev = rec.mRev
      /\ r.deferred = outcome BY <1>1 DEF DemoRecord
<1>3. /\ Abandonable => disk' = [disk EXCEPT !.holds = @ /\ rec.ret # "held"]
                        /\ Checkpoint(Released(q), "map", outcome, IF DemoExpired THEN "settlement" ELSE "publication", "idle", "idle")
      /\ ~Abandonable => rec' = r /\ task' = "idle" /\ be' = be /\ disk' = disk BY DEF ReportFailure, LetGo
<1> HIDE DEF r
<1>4. q \in DemoRecord /\ q.files = r.files /\ q.pend = r.pend /\ q.ret = r.ret /\ q.mRev = r.mRev /\ q.deferred = outcome
  BY <1>1, <1>2 DEF DemoRecord, Backend, Outcomes
<1> HIDE DEF q
<1>5. outcome # None /\ outcome \in Outcomes /\ outcome # "ready" BY DEF None, Outcomes
<1>6. CASE Abandonable
 <2>1. live = None /\ saveOp \in {None, "failed"} BY <1>1, <1>6 DEF Abandonable, Outstanding
 <2>2. Truth(be, q, disk, saveOp, task, live, o) BY <1>2, <1>4, <1>5, RecordKeeps
 <2>3. Truth(be, q, disk, saveOp, "idle", None, o) BY <2>1, <2>2, TaskEnds
 <2>4. Truth(be, Released(q), disk', saveOp, "idle", None, o) BY <1>2, <1>3, <1>4, <1>6, <2>3, ReleaseKeeps
 <2> DEFINE how == IF DemoExpired THEN "settlement" ELSE "publication"
 <2>5. Checkpoint(Released(q), "map", outcome, how, "idle", "idle") /\ how \in {"publication", "settlement", "validation"}
   BY <1>3, <1>6
 <2> HIDE DEF how
 <2>6. Truth(be', rec', disk', saveOp, task', None, o) BY <1>5, <2>1, <2>4, <2>5, CheckpointKeeps
 <2> QED BY <2>1, <2>6
<1>7. CASE ~Abandonable
 <2>1. Truth(be, r, disk, saveOp, task, live, o) BY <1>2, <1>5, RecordKeeps
 <2>2. "idle" \notin Attempt /\ "idle" \notin Startup BY DEF Attempt, Startup
 <2>3. Truth(be, r, disk, saveOp, "idle", live, o)
   BY <1>2, <1>5, <2>1, <2>2 DEF Truth, DemoTypes, Installed, Saved, OneAttempt, OverWhenFailed
 <2> QED BY <1>3, <1>7, <2>3
<1> QED BY <1>6, <1>7

LEMMA BackendKeeps ==
  ASSUME NEW b, NEW a \in Backend, NEW r, NEW d, NEW s, NEW t, NEW l, NEW o \in BOOLEAN, Truth(b, r, d, s, t, l, o),
         a.files = b.files \/ a.files # "ready", a.map = b.map \/ (a.map # "ready" /\ a.failed # a.rev),
         a.mp = b.mp \/ a.failed # a.rev, a.mpId = b.mpId, a.failed = b.failed, a.rev \in {b.rev, b.rev + 1}
  PROVE  Truth(a, r, d, s, t, l, o)
<1>1. /\ b \in Backend /\ DemoTypes(b, r, d, s, t, l) /\ Installed(b, r, d, t) /\ Saved(b, r, d, s, t, l)
      /\ OneAttempt(r, s, t, l, o) /\ OverWhenFailed(b, r, s, t, l) BY DEF Truth, DemoTypes
<1>2. DemoTypes(a, r, d, s, t, l) /\ Installed(a, r, d, t) /\ Saved(a, r, d, s, t, l)
  BY <1>1 DEF DemoTypes, Installed, Saved
<1>3. b.rev \in Nat /\ b.failed \in Nat /\ b.mpId \in Nat BY <1>1 DEF Backend
<1>4. a.rev > 0 /\ a.mpId <= a.rev /\ a.failed <= a.rev /\ (a.failed = a.rev => a.rev = b.rev)
  BY <1>1, <1>3 DEF OverWhenFailed
<1>5. OverWhenFailed(a, r, s, t, l) BY <1>1, <1>4 DEF OverWhenFailed
<1> QED BY <1>1, <1>2, <1>5 DEF Truth

\* A new attempt has a number of its own.
LEMMA AttemptKeeps ==
  ASSUME NEW b, NEW r, NEW d, NEW s, NEW t, NEW l, NEW o \in BOOLEAN, Truth(b, r, d, s, t, l, o)
  PROVE  Truth(NewAttempt(b), r, d, s, t, l, o)
<1> DEFINE c == Carried(b)
           a == NewAttempt(b)
<1>1. b \in Backend /\ b.failed <= b.rev BY DEF Truth, DemoTypes, OverWhenFailed
<1>2. b.rev \in Nat /\ b.rev + 1 \in Nat /\ b.failed \in Nat BY <1>1 DEF Backend
<1>3. c \in Backend /\ c.files = b.files /\ c.map = b.map /\ c.mpId = b.mpId /\ c.failed = b.failed /\ c.rev = b.rev
  BY <1>1, <1>2 DEF Backend, Carried
<1>4. a = [c EXCEPT !.rev = b.rev + 1, !.over = FALSE, !.fp = IF @ = "completed" THEN @ ELSE None,
                    !.files = IF @ = "failed" THEN "pending" ELSE @, !.map = IF @ = "failed" THEN "pending" ELSE @]
  BY DEF NewAttempt
<1> HIDE DEF a, c
<1>5. /\ a \in Backend /\ a.mpId = b.mpId /\ a.failed = b.failed /\ a.rev = b.rev + 1
      /\ (a.files = b.files \/ a.files # "ready") /\ (a.map = b.map \/ a.map # "ready")
 <2> DEFINE f == IF c.files = "failed" THEN "pending" ELSE c.files
            m == IF c.map = "failed" THEN "pending" ELSE c.map
            p == IF c.fp = "completed" THEN c.fp ELSE None
 <2>1. f \in {"pending", "ready", "failed"} /\ m \in {"pending", "ready", "failed"} /\ p \in {None, "granted", "completed", "failed"}
   BY <1>3 DEF Backend
 <2>2. (f = b.files \/ f # "ready") /\ (m = b.map \/ m # "ready") BY <1>3
 <2>3. a = [c EXCEPT !.rev = b.rev + 1, !.over = FALSE, !.fp = p, !.files = f, !.map = m] BY <1>3, <1>4 DEF Backend
 <2> HIDE DEF f, m, p
 <2> QED BY <1>2, <1>3, <2>1, <2>2, <2>3 DEF Backend
<1>6. a.failed # a.rev BY <1>1, <1>2, <1>5
<1>7. Truth(a, r, d, s, t, l, o) BY <1>5, <1>6, BackendKeeps
<1> QED BY <1>7 DEF a

LEMMA ConvertKeeps ==
  ASSUME NEW b, NEW r, NEW d, NEW s, NEW t, NEW l, NEW o \in BOOLEAN, Truth(b, r, d, s, t, l, o), r.pend # NoPend
  PROVE  Truth(b, Converted(r), d, s, t, l, o) /\ Converted(r).pend # NoPend
<1> DEFINE q == Converted(r)
<1>1. r \in DemoRecord /\ r.pend \in Checkpoints BY DEF Truth, DemoTypes, DemoRecord
<1>2. /\ q \in DemoRecord /\ q.files = r.files /\ q.mRev = r.mRev /\ q.ret = r.ret /\ q.deferred = r.deferred
      /\ q.pend \in Checkpoints /\ q.pend.stage = r.pend.stage /\ q.pend.outcome = r.pend.outcome
  BY <1>1 DEF Converted, DemoRecord, Checkpoints
<1>3. q.pend # NoPend BY <1>2 DEF Checkpoints, NoPend, None
<1> HIDE DEF q
<1>4. Truth(b, q, d, s, t, l, o) BY <1>2, <1>3 DEF Truth, DemoTypes, Installed, Saved, OneAttempt, OverWhenFailed
<1> QED BY <1>3, <1>4 DEF q

LEMMA PublishKeeps ==
  ASSUME NEW b, NEW r, NEW d, NEW s, NEW t, NEW l, NEW o \in BOOLEAN, Truth(b, r, d, s, t, l, o), d.members = Members
  PROVE  Truth(b, Published(r), d, s, t, l, o)
<1> DEFINE q == Published(r)
<1>1. r \in DemoRecord BY DEF Truth, DemoTypes
<1>2. /\ q \in DemoRecord /\ q.mRev = r.mRev /\ q.ret = r.ret /\ q.deferred = r.deferred /\ q.pend = r.pend
  BY <1>1 DEF Published, DemoRecord
<1> HIDE DEF q
<1>3. Truth(b, q, d, s, t, l, o) BY <1>2 DEF Truth, DemoTypes, Installed, Saved, OneAttempt, OverWhenFailed
<1> QED BY <1>3 DEF q

LEMMA LosingKeeps ==
  ASSUME NEW o \in BOOLEAN, Truth(be, rec, disk, saveOp, task, live, o), task \in {"boot", "idle"}, LoseAuthority,
         UNCHANGED <<disk, saveOp, live>>
  PROVE  Truth(be', rec', disk', saveOp', task', live', DemoOpen')
<1>1. task' = "idle" /\ DemoOpen' = FALSE /\ be' = be /\ rec' = rec BY DEF LoseAuthority, DemoOpen
<1>2. task \notin Attempt /\ "idle" \notin Attempt /\ "idle" \notin Startup BY DEF Attempt, Startup
<1>3. Truth(be, rec, disk, saveOp, "idle", live, FALSE)
  BY <1>2 DEF Truth, DemoTypes, Installed, Saved, OneAttempt, OverWhenFailed
<1> QED BY <1>1, <1>3

\* What was published with its receipt is reported ready, anything less failed.
LEMMA SettlingKeeps ==
  ASSUME TruthInv, live = None, task \in {"boot", "index"}, NEW after \in {"off", "index", "idle"},
         after = "index" => rec.files = "published", SettleFiles(after), UNCHANGED <<disk, saveOp, live, admission>>
  PROVE  TruthInv'
<1> DEFINE done == rec.files = "published"
           r == IF done THEN rec ELSE [rec EXCEPT !.fFail = be.rev]
           out == IF done THEN "ready" ELSE "failed"
<1>1. /\ Truth(be, rec, disk, saveOp, task, live, DemoOpen) /\ rec \in DemoRecord /\ be \in Backend
      /\ (done => disk.members = Members) /\ DemoOpen \in BOOLEAN /\ DemoOpen' = DemoOpen
  BY DEF TruthInv, Truth, DemoTypes, Installed, DemoOpen
<1>2. r \in DemoRecord /\ r.files = rec.files /\ r.pend = rec.pend /\ r.mRev = rec.mRev /\ r.ret = rec.ret /\ r.deferred = rec.deferred
  BY <1>1 DEF DemoRecord, Backend
<1>3. Checkpoint(r, "files", out, "settlement", after, "off") /\ out \in Outcomes /\ (out = "ready" => disk.members = Members)
  BY <1>1 DEF SettleFiles, Outcomes
<1> HIDE DEF r, out
<1>4. Truth(be, r, disk, saveOp, "idle", None, DemoOpen) BY <1>1, <1>2, RecordKeeps, TaskEnds
<1>5. Truth(be', rec', disk, saveOp, task', None, DemoOpen) BY <1>1, <1>3, <1>4, CheckpointKeeps
<1> QED BY <1>1, <1>5 DEF TruthInv

LEMMA StartupTruth ==
  ASSUME TruthInv, Boot \/ BootReplay \/ InitFiles \/ PermitFiles \/ Stage \/ Install \/ PublishFiles \/ StartupFails \/ FilesIndexed
  PROVE  TruthInv'
<1>1. /\ Truth(be, rec, disk, saveOp, task, live, DemoOpen) /\ DemoOpen \in BOOLEAN
      /\ be \in Backend /\ rec \in DemoRecord /\ disk \in DemoDisk
      /\ (task \in {"off", "boot", "stage", "install", "index"} => live = None)
  BY DEF TruthInv, Truth, DemoTypes, OneAttempt, DemoOpen, Startup
<1>2. ASSUME live = None, NEW u \in {"off", "boot", "stage", "install", "index", "idle"}, u = "index" => disk.members = Members
      PROVE  Truth(be, rec, disk, saveOp, u, None, DemoOpen) BY <1>1, <1>2, TaskEnds
<1>3. UNCHANGED admission => DemoOpen' = DemoOpen BY DEF DemoOpen
<1>4. CASE Boot
 <2>1. task = "off" /\ task' = "boot" /\ UNCHANGED <<be, rec, disk, saveOp, live, admission>> BY <1>4 DEF Boot
 <2>2. Truth(be, rec, disk, saveOp, "boot", None, DemoOpen) BY <1>1, <1>2, <2>1
 <2> QED BY <1>1, <1>3, <2>1, <2>2 DEF TruthInv
<1>5. CASE BootReplay
 <2>1. /\ task = "boot" /\ rec.pend.stage = "files" /\ Dispatch(Converted(rec), "boot", "off")
       /\ UNCHANGED <<disk, saveOp, live, admission>> BY <1>5 DEF BootReplay, FilesPending
 <2>2. rec.pend # NoPend BY <2>1 DEF NoPend, None
 <2>3. Truth(be, Converted(rec), disk, saveOp, "idle", None, DemoOpen) /\ Converted(rec).pend # NoPend
   BY <1>1, <1>2, <2>1, <2>2, ConvertKeeps
 <2>4. Truth(be', rec', disk, saveOp, task', None, DemoOpen) BY <1>1, <2>1, <2>3, DispatchKeeps
 <2> QED BY <1>1, <1>3, <2>1, <2>4 DEF TruthInv
<1>6. CASE InitFiles
 <2>1. task = "boot" /\ live = None /\ UNCHANGED <<disk, saveOp, live>> BY <1>1, <1>6 DEF InitFiles
 <2>2. CASE be.files = "ready"
  <3>1. rec' = Published(rec) /\ task' = "index" /\ UNCHANGED <<be, admission>> BY <1>6, <2>2 DEF InitFiles
  <3>2. disk.members = Members BY <1>1, <2>2 DEF Truth, Installed
  <3>3. Truth(be, Published(rec), disk, saveOp, "index", None, DemoOpen) BY <1>1, <1>2, <2>1, <3>2, PublishKeeps
  <3> QED BY <1>3, <2>1, <3>1, <3>3 DEF TruthInv
 <2>3. rec.files = "published" => disk.members = Members BY <1>1 DEF Truth, Installed
 <2>4. CASE be.files # "ready" /\ DemoExpired /\ FilesSettled
  <3>1. task' = (IF rec.files = "published" THEN "index" ELSE "off") /\ UNCHANGED <<be, rec, admission>>
    BY <1>6, <2>4 DEF InitFiles
  <3>2. Truth(be, rec, disk, saveOp, task', None, DemoOpen) BY <1>2, <2>1, <2>3, <3>1
  <3> QED BY <1>3, <2>1, <3>1, <3>2 DEF TruthInv
 <2>5. CASE be.files # "ready" /\ DemoExpired /\ ~FilesSettled
  <3>1. SettleFiles(IF rec.files = "published" THEN "index" ELSE "off") /\ UNCHANGED admission
    BY <1>6, <2>5 DEF InitFiles
  <3> QED BY <2>1, <3>1, SettlingKeeps
 <2>6. CASE be.files # "ready" /\ ~DemoExpired
  <3>1. rec.files = "published" /\ task' = "index" /\ UNCHANGED <<be, rec, admission>> BY <1>6, <2>6 DEF InitFiles
  <3>2. Truth(be, rec, disk, saveOp, "index", None, DemoOpen) BY <1>2, <2>1, <2>3, <3>1
  <3> QED BY <1>3, <2>1, <3>1, <3>2 DEF TruthInv
 <2> QED BY <2>2, <2>4, <2>5, <2>6
<1>7. CASE PermitFiles
 <2>1. task = "boot" /\ live = None /\ UNCHANGED <<disk, saveOp, live>> /\ rec.files # "published"
   BY <1>1, <1>7 DEF PermitFiles
 <2>2. CASE LoseAuthority BY <1>1, <2>1, <2>2, LosingKeeps DEF TruthInv
 <2>3. CASE ~LoseAuthority
  <3>1. /\ be' = [be EXCEPT !.fp = "granted"] /\ UNCHANGED admission
        /\ \/ rec' = [rec EXCEPT !.fence = 0, !.pend = IF rec.fence # 0 THEN NoPend ELSE @, !.fRev = be.rev,
                                 !.files = IF @ = None THEN "staging" ELSE @] /\ task' = "stage"
           \/ rec' = rec /\ task' = "off" BY <1>7, <2>3 DEF PermitFiles
  <3>2. /\ be' \in Backend /\ be'.files = be.files /\ be'.map = be.map /\ be'.mp = be.mp /\ be'.mpId = be.mpId
        /\ be'.failed = be.failed /\ be'.rev = be.rev BY <1>1, <3>1 DEF Backend
  <3>3. Truth(be', rec, disk, saveOp, "off", None, DemoOpen) /\ Truth(be', rec, disk, saveOp, "stage", None, DemoOpen)
    BY <1>1, <1>2, <2>1, <3>2, BackendKeeps
  <3>4. CASE rec' = rec /\ task' = "off" BY <1>3, <2>1, <3>1, <3>3, <3>4 DEF TruthInv
  <3>5. CASE /\ rec' = [rec EXCEPT !.fence = 0, !.pend = IF rec.fence # 0 THEN NoPend ELSE @, !.fRev = be.rev,
                                   !.files = IF @ = None THEN "staging" ELSE @]
             /\ task' = "stage"
   <4>1. /\ rec' \in DemoRecord /\ rec'.files # "published" /\ rec'.pend \in {NoPend, rec.pend} /\ rec'.mRev = rec.mRev
         /\ rec'.ret = rec.ret /\ rec'.deferred = rec.deferred
    <5> DEFINE f == IF rec.files = None THEN "staging" ELSE rec.files
               p == IF rec.fence # 0 THEN NoPend ELSE rec.pend
    <5>1. f \in {None, "staging", "publishing", "published"} /\ f # "published" /\ p \in {NoPend, rec.pend}
          /\ p \in {NoPend} \cup Checkpoints /\ be.rev \in Nat BY <1>1, <2>1 DEF DemoRecord, Backend
    <5>2. rec' = [rec EXCEPT !.fence = 0, !.pend = p, !.fRev = be.rev, !.files = f] BY <1>1, <3>5 DEF DemoRecord
    <5> HIDE DEF f, p
    <5> QED BY <1>1, <5>1, <5>2 DEF DemoRecord
   <4>2. NoPend.stage = None /\ None # "map" /\ None # "files" BY DEF NoPend, None
   <4>3. Truth(be', rec', disk, saveOp, "stage", None, DemoOpen)
     BY <3>3, <4>1, <4>2 DEF Truth, DemoTypes, Installed, Saved, OneAttempt, OverWhenFailed
   <4> QED BY <1>3, <2>1, <3>1, <3>5, <4>3 DEF TruthInv
  <3> QED BY <3>1, <3>4, <3>5
 <2> QED BY <2>2, <2>3
<1>8. CASE Stage
 <2>1. task = "stage" /\ live = None /\ rec' = [rec EXCEPT !.files = "publishing"] /\ task' = "install"
       /\ UNCHANGED <<be, disk, saveOp, live, admission>> BY <1>1, <1>8 DEF Stage, StepOf
 <2>2. /\ rec' \in DemoRecord /\ rec'.files = "publishing" /\ rec'.pend = rec.pend /\ rec'.mRev = rec.mRev
       /\ rec'.ret = rec.ret /\ rec'.deferred = rec.deferred BY <1>1, <2>1 DEF DemoRecord
 <2>3. Truth(be, rec, disk, saveOp, "install", None, DemoOpen) BY <1>2, <2>1
 <2>4. Truth(be, rec', disk, saveOp, "install", None, DemoOpen)
   BY <2>2, <2>3 DEF Truth, DemoTypes, Installed, Saved, OneAttempt, OverWhenFailed
 <2> QED BY <1>3, <2>1, <2>4 DEF TruthInv
<1>9. CASE Install
 <2>1. task = "install" /\ disk.members < Members /\ disk' = [disk EXCEPT !.members = @ + 1] /\ task' = task
       /\ UNCHANGED <<be, rec, saveOp, live, admission>> BY <1>9 DEF Install, StepOf
 <2>2. disk.members \in Nat /\ disk.members # Members BY <1>1, <2>1 DEF DemoDisk
 <2>3. disk' \in DemoDisk /\ disk'.map = disk.map /\ disk'.holds = disk.holds BY <1>1, <2>1, <2>2 DEF DemoDisk
 <2>4. Truth(be, rec, disk', saveOp, task, live, DemoOpen) BY <1>1, <2>2, <2>3 DEF Truth, DemoTypes, Installed, Saved
 <2> QED BY <1>3, <2>1, <2>4 DEF TruthInv
<1>10. CASE PublishFiles
 <2>1. /\ task = "install" /\ live = None /\ disk.members = Members /\ rec' = Published(rec) /\ task' = "index"
       /\ UNCHANGED <<be, disk, saveOp, live, admission>> BY <1>1, <1>10 DEF PublishFiles, StepOf
 <2>2. Truth(be, Published(rec), disk, saveOp, "index", None, DemoOpen) BY <1>1, <1>2, <2>1, PublishKeeps
 <2> QED BY <1>3, <2>1, <2>2 DEF TruthInv
<1>11. CASE StartupFails
 <2>1. live = None /\ task' = "off" /\ UNCHANGED <<be, rec, disk, saveOp, live, admission>>
   BY <1>1, <1>11 DEF StartupFails
 <2>2. Truth(be, rec, disk, saveOp, "off", None, DemoOpen) BY <1>2, <2>1
 <2> QED BY <1>3, <2>1, <2>2 DEF TruthInv
<1>12. CASE FilesIndexed
 <2>1. task = "index" /\ live = None /\ UNCHANGED <<disk, saveOp, live, admission>> /\ disk.members = Members
   BY <1>1, <1>12 DEF FilesIndexed, Truth, Installed
 <2>2. CASE be' = be /\ rec' = rec /\ task' \in {"off", "idle"}
  <3>1. Truth(be, rec, disk, saveOp, task', None, DemoOpen) BY <1>2, <2>1, <2>2
  <3> QED BY <1>3, <2>1, <2>2, <3>1 DEF TruthInv
 <2>3. CASE SettleFiles("idle") BY <2>1, <2>3, SettlingKeeps
 <2>4. CASE Checkpoint(rec, "files", "ready", "publication", "idle", "off")
  <3>1. Truth(be, rec, disk, saveOp, "idle", None, DemoOpen) /\ "ready" \in Outcomes BY <1>2, <2>1 DEF Outcomes
  <3>2. Truth(be', rec', disk, saveOp, task', None, DemoOpen) BY <1>1, <2>1, <2>4, <3>1, CheckpointKeeps
  <3> QED BY <1>3, <2>1, <3>2 DEF TruthInv
 <2> QED BY <1>12, <2>2, <2>3, <2>4 DEF FilesIndexed
<1> QED BY <1>4, <1>5, <1>6, <1>7, <1>8, <1>9, <1>10, <1>11, <1>12

LEMMA MapTruth ==
  ASSUME TruthInv, DemoReplay \/ DeferredFailure \/ Overdue \/ Resume \/ PermitMap \/ CaptureInputs \/ RequestEnds
                   \/ HoldInputs \/ DispatchSave \/ StepFails \/ Report
  PROVE  TruthInv'
<1>1. /\ Truth(be, rec, disk, saveOp, task, live, DemoOpen) /\ DemoOpen \in BOOLEAN
      /\ be \in Backend /\ rec \in DemoRecord /\ disk \in DemoDisk
      /\ saveOp \in {None, "failed", "accepted", "doubt", "committed"} /\ live \in {None, "request", "save"}
  BY DEF TruthInv, Truth, DemoTypes, DemoOpen
<1>2. /\ DemoTypes(be, rec, disk, saveOp, task, live) /\ Installed(be, rec, disk, task) /\ Saved(be, rec, disk, saveOp, task, live)
      /\ OneAttempt(rec, saveOp, task, live, DemoOpen) /\ OverWhenFailed(be, rec, saveOp, task, live)
  BY DEF TruthInv, Truth
<1>3. UNCHANGED admission => DemoOpen' = DemoOpen BY DEF DemoOpen
<1>a. /\ Attempt = {"inputs", "capturing", "prepared", "saving", "reporting"} /\ Startup = {"off", "boot", "stage", "install", "index"}
      /\ None = "none" BY DEF Attempt, Startup, None
<1>4. CASE DemoReplay
 <2>1. task = "idle" /\ rec.pend # NoPend /\ UNCHANGED <<disk, saveOp, live>> BY <1>4 DEF DemoReplay
 <2>2. CASE LoseAuthority BY <1>1, <2>1, <2>2, LosingKeeps DEF TruthInv
 <2>3. CASE Dispatch(Converted(rec), "idle", "idle") /\ UNCHANGED admission
  <3>1. Truth(be, Converted(rec), disk, saveOp, "idle", live, DemoOpen) /\ Converted(rec).pend # NoPend
    BY <1>1, <2>1, ConvertKeeps
  <3>2. Truth(be', rec', disk, saveOp, task', live, DemoOpen) BY <1>1, <2>3, <3>1, DispatchKeeps
  <3> QED BY <1>3, <2>1, <2>3, <3>2 DEF TruthInv
 <2> QED BY <1>4, <2>2, <2>3 DEF DemoReplay
\* A failure of the attempt, wherever it is noticed.
<1>b. ASSUME task \in {"idle", "inputs", "reporting"}, NEW out \in {"failed", "conflict"}, ReportFailure(out),
             UNCHANGED <<saveOp, live, admission>>
      PROVE  TruthInv'
 <2>1. Truth(be', rec', disk', saveOp, task', live, DemoOpen) BY <1>1, <1>b, FailureKeeps
 <2> QED BY <1>3, <1>b, <2>1 DEF TruthInv
\* A saved map is reported.
<1>c. ASSUME task \in {"idle", "saving"}, saveOp = "committed", NEW how \in {"publication", "settlement", "validation"},
             Checkpoint([rec EXCEPT !.outcome = "ready"], "map", "ready", how, "idle", "idle"),
             UNCHANGED <<disk, saveOp, live, admission>>
      PROVE  TruthInv'
 <2> DEFINE q == [rec EXCEPT !.outcome = "ready"]
 <2>1. q \in DemoRecord /\ q.files = rec.files /\ q.pend = rec.pend /\ q.ret = rec.ret /\ q.mRev = rec.mRev /\ q.deferred = rec.deferred
   BY <1>1 DEF DemoRecord, Outcomes
 <2>2. Checkpoint(q, "map", "ready", how, "idle", "idle") BY <1>c
 <2> HIDE DEF q
 <2>3. live = None BY <1>2, <1>c, <1>a DEF OneAttempt
 <2>4. Truth(be, q, disk, saveOp, "idle", None, DemoOpen) /\ "ready" \in Outcomes
   BY <1>1, <2>1, <2>3, RecordKeeps, TaskEnds DEF Outcomes
 <2>5. Truth(be', rec', disk, saveOp, task', None, DemoOpen) BY <1>1, <1>c, <2>2, <2>4, CheckpointKeeps
 <2> QED BY <1>3, <1>c, <2>3, <2>5 DEF TruthInv
<1>d. ASSUME task = "idle", LoseAuthority, UNCHANGED <<disk, saveOp, live>> PROVE TruthInv'
  BY <1>1, <1>d, LosingKeeps DEF TruthInv
<1>5. CASE DeferredFailure
 <2>1. task = "idle" /\ rec.deferred \in {"failed", "conflict"} /\ UNCHANGED <<saveOp, live>>
   BY <1>1, <1>5 DEF DeferredFailure, MapTurn, DemoRecord
 <2> QED BY <1>5, <1>b, <1>d, <2>1 DEF DeferredFailure
<1>6. CASE Overdue
 <2>1. task = "idle" /\ UNCHANGED <<saveOp, live>> BY <1>6 DEF Overdue, MapTurn
 <2>2. CASE saveOp = "committed"
  <3>1. UNCHANGED disk /\ (LoseAuthority \/ (Checkpoint([rec EXCEPT !.outcome = "ready"], "map", "ready", "settlement", "idle", "idle")
                                            /\ UNCHANGED admission)) BY <1>6, <2>2 DEF Overdue
  <3> QED BY <1>c, <1>d, <2>1, <2>2, <3>1
 <2>3. CASE saveOp # "committed"
  <3>1. (ReportFailure("failed") /\ UNCHANGED admission) \/ (LoseAuthority /\ UNCHANGED disk)
    BY <1>6, <2>3 DEF Overdue
  <3> QED BY <1>b, <1>d, <2>1, <3>1
 <2> QED BY <2>2, <2>3
<1>7. CASE Resume
 <2>1. task = "idle" /\ saveOp = "committed" /\ UNCHANGED <<disk, saveOp, live>> BY <1>7 DEF Resume, Current, MapTurn
 <2>2. CASE LoseAuthority BY <1>d, <2>1, <2>2
 <2>3. CASE ~LoseAuthority
  <3> DEFINE how == IF be.mp = "completed" THEN "validation" ELSE "publication"
  <3>1. Checkpoint([rec EXCEPT !.outcome = "ready"], "map", "ready", how, "idle", "idle") /\ UNCHANGED admission
    BY <1>7, <2>3 DEF Resume
  <3>2. how \in {"publication", "settlement", "validation"} OBVIOUS
  <3> HIDE DEF how
  <3> QED BY <1>c, <2>1, <3>1, <3>2
 <2> QED BY <2>2, <2>3
\* A permit begins an attempt: nothing of an earlier one is left.
<1>8. CASE PermitMap
 <2>1. /\ task = "idle" /\ DemoOpen /\ rec.pend = NoPend /\ rec.deferred = None /\ saveOp \in {None, "failed"}
       /\ be.map = "pending" /\ UNCHANGED <<disk, live>>
   BY <1>1, <1>8 DEF PermitMap, Unsaved, Refused, Current, MapTurn
 <2>2. live = None BY <1>2, <1>a, <2>1 DEF OneAttempt
 <2>3. CASE LoseAuthority /\ UNCHANGED saveOp BY <1>d, <2>1, <2>3
 <2>4. CASE ~(LoseAuthority /\ UNCHANGED saveOp)
  <3>1. /\ be' = [be EXCEPT !.mp = "granted", !.mpId = be.rev, !.bound = be.rev] /\ UNCHANGED admission
        /\ \/ /\ rec' = [rec EXCEPT !.fence = 0, !.ret = "held", !.retRev = be.rev, !.mRev = be.rev,
                                    !.settled = IF rec.ret = "held" THEN @ ELSE FALSE,
                                    !.outcome = IF rec.ret = "held" THEN @ ELSE None]
              /\ saveOp' = (IF rec.mRev = be.rev THEN saveOp ELSE None) /\ task' = "inputs"
           \/ rec' = rec /\ task' = "idle" /\ UNCHANGED saveOp BY <1>8, <2>4 DEF PermitMap
  <3>2. be.rev \in Nat /\ be.failed \in Nat /\ be.failed < be.rev /\ be.rev > 0
    BY <1>1, <1>2, <2>1 DEF OverWhenFailed, Backend
  <3>3. /\ be' \in Backend /\ be'.files = be.files /\ be'.map = be.map /\ be'.mpId = be.rev
        /\ be'.failed = be.failed /\ be'.rev = be.rev BY <1>1, <3>1, <3>2 DEF Backend
  <3>4. NoPend.stage = None BY DEF NoPend
  <3>5. CASE rec' = rec /\ task' = "idle" /\ UNCHANGED saveOp
   <4>1. Truth(be', rec, disk, saveOp, "idle", None, DemoOpen)
     BY <1>2, <2>1, <2>2, <3>2, <3>3, <3>4 DEF Truth, DemoTypes, Installed, Saved, OneAttempt, OverWhenFailed
   <4> QED BY <1>3, <2>1, <2>2, <3>1, <3>5, <4>1 DEF TruthInv
  <3>6. CASE task' = "inputs"
   <4>1. /\ rec' = [rec EXCEPT !.fence = 0, !.ret = "held", !.retRev = be.rev, !.mRev = be.rev,
                               !.settled = IF rec.ret = "held" THEN @ ELSE FALSE,
                               !.outcome = IF rec.ret = "held" THEN @ ELSE None]
         /\ saveOp' = (IF rec.mRev = be.rev THEN saveOp ELSE None) BY <3>1, <3>6
   <4>2. saveOp' \in {None, "failed"} BY <2>1, <4>1
   <4>3. /\ rec' \in DemoRecord /\ rec'.files = rec.files /\ rec'.pend = NoPend /\ rec'.mRev = be.rev /\ rec'.ret = "held"
         /\ rec'.deferred = rec.deferred
    <5> DEFINE st == IF rec.ret = "held" THEN rec.settled ELSE FALSE
               ot == IF rec.ret = "held" THEN rec.outcome ELSE None
    <5>1. st \in BOOLEAN /\ ot \in {None} \cup Outcomes BY <1>1 DEF DemoRecord
    <5>2. rec' = [rec EXCEPT !.fence = 0, !.ret = "held", !.retRev = be.rev, !.mRev = be.rev, !.settled = st, !.outcome = ot]
      BY <1>1, <4>1 DEF DemoRecord
    <5> HIDE DEF st, ot
    <5> QED BY <1>1, <2>1, <3>2, <5>1, <5>2 DEF DemoRecord
   <4>4. DemoTypes(be', rec', disk, saveOp', "inputs", None) /\ Installed(be', rec', disk, "inputs")
     BY <1>2, <1>a, <2>1, <3>3, <3>4, <4>2, <4>3 DEF DemoTypes, Installed
   <4>5. Saved(be', rec', disk, saveOp', "inputs", None) /\ OneAttempt(rec', saveOp', "inputs", None, DemoOpen)
     BY <1>2, <1>a, <2>1, <3>3, <3>4, <4>2, <4>3 DEF Saved, OneAttempt
   <4>6. OverWhenFailed(be', rec', saveOp', "inputs", None)
     BY <1>2, <1>a, <2>1, <3>2, <3>3, <3>4, <4>2, <4>3 DEF OverWhenFailed
   <4> QED BY <1>3, <2>1, <2>2, <3>1, <3>6, <4>4, <4>5, <4>6 DEF TruthInv, Truth
  <3> QED BY <3>1, <3>5, <3>6
 <2> QED BY <2>3, <2>4
\* Steps of the attempt.
<1>e. ASSUME UNCHANGED <<be, rec, disk, saveOp, admission>>, task \in Attempt, task' \in Attempt, task' # "inputs",
             task' \in {"capturing", "prepared"} => saveOp \in {None, "failed"} /\ live' # "save" /\ (live' = None \/ task' = "capturing"),
             task' = "prepared" \/ live' = "save" => (rec.ret = "held" => disk.holds),
             live' \in {live, None} \/ (live' = "request" /\ saveOp \in {None, "failed"}) \/ (live' = "save" /\ saveOp \in {None, "failed"}),
             live' # None => task' \in {"capturing", "saving", "reporting"}
      PROVE  TruthInv'
 <2>1. task' \in Startup \cup {"idle"} \cup Attempt /\ task' \notin Startup /\ task' # "index" /\ live' \in {None, "request", "save"}
   BY <1>1, <1>a, <1>e
 <2>2. live' # None => saveOp \in {None, "failed", "accepted"} BY <1>2, <1>e DEF OneAttempt
 <2>3. rec.pend = NoPend BY <1>2, <1>e DEF OneAttempt
 <2>4. DemoTypes(be, rec, disk, saveOp, task', live') /\ Installed(be, rec, disk, task') /\ Saved(be, rec, disk, saveOp, task', live')
   BY <1>2, <1>e, <2>1 DEF DemoTypes, Installed, Saved
 <2>5. OneAttempt(rec, saveOp, task', live', DemoOpen) BY <1>e, <2>1, <2>2, <2>3 DEF OneAttempt
 <2>6. OverWhenFailed(be, rec, saveOp, task', live') BY <1>2, <1>e DEF OverWhenFailed
 <2> QED BY <1>3, <1>e, <2>4, <2>5, <2>6 DEF TruthInv, Truth
<1>9. CASE CaptureInputs
 <2>1. task = "inputs" /\ DemoOpen /\ UNCHANGED <<saveOp, admission>> BY <1>9 DEF CaptureInputs
 <2>2. CASE UNCHANGED live /\ (ReportFailure("conflict") \/ ReportFailure(IF DemoExpired THEN "failed" ELSE "conflict"))
   BY <1>b, <2>1, <2>2
 <2>3. CASE task' = "capturing" /\ live' = "request" /\ UNCHANGED <<be, rec, disk>>
  <3>1. saveOp \in {None, "failed"} BY <1>2, <2>1 DEF OneAttempt
  <3> QED BY <1>e, <1>a, <2>1, <2>3, <3>1
 <2> QED BY <1>9, <2>2, <2>3 DEF CaptureInputs
<1>10. CASE RequestEnds
 <2>1. live # None /\ live' = None /\ UNCHANGED <<be, rec, disk, saveOp, task, admission>>
   BY <1>10, <1>a DEF RequestEnds
 <2>2. Truth(be, rec, disk, saveOp, task, None, DemoOpen)
   BY <1>2, <1>a, <2>1 DEF Truth, DemoTypes, Installed, Saved, OneAttempt, OverWhenFailed
 <2> QED BY <1>3, <2>1, <2>2 DEF TruthInv
<1>11. CASE HoldInputs
 <2>1. /\ task = "capturing" /\ live = None /\ disk' = [disk EXCEPT !.holds = TRUE] /\ task' = "prepared"
       /\ UNCHANGED <<be, rec, saveOp, live, admission>> BY <1>11 DEF HoldInputs, StepOf
 <2>2. disk' \in DemoDisk /\ disk'.members = disk.members /\ disk'.map = disk.map /\ disk'.holds = TRUE
   BY <1>1, <2>1 DEF DemoDisk
 <2>3. Truth(be, rec, disk', saveOp, "prepared", None, DemoOpen)
   BY <1>2, <1>a, <2>1, <2>2 DEF Truth, DemoTypes, Installed, Saved, OneAttempt, OverWhenFailed
 <2> QED BY <1>3, <2>1, <2>3 DEF TruthInv
<1>12. CASE DispatchSave
 <2>1. task = "prepared" /\ task' = "saving" /\ live' = "save" /\ UNCHANGED <<be, rec, disk, saveOp, admission>>
   BY <1>12 DEF DispatchSave
 <2>2. saveOp \in {None, "failed"} /\ (rec.ret = "held" => disk.holds) BY <1>2, <2>1 DEF OneAttempt, Saved
 <2> QED BY <1>e, <1>a, <2>1, <2>2
<1>13. CASE StepFails
 <2>1. task \in {"capturing", "prepared", "saving"} /\ task' = "reporting" /\ UNCHANGED <<be, rec, disk, saveOp, live, admission>>
   BY <1>13 DEF StepFails
 <2>2. live' = "save" => (rec.ret = "held" => disk.holds) BY <1>2, <2>1 DEF Saved
 <2> QED BY <1>e, <1>a, <2>1, <2>2
<1>14. CASE Report
 <2>1. task = "reporting" /\ UNCHANGED <<saveOp, live, admission>> BY <1>14 DEF Report
 <2>2. CASE saveOp \notin {None, "failed"}
  <3>1. task' = "idle" /\ UNCHANGED <<be, rec, disk>> BY <1>14, <2>2 DEF Report
  <3>2. Truth(be, rec, disk, saveOp, "idle", live, DemoOpen)
    BY <1>2, <1>a, <2>1, <2>2 DEF Truth, DemoTypes, Installed, Saved, OneAttempt, OverWhenFailed
  <3> QED BY <1>3, <2>1, <3>1, <3>2 DEF TruthInv
 <2>3. CASE saveOp \in {None, "failed"}
  <3>1. ReportFailure("failed") BY <1>14, <2>3 DEF Report
  <3> QED BY <1>b, <2>1, <3>1
 <2> QED BY <2>2, <2>3
<1> QED BY <1>4, <1>5, <1>6, <1>7, <1>8, <1>9, <1>10, <1>11, <1>12, <1>13, <1>14

LEMMA EndTruth ==
  ASSUME DemoInv, TruthInv, SaveClaims \/ SaveEnds \/ SaveReturns \/ Preempted \/ DemoDrain \/ Barrier \/ Stop \/ Deadline \/ Retry
                   \/ Replace \/ UserEdits \/ OperatorRelease \/ UNCHANGED demoVars
  PROVE  TruthInv'
<1>1. /\ Truth(be, rec, disk, saveOp, task, live, DemoOpen) /\ DemoOpen \in BOOLEAN
      /\ be \in Backend /\ rec \in DemoRecord /\ disk \in DemoDisk
      /\ saveOp \in {None, "failed", "accepted", "doubt", "committed"} /\ live \in {None, "request", "save"}
  BY DEF TruthInv, Truth, DemoTypes, DemoOpen
<1>2. /\ DemoTypes(be, rec, disk, saveOp, task, live) /\ Installed(be, rec, disk, task) /\ Saved(be, rec, disk, saveOp, task, live)
      /\ OneAttempt(rec, saveOp, task, live, DemoOpen) /\ OverWhenFailed(be, rec, saveOp, task, live)
  BY DEF TruthInv, Truth
<1>3. UNCHANGED admission => DemoOpen' = DemoOpen BY DEF DemoOpen
<1>a. /\ Attempt = {"inputs", "capturing", "prepared", "saving", "reporting"} /\ Startup = {"off", "boot", "stage", "install", "index"}
      /\ None = "none" BY DEF Attempt, Startup, None
<1>b. \A o \in BOOLEAN : ~o \/ o = DemoOpen => Truth(be, rec, disk, saveOp, task, live, o)
  BY <1>2 DEF Truth, OneAttempt
<1>4. CASE SaveClaims
 <2>1. live = "save" /\ saveOp \in {None, "failed"} /\ saveOp' = "accepted" /\ UNCHANGED <<be, rec, disk, task, live, admission>>
   BY <1>4 DEF SaveClaims
 <2>2. Truth(be, rec, disk, "accepted", task, live, DemoOpen)
   BY <1>2, <1>a, <2>1 DEF Truth, DemoTypes, Installed, Saved, OneAttempt, OverWhenFailed, NoPend
 <2> QED BY <1>3, <2>1, <2>2 DEF TruthInv
<1>5. CASE SaveEnds
 <2>1. live = "save" /\ live' = None /\ UNCHANGED <<be, rec, task, admission>> BY <1>5 DEF SaveEnds
 <2>2. CASE saveOp # "accepted" /\ UNCHANGED <<saveOp, disk>>
  <3>1. Truth(be, rec, disk, saveOp, task, None, DemoOpen)
    BY <1>2, <1>a, <2>1 DEF Truth, DemoTypes, Installed, Saved, OneAttempt, OverWhenFailed
  <3> QED BY <1>3, <2>1, <2>2, <3>1 DEF TruthInv
 <2>3. CASE saveOp = "accepted"
  <3>1. /\ saveOp' \in {"committed", "failed", "doubt"} /\ (saveOp' = "committed" => disk' = [disk EXCEPT !.map = TRUE])
        /\ (saveOp' = "failed" => disk' = disk) /\ (saveOp' = "doubt" => \E m \in BOOLEAN : disk' = [disk EXCEPT !.map = m])
    BY <1>5, <2>3 DEF SaveEnds
  <3>2. /\ disk' \in DemoDisk /\ disk'.members = disk.members /\ disk'.holds = disk.holds
        /\ (saveOp' = "committed" => disk'.map) BY <1>1, <3>1 DEF DemoDisk
  <3>3. Truth(be, rec, disk', saveOp', task, None, DemoOpen)
    BY <1>2, <1>a, <2>1, <2>3, <3>1, <3>2 DEF Truth, DemoTypes, Installed, Saved, OneAttempt, OverWhenFailed
  <3> QED BY <1>3, <2>1, <3>3 DEF TruthInv
 <2> QED BY <1>5, <2>2, <2>3 DEF SaveEnds
<1>6. CASE SaveReturns
 <2>1. task = "saving" /\ live = None /\ UNCHANGED <<disk, saveOp, live, admission>> BY <1>6 DEF SaveReturns
 <2>2. CASE saveOp = "committed" /\ Checkpoint([rec EXCEPT !.outcome = "ready"], "map", "ready", "publication", "idle", "idle")
  <3> DEFINE q == [rec EXCEPT !.outcome = "ready"]
  <3>1. q \in DemoRecord /\ q.files = rec.files /\ q.pend = rec.pend /\ q.ret = rec.ret /\ q.mRev = rec.mRev /\ q.deferred = rec.deferred
    BY <1>1 DEF DemoRecord, Outcomes
  <3>2. Checkpoint(q, "map", "ready", "publication", "idle", "idle") BY <2>2
  <3> HIDE DEF q
  <3>3. Truth(be, q, disk, saveOp, "idle", None, DemoOpen) /\ "ready" \in Outcomes
    BY <1>1, <2>1, <3>1, RecordKeeps, TaskEnds DEF Outcomes
  <3>4. Truth(be', rec', disk, saveOp, task', None, DemoOpen) BY <1>1, <2>2, <3>2, <3>3, CheckpointKeeps
  <3> QED BY <1>3, <2>1, <3>4 DEF TruthInv
 <2>3. CASE task' \in {"reporting", "idle"} /\ UNCHANGED <<be, rec>>
  <3>1. Truth(be, rec, disk, saveOp, task', None, DemoOpen)
    BY <1>2, <1>a, <2>1, <2>3 DEF Truth, DemoTypes, Installed, Saved, OneAttempt, OverWhenFailed
  <3> QED BY <1>3, <2>1, <2>3, <3>1 DEF TruthInv
 <2> QED BY <1>6, <2>2, <2>3 DEF SaveReturns
<1>7. CASE Preempted
 <2>1. /\ ~DemoOpen /\ task' = "idle" /\ UNCHANGED <<be, rec, disk, saveOp, live, admission>> BY <1>7 DEF Preempted
 <2>2. Truth(be, rec, disk, saveOp, "idle", live, DemoOpen)
   BY <1>2, <1>a, <2>1 DEF Truth, DemoTypes, Installed, Saved, OneAttempt, OverWhenFailed
 <2> QED BY <1>3, <2>1, <2>2 DEF TruthInv
<1>8. CASE DemoDrain
 <2>1. admission' = "closed" /\ (rec' = [rec EXCEPT !.fence = owner] \/ rec' = rec) /\ UNCHANGED <<be, disk, saveOp, task, live>>
   BY <1>8 DEF DemoDrain
 <2>2. DemoOpen' = FALSE BY <2>1 DEF DemoOpen
 <2>3. /\ rec' \in DemoRecord /\ rec'.files = rec.files /\ rec'.pend = rec.pend /\ rec'.ret = rec.ret /\ rec'.mRev = rec.mRev
       /\ rec'.deferred = rec.deferred BY <1>1, <2>1 DEF DemoRecord, DemoInv, Fences
 <2>4. Truth(be, rec', disk, saveOp, task, live, FALSE) BY <1>b, <2>3, RecordKeeps
 <2> QED BY <2>1, <2>2, <2>4 DEF TruthInv
<1>9. CASE Barrier
 <2>1. /\ admission' = "acked" /\ rec' = Released(rec) /\ disk' = [disk EXCEPT !.holds = @ /\ rec.ret # "held"]
       /\ UNCHANGED <<be, saveOp, task, live>> BY <1>9 DEF Barrier, LetGo
 <2>2. DemoOpen' = FALSE BY <2>1 DEF DemoOpen
 <2>3. Truth(be, rec', disk', saveOp, task, live, FALSE) BY <1>b, <2>1, ReleaseKeeps
 <2> QED BY <2>1, <2>2, <2>3 DEF TruthInv
\* Nothing is outstanding after a restart; a save that had begun is found done, not done or in doubt.
<1>c. ASSUME NEW b, Truth(b, rec, disk, saveOp, task, live, DemoOpen), NEW s \in {None, "failed", "accepted", "doubt", "committed"},
             s = saveOp \/ saveOp \in {"accepted", "doubt"}, s = "committed" => disk.map \/ s = saveOp, s = "accepted" => s = saveOp
      PROVE  Truth(b, rec, disk, s, "off", None, TRUE)
  BY <1>c, <1>a DEF Truth, DemoTypes, Installed, Saved, OneAttempt, OverWhenFailed
<1>10. CASE Stop
 <2>1. task' = "off" /\ live' = None /\ admission' = "open" /\ UNCHANGED <<be, rec, disk>> BY <1>10 DEF Stop
 <2>2. /\ saveOp \in {"accepted", "doubt"} /\ disk.map => saveOp' \in {"committed", "doubt"}
       /\ saveOp \in {"accepted", "doubt"} /\ ~disk.map => saveOp' \in {"failed", "doubt"}
       /\ saveOp \notin {"accepted", "doubt"} => saveOp' = saveOp BY <1>10 DEF Stop
 <2>3. DemoOpen' = TRUE BY <2>1 DEF DemoOpen
 <2>4. Truth(be, rec, disk, saveOp', "off", None, TRUE) BY <1>1, <1>c, <2>2
 <2> QED BY <2>1, <2>3, <2>4 DEF TruthInv
<1>11. CASE Deadline
 <2>1. be' = [be EXCEPT !.over = TRUE] /\ UNCHANGED <<rec, disk, saveOp, task, live, admission>> BY <1>11 DEF Deadline
 <2>2. /\ be' \in Backend /\ be'.files = be.files /\ be'.map = be.map /\ be'.mp = be.mp /\ be'.mpId = be.mpId
       /\ be'.failed = be.failed /\ be'.rev = be.rev BY <1>1, <2>1 DEF Backend
 <2>3. Truth(be', rec, disk, saveOp, task, live, DemoOpen) BY <1>1, <2>2, BackendKeeps
 <2> QED BY <1>3, <2>1, <2>3 DEF TruthInv
<1>12. CASE Retry
 <2>1. be' = NewAttempt(be) /\ UNCHANGED <<rec, disk, saveOp, task, live, admission>> BY <1>12 DEF Retry
 <2>2. Truth(be', rec, disk, saveOp, task, live, DemoOpen) BY <1>1, <2>1, AttemptKeeps
 <2> QED BY <1>3, <2>1, <2>2 DEF TruthInv
<1>13. CASE Replace
 <2>1. /\ be' = NewAttempt(be) /\ task' = "off" /\ live' = None /\ admission' = "open" /\ UNCHANGED <<rec, disk>>
       /\ saveOp' = (IF saveOp = "accepted" THEN "failed" ELSE saveOp) BY <1>13 DEF Replace
 <2>2. Truth(be', rec, disk, saveOp, task, live, DemoOpen) BY <1>1, <2>1, AttemptKeeps
 <2>3. DemoOpen' = TRUE BY <2>1 DEF DemoOpen
 <2>4. Truth(be', rec, disk, saveOp', "off", None, TRUE) BY <1>1, <1>c, <2>1, <2>2
 <2> QED BY <2>1, <2>3, <2>4 DEF TruthInv
<1>14. CASE UserEdits
 <2>1. disk' = [disk EXCEPT !.edited = TRUE] /\ UNCHANGED <<be, rec, saveOp, task, live, admission>>
   BY <1>14 DEF UserEdits
 <2>2. disk' \in DemoDisk /\ disk'.members = disk.members /\ disk'.map = disk.map /\ disk'.holds = disk.holds
   BY <1>1, <2>1 DEF DemoDisk
 <2>3. Truth(be, rec, disk', saveOp, task, live, DemoOpen) BY <1>2, <2>2 DEF Truth, DemoTypes, Installed, Saved
 <2> QED BY <1>3, <2>1, <2>3 DEF TruthInv
<1>15. CASE OperatorRelease
 <2>1. /\ rec' = Released(rec) /\ disk' = [disk EXCEPT !.holds = @ /\ rec.ret # "held"]
       /\ UNCHANGED <<be, saveOp, task, live, admission>> BY <1>15 DEF OperatorRelease, LetGo
 <2>2. Truth(be, rec', disk', saveOp, task, live, DemoOpen) BY <1>1, <2>1, ReleaseKeeps
 <2> QED BY <1>3, <2>1, <2>2 DEF TruthInv
<1>16. CASE UNCHANGED demoVars BY <1>1, <1>3, <1>16 DEF demoVars, TruthInv
<1> QED BY <1>4, <1>5, <1>6, <1>7, <1>8, <1>9, <1>10, <1>11, <1>12, <1>13, <1>14, <1>15, <1>16

\* What the backend is told of the demo (owned-demo.js runMap and the
\* checkpoints it retains) is true and stays true: files reported ready are
\* all installed, a map reported ready is saved and its inputs are held
\* until they are released on purpose, and of an attempt reported failed
\* nothing is outstanding and no map exists.
THEOREM ReportsAreTruthful == DemoSpec => []DemoTruthful
<1>1. DemoInit => TruthInv
 <2> SUFFICES ASSUME DemoInit PROVE TruthInv OBVIOUS
 <2>1. /\ None = "none" /\ NoPend = [stage |-> None, outcome |-> None, mode |-> None]
       /\ Attempt = {"inputs", "capturing", "prepared", "saving", "reporting"} /\ Startup = {"off", "boot", "stage", "install", "index"}
   BY DEF None, NoPend, Attempt, Startup
 <2>2. be \in Backend /\ be.files = "pending" /\ be.map = "pending" /\ be.rev = 1 /\ be.mpId = 0 /\ be.failed = 0
   BY DEF DemoInit, Backend
 <2>3. rec \in DemoRecord /\ rec.files = None /\ rec.pend = NoPend /\ rec.ret = None BY DEF DemoInit, DemoRecord
 <2>4. disk \in DemoDisk /\ saveOp = None /\ task = "off" /\ live = None BY DEF DemoInit, DemoDisk
 <2>5. DemoTypes(be, rec, disk, saveOp, task, live) /\ Installed(be, rec, disk, task)
   BY <2>1, <2>2, <2>3, <2>4 DEF DemoTypes, Installed
 <2>6. Saved(be, rec, disk, saveOp, task, live) BY <2>1, <2>2, <2>3, <2>4 DEF Saved
 <2>7. OneAttempt(rec, saveOp, task, live, DemoOpen) /\ OverWhenFailed(be, rec, saveOp, task, live)
   BY <2>1, <2>2, <2>3, <2>4 DEF OneAttempt, OverWhenFailed
 <2> QED BY <2>5, <2>6, <2>7 DEF TruthInv, Truth
<1>0. DemoInit => DemoInv BY DemoStarts
<1>2. DemoInv /\ TruthInv /\ [DemoNext]_demoVars => DemoInv' /\ TruthInv'
  BY HeldStep, StartupTruth, MapTruth, EndTruth DEF DemoNext, Held
<1>3. TruthInv => DemoTruthful BY DEF TruthInv, Truth, Installed, Saved, OverWhenFailed, DemoTruthful
<1> QED BY <1>0, <1>1, <1>2, <1>3, PTL DEF DemoSpec

--------------------
\* RootActivity: the backend is never told that a machine is idle whose
\* activity nobody could read.

States == {"nothing", "idle", "prompt_running", "permission_pending"}
ActivityReport == [state : States, agent : Nat, known : BOOLEAN, truth : BOOLEAN]
Works == {"idle", "working", "capped"}
PollType == [st : {"none", "gateway", "files", "decide", "post"}, gw : ActivityReport,
             fs : Works \cup {"none", "unknown"}, out : ActivityReport]

ActivityTypes ==
    /\ gateway \in States /\ finished \in Nat /\ filesWork \in Works
    /\ reports \in Seq(ActivityReport)
    /\ unknownFor \in [Sources -> {"no", "since", "capped"}]
    /\ poll \in PollType
    /\ agent \in ActivityReport /\ backend \in ActivityReport

\* What a poll could not read has an outage on record, which keeps the machine
\* working or, past its cap, keeps the poll from reporting.
OutagesRecorded ==
    /\ poll.st \in {"files", "decide"} /\ ~poll.gw.known => unknownFor["gateway"] # "no"
    /\ poll.st = "decide" /\ poll.fs = "unknown" => unknownFor["files"] # "no"

\* Whatever is on its way to the backend is true when it says "idle".
ReportsTrue ==
    /\ \A i \in DOMAIN reports : reports[i].truth
    /\ poll.st = "post" /\ poll.out.state = "idle" => poll.out.truth

ActivityInv == ActivityTypes /\ OutagesRecorded /\ ReportsTrue /\ IdleIsKnown

USE DEF Sources, States, Works

LEMMA NoPollType == Nothing \in ActivityReport /\ NoPoll \in PollType BY DEF Nothing, NoPoll, PollType, ActivityReport

\* A direct report is the state of its moment.
LEMMA SendStep ==
  ASSUME ActivityTypes, ReportsTrue, NEW s \in States, NEW n \in Nat, Send(s, n)
  PROVE  reports' \in Seq(ActivityReport) /\ \A i \in DOMAIN reports' : reports'[i].truth
<1> DEFINE r == [Snapshot EXCEPT !.state = s, !.agent = n]
<1>1. r \in ActivityReport /\ r.truth BY DEF ActivityTypes, Snapshot, ActivityReport
<1>2. CASE reports' = reports BY <1>2 DEF ActivityTypes, ReportsTrue
<1>3. CASE reports' = Append(reports, r)
 <2> HIDE DEF r
 <2>1. reports \in Seq(ActivityReport) BY DEF ActivityTypes
 <2>2. reports' \in Seq(ActivityReport) BY <1>1, <1>3, <2>1
 <2>3. ASSUME NEW i \in DOMAIN reports' PROVE reports'[i].truth BY <1>1, <1>3, <2>1, <2>3 DEF ReportsTrue
 <2> QED BY <2>2, <2>3
<1> QED BY <1>2, <1>3 DEF Send

LEMMA ActivityStep == ActivityInv /\ [ActivityNext]_rootVars => ActivityInv'
<1> SUFFICES ASSUME ActivityInv, [ActivityNext]_rootVars PROVE ActivityInv' OBVIOUS
<1>0. ActivityTypes /\ OutagesRecorded /\ ReportsTrue /\ IdleIsKnown BY DEF ActivityInv
<1> USE DEF ActivityInv
<1>1. CASE GatewayChanges
 <2>1. PICK s \in {"idle", "prompt_running", "permission_pending"} \ {gateway},
            n \in {0, 1} :
         gateway' = s /\ finished' = finished + n /\ Send(s, finished + n) BY <1>1 DEF GatewayChanges
 <2>2. UNCHANGED <<agent, filesWork, poll, unknownFor, backend>> BY <1>1 DEF GatewayChanges
 <2>3. n \in Nat /\ finished + n \in Nat BY <1>0, <2>1 DEF ActivityTypes
 <2>4. reports' \in Seq(ActivityReport) /\ \A i \in DOMAIN reports' : reports'[i].truth BY <1>0, <2>1, <2>3, SendStep
 <2>5. ActivityTypes' BY <1>0, <2>1, <2>2, <2>3, <2>4 DEF ActivityTypes
 <2> QED BY <1>0, <2>2, <2>4, <2>5 DEF OutagesRecorded, ReportsTrue, IdleIsKnown
<1>2. CASE KeepAlive
 <2>1. UNCHANGED <<agent, gateway, finished, filesWork, poll, unknownFor, backend>> /\ Send(gateway, finished)
   BY <1>2 DEF KeepAlive
 <2>2. reports' \in Seq(ActivityReport) /\ \A i \in DOMAIN reports' : reports'[i].truth
   BY <1>0, <2>1, SendStep DEF ActivityTypes
 <2>3. ActivityTypes' BY <1>0, <2>1, <2>2 DEF ActivityTypes
 <2> QED BY <1>0, <2>1, <2>2, <2>3 DEF OutagesRecorded, ReportsTrue, IdleIsKnown
<1>3. CASE Post
 <2>1. reports # <<>> /\ reports' = Tail(reports) /\ backend' \in {Head(reports), backend}
       /\ UNCHANGED <<agent, gateway, finished, filesWork, poll, unknownFor>> BY <1>3 DEF Post
 <2>2. reports \in Seq(ActivityReport) /\ \A i \in DOMAIN reports : reports[i].truth
   BY <1>0 DEF ActivityTypes, ReportsTrue
 <2>3. /\ Tail(reports) \in Seq(ActivityReport)
       /\ 1 \in DOMAIN reports /\ Head(reports) = reports[1] /\ reports[1] \in ActivityReport BY <2>1, <2>2
 <2>4. \A i \in DOMAIN Tail(reports) : Tail(reports)[i].truth BY <2>1, <2>2
 <2>5. ActivityTypes' BY <1>0, <2>1, <2>3 DEF ActivityTypes
 <2>6. IdleIsKnown' BY <1>0, <2>1, <2>2, <2>3 DEF IdleIsKnown
 <2> QED BY <1>0, <2>1, <2>4, <2>5, <2>6 DEF OutagesRecorded, ReportsTrue
\* Steps that touch none of what the invariant is about but the files' work.
<1>4. ASSUME UNCHANGED <<gateway, finished, reports, unknownFor, poll, agent, backend>>, filesWork' \in Works
      PROVE  ActivityInv'
 <2>1. ActivityTypes' BY <1>0, <1>4 DEF ActivityTypes
 <2> QED BY <1>0, <1>4, <2>1 DEF OutagesRecorded, ReportsTrue, IdleIsKnown
<1>5. CASE FilesChange BY <1>4, <1>5 DEF FilesChange
<1>6. CASE SourceChanges \/ AskStorage \/ UNCHANGED rootVars
 <2>1. UNCHANGED <<gateway, finished, reports, unknownFor, poll, agent, backend, filesWork>>
   BY <1>6 DEF SourceChanges, AskStorage, rootVars
 <2> QED BY <1>0, <1>4, <2>1 DEF ActivityTypes
<1>7. ASSUME NEW s \in Sources, OutageCapped(s) PROVE ActivityInv'
 <2>1. unknownFor' = [unknownFor EXCEPT ![s] = "capped"]
       /\ UNCHANGED <<gateway, finished, filesWork, reports, agent, poll, backend>> BY <1>7 DEF OutageCapped
 <2>2. ActivityTypes' BY <1>0, <2>1 DEF ActivityTypes
 <2>3. OutagesRecorded' BY <1>0, <2>1 DEF OutagesRecorded, ActivityTypes
 <2> QED BY <1>0, <2>1, <2>2, <2>3 DEF ReportsTrue, IdleIsKnown
<1>8. CASE StartPoll
 <2>1. poll' = [NoPoll EXCEPT !.st = "gateway"]
       /\ UNCHANGED <<gateway, finished, filesWork, reports, agent, unknownFor, backend>> BY <1>8 DEF StartPoll
 <2>2. poll' \in PollType /\ poll'.st = "gateway" BY <2>1, NoPollType DEF PollType
 <2>3. ActivityTypes' BY <1>0, <2>1, <2>2 DEF ActivityTypes
 <2> QED BY <1>0, <2>1, <2>2, <2>3 DEF OutagesRecorded, ReportsTrue, IdleIsKnown
\* An unreadable source starts or continues its outage.
<1>9. ASSUME NEW s \in Sources
      PROVE  /\ Outage(s) \in {"no", "since", "capped"}
             /\ s \notin readable => Outage(s) # "no" BY <1>0 DEF Outage, ActivityTypes
<1>10. CASE ReadGateway
 <2> DEFINE gw == IF "gateway" \in readable THEN Snapshot ELSE [Nothing EXCEPT !.known = FALSE]
 <2>1. /\ unknownFor' = [unknownFor EXCEPT !["gateway"] = Outage("gateway")]
       /\ poll' = [poll EXCEPT !.st = "files", !.gw = gw]
       /\ UNCHANGED <<gateway, finished, filesWork, reports, agent, backend>> BY <1>10 DEF ReadGateway
 <2>2. gw \in ActivityReport /\ ("gateway" \in readable => gw.known)
   BY <1>0 DEF ActivityTypes, Snapshot, Nothing, ActivityReport
 <2> HIDE DEF gw
 <2>3. poll' \in PollType /\ poll'.st = "files" /\ poll'.gw = gw /\ poll'.out = poll.out
   BY <1>0, <2>1, <2>2 DEF ActivityTypes, PollType
 <2>4. /\ unknownFor' \in [Sources -> {"no", "since", "capped"}]
       /\ unknownFor'["gateway"] = Outage("gateway") BY <1>0, <1>9, <2>1 DEF ActivityTypes
 <2>7. ActivityTypes' BY <1>0, <2>1, <2>3, <2>4 DEF ActivityTypes
 <2>5. OutagesRecorded' BY <1>9, <2>2, <2>3, <2>4 DEF OutagesRecorded
 <2> QED BY <1>0, <2>1, <2>3, <2>5, <2>7 DEF ReportsTrue, IdleIsKnown
<1>11. CASE ReadFiles
 <2> DEFINE fs == IF "files" \in readable THEN filesWork ELSE "unknown"
 <2>1. /\ poll.st = "files"
       /\ unknownFor' = [unknownFor EXCEPT !["files"] = Outage("files")]
       /\ poll' = [poll EXCEPT !.st = "decide", !.fs = fs]
       /\ UNCHANGED <<gateway, finished, filesWork, reports, agent, backend>> BY <1>11 DEF ReadFiles
 <2>2. fs \in Works \cup {"unknown"} /\ ("files" \in readable => fs # "unknown") BY <1>0 DEF ActivityTypes
 <2> HIDE DEF fs
 <2>3. poll' \in PollType /\ poll'.st = "decide" /\ poll'.gw = poll.gw /\ poll'.fs = fs
   BY <1>0, <2>1, <2>2 DEF ActivityTypes, PollType
 <2>4. /\ unknownFor' \in [Sources -> {"no", "since", "capped"}]
       /\ unknownFor'["files"] = Outage("files") /\ unknownFor'["gateway"] = unknownFor["gateway"]
   BY <1>0, <1>9, <2>1 DEF ActivityTypes
 <2>5. OutagesRecorded' BY <1>0, <1>9, <2>1, <2>2, <2>3, <2>4 DEF OutagesRecorded
 <2>7. ActivityTypes' BY <1>0, <2>1, <2>3, <2>4 DEF ActivityTypes
 <2> QED BY <1>0, <2>1, <2>3, <2>5, <2>7 DEF ReportsTrue, IdleIsKnown
\* An idle is posted only when no outage is on record: both sources were read.
<1>12. CASE Decide
 <2> DEFINE truth == poll.gw.known /\ poll.fs # "unknown"
            out == [state |-> Aggregate, agent |-> AgentOf.agent, known |-> TRUE, truth |-> truth]
 <2>1. /\ poll.st = "decide" /\ agent' = AgentOf
       /\ UNCHANGED <<gateway, finished, filesWork, reports, unknownFor, backend>> BY <1>12 DEF Decide
 <2>2. AgentOf \in ActivityReport /\ AgentOf.agent \in Nat
   BY <1>0 DEF AgentOf, ActivityTypes, PollType, ActivityReport
 <2>3. \/ poll' = NoPoll
       \/ ~(ExpiredUnknown /\ Aggregate = "idle") /\ poll' = [poll EXCEPT !.st = "post", !.out = out]
   BY <1>12 DEF Decide
 <2>4. Aggregate \in States /\ truth \in BOOLEAN BY <1>0 DEF Aggregate, ActivityTypes, PollType, ActivityReport
 <2>5. out \in ActivityReport BY <2>2, <2>4 DEF ActivityReport
 <2>11. [poll EXCEPT !.st = "post", !.out = out] \in PollType
  <3> HIDE DEF out
  <3> QED BY <1>0, <2>5 DEF ActivityTypes, PollType
 <2>6. ActivityTypes'
  <3> HIDE DEF out
  <3>1. poll' \in PollType BY <2>3, <2>11, NoPollType
  <3> QED BY <1>0, <2>1, <2>2, <3>1 DEF ActivityTypes
 <2>7. ASSUME ~ExpiredUnknown, Aggregate = "idle" PROVE truth
  <3>1. \A s \in Sources : unknownFor[s] # "capped" BY <2>7 DEF ExpiredUnknown
  <3>2. ~Working BY <2>7 DEF Aggregate
  <3>3. \A s \in Sources : unknownFor[s] # "since" BY <3>2 DEF Working
  <3>4. unknownFor["gateway"] = "no" /\ unknownFor["files"] = "no" BY <1>0, <3>1, <3>3 DEF ActivityTypes
  <3> QED BY <1>0, <2>1, <3>4 DEF OutagesRecorded
 <2>8. CASE poll' = NoPoll BY <1>0, <2>1, <2>6, <2>8 DEF OutagesRecorded, ReportsTrue, IdleIsKnown, NoPoll
 <2>9. CASE ~(ExpiredUnknown /\ Aggregate = "idle") /\ poll' = [poll EXCEPT !.st = "post", !.out = out]
  <3>1. poll'.st = "post" /\ poll'.out = out BY <1>0, <2>9 DEF ActivityTypes, PollType
  <3>2. out.state = "idle" => out.truth BY <2>7, <2>9
  <3> HIDE DEF out
  <3> QED BY <1>0, <2>1, <2>6, <3>1, <3>2 DEF OutagesRecorded, ReportsTrue, IdleIsKnown
 <2> QED BY <2>3, <2>8, <2>9
<1>13. CASE PostAggregate
 <2>1. /\ poll.st = "post" /\ poll' = NoPoll /\ backend' \in {backend, poll.out}
       /\ UNCHANGED <<gateway, finished, filesWork, reports, agent, unknownFor>> BY <1>13 DEF PostAggregate
 <2>5. poll' \in PollType /\ backend' \in ActivityReport BY <1>0, <2>1, NoPollType DEF ActivityTypes, PollType
 <2>2. ActivityTypes' BY <1>0, <2>1, <2>5 DEF ActivityTypes
 <2>3. IdleIsKnown' BY <1>0, <2>1 DEF IdleIsKnown, ReportsTrue
 <2> QED BY <1>0, <2>1, <2>2, <2>3 DEF OutagesRecorded, ReportsTrue, NoPoll
<1> QED BY <1>1, <1>2, <1>3, <1>5, <1>6, <1>7, <1>8, <1>10, <1>11, <1>12, <1>13 DEF ActivityNext

\* The machine is called idle only on the word of both sources (aggregateActivity, poll):
\* an outage of either, however long, is never reported as an idle machine.
THEOREM IdleIsNeverGuessed == ActivitySpec => []IdleIsKnown
<1>1. ActivityInit => ActivityInv
 <2> SUFFICES ASSUME ActivityInit PROVE ActivityInv OBVIOUS
 <2>1. Snapshot \in ActivityReport BY DEF ActivityInit, Snapshot, ActivityReport
 <2>2. gateway \in States /\ finished \in Nat /\ filesWork \in Works /\ reports \in Seq(ActivityReport)
   BY DEF ActivityInit
 <2>3. unknownFor \in [Sources -> {"no", "since", "capped"}] BY DEF ActivityInit
 <2>4. poll \in PollType /\ agent \in ActivityReport /\ backend \in ActivityReport
   BY <2>1, NoPollType DEF ActivityInit
 <2>5. ActivityTypes BY <2>2, <2>3, <2>4 DEF ActivityTypes
 <2>6. OutagesRecorded BY DEF ActivityInit, OutagesRecorded, NoPoll, Nothing
 <2>7. ReportsTrue BY DEF ActivityInit, ReportsTrue, NoPoll, Nothing
 <2>8. IdleIsKnown BY DEF ActivityInit, IdleIsKnown, Nothing
 <2> QED BY <2>5, <2>6, <2>7, <2>8 DEF ActivityInv
<1>2. ActivityInv /\ [ActivityNext]_rootVars => ActivityInv' BY ActivityStep
<1>3. ActivityInv => IdleIsKnown BY DEF ActivityInv
<1> QED BY <1>1, <1>2, <1>3, PTL DEF ActivitySpec

--------------------
\* AgentDrain: permits are neither lost nor left idle, and an ordinary
\* stop finishes what it admitted.

RunStates == {"off", "computing", "waiting", "ready", "granted", "writing"}
CallStates == {"idle", "reading", "read", "active", "writing", "done", "refused", "cut"}

DrainTypes ==
    /\ agentCall \in [AgentCalls -> CallStates] /\ run \in [Runs -> RunStates]
    /\ permitLine \in Seq(Runs) /\ used \in Nat /\ used <= Slots
    /\ admitting \in BOOLEAN /\ draining \in BOOLEAN /\ shut \in BOOLEAN /\ deleting \in BOOLEAN
    /\ drain \in {"none", "agents", "work", "done", "failed"}

\* Each run stands in line once, and only those that have not got a permit.
InLine(q, st) ==
    /\ \A i, j \in 1 .. Len(q) : q[i] = q[j] => i = j
    /\ \A i \in 1 .. Len(q) : st[q[i]] \in {"waiting", "ready"}

Writers == {c \in AgentCalls : agentCall[c] = "writing"}
RunsHolding(st) == {r \in Runs : st[r] \in {"granted", "writing"}}

Permits(st, w, n) == IsFiniteSet(RunsHolding(st) \cup w) /\ Cardinality(RunsHolding(st) \cup w) = n

NoIdlePermit == permitLine # <<>> /\ used < Slots => run[Head(permitLine)] # "ready"

\* How far a stop has come: an ordinary one stops the workspace only when no
\* admitted request is left, and what has drained stays empty.
StopStages ==
    /\ drain = "none" => ~shut /\ (draining => deleting)
    /\ drain # "none" => ~admitting
    /\ drain \in {"work", "done"} => draining
    /\ draining /\ ~deleting => ActiveCalls = {}
    /\ drain = "done" => \A r \in Runs : run[r] = "off"
    /\ shut => drain = "done"

CutByDeletion == \A c \in AgentCalls : agentCall[c] = "cut" => deleting

DrainInv == /\ DrainTypes /\ InLine(permitLine, run) /\ Permits(run, Writers, used) /\ NoIdlePermit
            /\ StopStages /\ CutByDeletion

\* #pump grants a prefix of the line: as many as there are permits and entries told.
LEMMA GrantedIs ==
  ASSUME NEW q \in Seq(Runs), NEW st, NEW n \in Nat, n <= Slots
  PROVE  LET k == Granted(q, st, n) IN
         /\ k \in 0 .. Len(q) /\ n + k <= Slots /\ \A i \in 1 .. k : st[q[i]] = "ready"
         /\ k = Len(q) \/ n + k = Slots \/ st[q[k + 1]] # "ready"
<1> DEFINE halts(k) == k = Len(q) \/ n + k = Slots \/ st[q[k + 1]] # "ready"
           T == {k \in 0 .. Len(q) : halts(k)}
<1>1. Len(q) \in Nat /\ Slots \in Nat BY LenProperties, DrainAssumption
<1>2. T \in SUBSET Nat /\ T # {}
 <2>1. Len(q) \in T BY <1>1
 <2> QED BY <2>1
<1>3. PICK k \in T : \A j \in T : k <= j
 <2> HIDE DEF T
 <2> QED BY <1>2, SmallestExists
<1>4. k \in 0 .. Len(q) /\ halts(k) /\ \A j \in 0 .. Len(q) : j < k => ~halts(j)
 <2>1. k \in 0 .. Len(q) /\ halts(k) BY <1>3
 <2>2. ASSUME NEW j \in 0 .. Len(q), j < k PROVE ~halts(j)
  <3>1. ~(k <= j) BY <2>1, <2>2, <1>1
  <3> QED BY <1>3, <3>1
 <2> QED BY <2>1, <2>2
<1>5. n + k <= Slots
 <2> SUFFICES ASSUME n + k > Slots PROVE FALSE BY <1>1, <1>4
 <2>1. Slots - n \in 0 .. Len(q) /\ Slots - n < k /\ n + (Slots - n) = Slots BY <1>1, <1>4
 <2>2. halts(Slots - n) BY <2>1
 <2> QED BY <1>4, <2>1, <2>2
<1>6. ASSUME NEW i \in 1 .. k PROVE st[q[i]] = "ready"
 <2>1. i - 1 \in 0 .. Len(q) /\ i - 1 < k /\ i - 1 + 1 = i BY <1>1, <1>4
 <2>2. ~halts(i - 1) BY <1>4, <2>1
 <2>3. st[q[i - 1 + 1]] = "ready" BY <2>2
 <2> QED BY <2>1, <2>3
<1>7. \E m \in 0 .. Len(q) :
        /\ n + m <= Slots /\ \A i \in 1 .. m : st[q[i]] = "ready"
        /\ m = Len(q) \/ n + m = Slots \/ st[q[m + 1]] # "ready" BY <1>4, <1>5, <1>6
<1> QED BY <1>7 DEF Granted

\* The line without its first k entries.
LEMMA RestOfLine ==
  ASSUME NEW q \in Seq(Runs), NEW k \in 0 .. Len(q)
  PROVE  LET p == SubSeq(q, k + 1, Len(q)) IN
         /\ p \in Seq(Runs) /\ Len(p) = Len(q) - k
         /\ \A i \in 1 .. (Len(q) - k) : p[i] = q[i + k] /\ i + k \in 1 .. Len(q) /\ i + k > k
<1> DEFINE m == Len(q)
           p == SubSeq(q, k + 1, m)
<1>1. m \in Nat /\ \A i \in 1 .. m : q[i] \in Runs BY LenProperties, ElementOfSeq
<1>2. k \in 0 .. m /\ p = SubSeq(q, k + 1, m) OBVIOUS
<1>3. p = SubSeq(q, k + 1, m) => LET j == k + 1 IN
        j \in Int /\ (\A i \in j .. m : q[i] \in Runs) /\ j <= m + 1 =>
          /\ p \in Seq(Runs) /\ Len(p) = IF j <= m THEN m - j + 1 ELSE 0
          /\ \A i \in 1 .. (m - j + 1) : p[i] = q[j + i - 1] BY <1>1, SubSeqProperties
<1> HIDE DEF m, p
<1>4. k + 1 \in Int /\ k + 1 <= m + 1 /\ \A i \in (k + 1) .. m : q[i] \in Runs BY <1>1, <1>2
<1>5. /\ m - (k + 1) + 1 = m - k /\ (~(k + 1 <= m) => m - k = 0)
      /\ \A i \in 1 .. (m - k) : k + 1 + i - 1 = i + k /\ i + k \in 1 .. m /\ i + k > k BY <1>1, <1>2
<1>6. /\ p \in Seq(Runs) /\ Len(p) = m - k
      /\ \A i \in 1 .. (m - k) : p[i] = q[i + k] /\ i + k \in 1 .. m /\ i + k > k BY <1>2, <1>3, <1>4, <1>5
<1> QED BY <1>6 DEF m, p

\* #pump: whoever leaves the line has a permit, which is taken from those left.
LEMMA PumpKeeps ==
  ASSUME NEW q \in Seq(Runs), NEW st \in [Runs -> RunStates], NEW n \in Nat, n <= Slots, NEW w \in SUBSET AgentCalls,
         InLine(q, st), Permits(st, w, n), shut => q = <<>>, Pump(q, st, n)
  PROVE  /\ permitLine' \in Seq(Runs) /\ run' \in [Runs -> RunStates] /\ used' \in Nat /\ used' <= Slots
         /\ InLine(permitLine', run') /\ Permits(run', w, used')
         /\ permitLine' # <<>> /\ used' < Slots => run'[Head(permitLine')] # "ready"
         /\ \A r \in Runs : st[r] = "off" => run'[r] = "off"
<1> DEFINE k == IF shut THEN 0 ELSE Granted(q, st, n)
           m == Len(q)
<1>1. m \in Nat /\ Slots \in Nat /\ \A i \in 1 .. m : q[i] \in Runs BY LenProperties, ElementOfSeq, DrainAssumption
<1>2. /\ k \in 0 .. m /\ n + k <= Slots /\ \A i \in 1 .. k : st[q[i]] = "ready"
      /\ k = m \/ n + k = Slots \/ st[q[k + 1]] # "ready"
 <2>1. CASE shut
  <3>1. m = 0 BY <2>1, EmptySeq
  <3>2. k = 0 BY <2>1
  <3> HIDE DEF k, m
  <3> QED BY <1>1, <3>1, <3>2
 <2>2. CASE ~shut BY <2>2, GrantedIs
 <2> QED BY <2>1, <2>2
<1>3. /\ permitLine' = SubSeq(q, k + 1, m) /\ used' = n + k
      /\ run' = [r \in Runs |-> IF \E i \in 1 .. k : q[i] = r THEN "granted" ELSE st[r]] BY DEF Pump
<1> HIDE DEF k, m
<1>4. \A i \in 1 .. k : i \in 1 .. m BY <1>1, <1>2
<1>5. used' \in Nat /\ used' <= Slots BY <1>1, <1>2, <1>3
<1>6. run' \in [Runs -> RunStates] /\ \A r \in Runs : st[r] = "off" => run'[r] = "off"
 <2>1. ASSUME NEW r \in Runs, st[r] = "off" PROVE run'[r] = "off" BY <1>2, <1>3, <2>1
 <2>2. "granted" \in RunStates BY DEF RunStates
 <2> QED BY <1>3, <2>1, <2>2
\* The rest of the line.
<1>7. /\ permitLine' \in Seq(Runs) /\ Len(permitLine') = m - k
      /\ \A i \in 1 .. (m - k) : permitLine'[i] = q[i + k] /\ i + k \in 1 .. m /\ i + k > k
  BY <1>2, <1>3, RestOfLine DEF m
<1>8. \A i, j \in 1 .. m : q[i] = q[j] => i = j BY DEF InLine, m
<1>9. \A i \in 1 .. m : i > k => run'[q[i]] = st[q[i]]
 <2>1. ASSUME NEW i \in 1 .. m, i > k, NEW j \in 1 .. k, q[j] = q[i] PROVE FALSE
  <3>1. j = i BY <1>4, <1>8, <2>1
  <3> QED BY <1>1, <1>2, <2>1, <3>1
 <2> QED BY <1>1, <1>3, <2>1
<1>10. InLine(permitLine', run')
 <2>1. ASSUME NEW i \in 1 .. (m - k), NEW j \in 1 .. (m - k), permitLine'[i] = permitLine'[j] PROVE i = j
  <3>1. i + k = j + k BY <1>7, <1>8, <2>1
  <3> QED BY <1>1, <1>2, <3>1
 <2>2. \A i \in 1 .. m : st[q[i]] \in {"waiting", "ready"} BY DEF InLine, m
 <2>3. \A i \in 1 .. (m - k) : run'[permitLine'[i]] \in {"waiting", "ready"} BY <1>7, <1>9, <2>2
 <2> QED BY <1>7, <2>1, <2>3 DEF InLine
<1>11. permitLine' # <<>> /\ used' < Slots => run'[Head(permitLine')] # "ready"
 <2> SUFFICES ASSUME permitLine' # <<>>, used' < Slots PROVE run'[Head(permitLine')] # "ready" OBVIOUS
 <2>1. Len(permitLine') # 0 /\ Head(permitLine') = permitLine'[1] BY <1>7, EmptySeq
 <2>2. 1 \in 1 .. (m - k) /\ 1 + k = k + 1 /\ k # m BY <1>1, <1>2, <1>7, <2>1
 <2>3. n + k # Slots BY <1>1, <1>2, <1>3
 <2>4. st[q[k + 1]] # "ready" /\ permitLine'[1] = q[k + 1] /\ k + 1 \in 1 .. m /\ k + 1 > k BY <1>2, <1>7, <2>2, <2>3
 <2> QED BY <1>9, <2>1, <2>4
\* Those that leave it.
<1> DEFINE G == {q[i] : i \in 1 .. k}
           H == RunsHolding(st) \cup w
<1>12. IsFiniteSet(G) /\ Cardinality(G) = k
 <2> DEFINE f == [i \in 1 .. k |-> q[i]]
 <2>1. f \in Bijection(1 .. k, G)
  <3>1. f \in [1 .. k -> G] /\ \A x \in G : \E i \in 1 .. k : f[i] = x OBVIOUS
  <3>2. \A i, j \in 1 .. k : f[i] = f[j] => i = j BY <1>4, <1>8
  <3> QED BY <3>1, <3>2 DEF Bijection, Injection, Surjection, IsInjective
 <2>2. k \in Nat BY <1>1, <1>2
 <2>3. IsFiniteSet(1 .. k) /\ Cardinality(1 .. k) = k
  <3>1. IsFiniteSet(1 .. k) /\ Cardinality(1 .. k) = IF 1 > k THEN 0 ELSE k - 1 + 1 BY <2>2, FS_Interval
  <3> QED BY <2>2, <3>1
 <2>4. ExistsBijection(1 .. k, G) BY <2>1 DEF ExistsBijection
 <2> QED BY <2>3, <2>4, FS_Bijection
<1>13. IsFiniteSet(H) /\ Cardinality(H) = n BY DEF Permits
<1>14. \A x \in G : x \notin H
 <2>1. \A x \in G : x \in Runs /\ st[x] = "ready" BY <1>1, <1>2, <1>4
 <2>2. \A x \in Runs : x \notin w BY DrainAssumption
 <2> HIDE DEF G
 <2> QED BY <2>1, <2>2 DEF RunsHolding
<1>15. RunsHolding(run') \cup w = H \cup G
 <2>1. \A r \in Runs : run'[r] = IF r \in G THEN "granted" ELSE st[r] BY <1>3
 <2>2. G \subseteq Runs BY <1>1, <1>4
 <2> HIDE DEF G
 <2>3. \A r \in Runs : run'[r] \in {"granted", "writing"} <=> st[r] \in {"granted", "writing"} \/ r \in G BY <2>1
 <2> QED BY <2>2, <2>3 DEF RunsHolding
<1> HIDE DEF G, H
<1>16. IsFiniteSet(H \cup G) /\ Cardinality(H \cup G) = n + k
 <2>1. H \cap G = {} BY <1>14
 <2>2. IsFiniteSet(H \cup G) /\ Cardinality(H \cup G) = Cardinality(H) + Cardinality(G) - Cardinality(H \cap G)
   BY <1>12, <1>13, FS_Union
 <2>3. Cardinality(H \cap G) = 0 BY <2>1, FS_EmptySet
 <2> QED BY <1>1, <1>2, <1>12, <1>13, <2>2, <2>3
<1>17. Permits(run', w, used') BY <1>3, <1>15, <1>16 DEF Permits
<1> QED BY <1>5, <1>6, <1>7, <1>10, <1>11, <1>17

\* A permit is given, or returned.
LEMMA PermitGiven ==
  ASSUME NEW st, NEW w, NEW st2, NEW w2, NEW n \in Nat, NEW x, Permits(st, w, n), x \notin RunsHolding(st) \cup w,
         RunsHolding(st2) \cup w2 = (RunsHolding(st) \cup w) \cup {x}
  PROVE  Permits(st2, w2, n + 1)
<1> DEFINE H == RunsHolding(st) \cup w
<1>1. IsFiniteSet(H) /\ Cardinality(H) = n /\ x \notin H /\ RunsHolding(st2) \cup w2 = H \cup {x} BY DEF Permits
<1> HIDE DEF H
<1>2. IsFiniteSet(H \cup {x}) /\ Cardinality(H \cup {x}) = n + 1 BY <1>1, FS_AddElement
<1> QED BY <1>1, <1>2 DEF Permits

LEMMA PermitReturned ==
  ASSUME NEW st, NEW w, NEW st2, NEW w2, NEW n \in Nat, NEW x, Permits(st, w, n), x \in RunsHolding(st) \cup w,
         RunsHolding(st2) \cup w2 = (RunsHolding(st) \cup w) \ {x}
  PROVE  Permits(st2, w2, n - 1) /\ n - 1 \in Nat
<1> DEFINE H == RunsHolding(st) \cup w
<1>1. IsFiniteSet(H) /\ Cardinality(H) = n /\ x \in H /\ RunsHolding(st2) \cup w2 = H \ {x} BY DEF Permits
<1> HIDE DEF H
<1>2. IsFiniteSet(H \ {x}) /\ Cardinality(H \ {x}) = n - 1 BY <1>1, FS_RemoveElement
<1>3. Cardinality(H \ {x}) \in Nat BY <1>2, FS_CardinalityType
<1> QED BY <1>1, <1>2, <1>3 DEF Permits

\* What the steps of the runs leave alone.
LEMMA RunMoves ==
  ASSUME DrainInv, UNCHANGED <<agentCall, admitting, draining, shut, drain, deleting>>,
         permitLine' \in Seq(Runs), run' \in [Runs -> RunStates], used' \in Nat, used' <= Slots,
         InLine(permitLine', run'), Permits(run', Writers, used'), NoIdlePermit',
         (\A r \in Runs : run[r] = "off") => \A r \in Runs : run'[r] = "off"
  PROVE  DrainInv'
<1>1. /\ DrainTypes /\ StopStages /\ CutByDeletion BY DEF DrainInv
<1>2. DrainTypes' /\ CutByDeletion' /\ StopStages' BY <1>1 DEF DrainTypes, CutByDeletion, StopStages, ActiveCalls
<1>3. Writers' = Writers BY DEF Writers
<1> QED BY <1>2, <1>3 DEF DrainInv

\* Once the permits are shut nobody is in line, and who heads the line is a run.
LEMMA NoLineWhenShut == ASSUME DrainInv, shut PROVE permitLine = <<>>
<1>1. permitLine \in Seq(Runs) /\ InLine(permitLine, run) /\ \A r \in Runs : run[r] = "off"
  BY DEF DrainInv, DrainTypes, StopStages
<1>2. Len(permitLine) \in Nat /\ \A i \in 1 .. Len(permitLine) : permitLine[i] \in Runs
  BY <1>1, LenProperties, ElementOfSeq
<1>3. \A i \in 1 .. Len(permitLine) : FALSE BY <1>1, <1>2 DEF InLine
<1>4. Len(permitLine) = 0 BY <1>2, <1>3
<1> QED BY <1>1, <1>4, EmptySeq

LEMMA HeadIsARun == ASSUME DrainInv, permitLine # <<>> PROVE Head(permitLine) \in Runs
<1>1. permitLine \in Seq(Runs) BY DEF DrainInv, DrainTypes
<1>2. Len(permitLine) \in Nat /\ Len(permitLine) # 0 /\ Head(permitLine) = permitLine[1] BY <1>1, EmptySeq
<1>3. 1 \in 1 .. Len(permitLine) BY <1>2
<1> QED BY <1>1, <1>2, <1>3, ElementOfSeq

LEMMA RunPumps ==
  ASSUME DrainInv, UNCHANGED <<agentCall, admitting, draining, shut, drain, deleting>>,
         NEW q \in Seq(Runs), NEW st \in [Runs -> RunStates], NEW n \in Nat, n <= Slots,
         InLine(q, st), Permits(st, Writers, n), permitLine = <<>> => q = <<>>, Pump(q, st, n),
         (\A r \in Runs : run[r] = "off") => \A r \in Runs : st[r] = "off"
  PROVE  DrainInv'
<1>1. shut => q = <<>> BY NoLineWhenShut
<1>2. Writers \in SUBSET AgentCalls BY DEF Writers
<1>3. /\ permitLine' \in Seq(Runs) /\ run' \in [Runs -> RunStates] /\ used' \in Nat /\ used' <= Slots
      /\ InLine(permitLine', run') /\ Permits(run', Writers, used')
      /\ permitLine' # <<>> /\ used' < Slots => run'[Head(permitLine')] # "ready"
      /\ \A r \in Runs : st[r] = "off" => run'[r] = "off" BY <1>1, <1>2, PumpKeeps
<1>4. NoIdlePermit' BY <1>3 DEF NoIdlePermit
<1>5. (\A r \in Runs : run[r] = "off") => \A r \in Runs : run'[r] = "off" BY <1>3
<1> QED BY <1>3, <1>4, <1>5, RunMoves

\* A run gives its permit back.
LEMMA RunReturns ==
  ASSUME DrainInv, UNCHANGED <<agentCall, admitting, draining, shut, drain, deleting>>,
         NEW r \in Runs, run[r] \in {"granted", "writing"}, Pump(permitLine, [run EXCEPT ![r] = "off"], used - 1)
  PROVE  DrainInv'
<1> DEFINE st == [run EXCEPT ![r] = "off"]
<1>1. /\ permitLine \in Seq(Runs) /\ run \in [Runs -> RunStates] /\ used \in Nat /\ used <= Slots /\ Slots \in Nat
      /\ InLine(permitLine, run) /\ Permits(run, Writers, used) BY DrainAssumption DEF DrainInv, DrainTypes
<1>2. st \in [Runs -> RunStates] /\ st[r] = "off" /\ \A s \in Runs : s # r => st[s] = run[s] BY <1>1 DEF RunStates
<1> HIDE DEF st
<1>3. InLine(permitLine, st)
 <2>1. \A i \in 1 .. Len(permitLine) : permitLine[i] \in Runs BY <1>1, ElementOfSeq
 <2> QED BY <1>1, <1>2, <2>1 DEF InLine
<1>4. RunsHolding(st) \cup Writers = (RunsHolding(run) \cup Writers) \ {r} /\ r \in RunsHolding(run) \cup Writers
 <2>1. r \notin Writers BY DrainAssumption DEF Writers
 <2>2. RunsHolding(st) = RunsHolding(run) \ {r} /\ r \in RunsHolding(run) BY <1>2 DEF RunsHolding
 <2> QED BY <2>1, <2>2
<1>5. Permits(st, Writers, used - 1) /\ used - 1 \in Nat BY <1>1, <1>4, PermitReturned
<1>6. used - 1 <= Slots BY <1>1
<1>7. (\A s \in Runs : run[s] = "off") => \A s \in Runs : st[s] = "off" BY <1>2
<1>8. Pump(permitLine, st, used - 1) BY DEF st
<1> QED BY <1>1, <1>2, <1>3, <1>5, <1>6, <1>7, <1>8, RunPumps

\* The part of the line without a run.
LEMMA LeavesLine ==
  ASSUME DrainInv, NEW r \in Runs, run[r] \in {"waiting", "ready"}
  PROVE  LET q == Sublist(permitLine, {i \in DOMAIN permitLine : permitLine[i] # r})
             st == [run EXCEPT ![r] = "off"]
         IN  /\ q \in Seq(Runs) /\ InLine(q, st) /\ (permitLine = <<>> => q = <<>>)
             /\ st \in [Runs -> RunStates] /\ Permits(st, Writers, used)
<1> DEFINE I == {i \in DOMAIN permitLine : permitLine[i] # r}
           q == Sublist(permitLine, I)
           st == [run EXCEPT ![r] = "off"]
<1>1. /\ permitLine \in Seq(Runs) /\ run \in [Runs -> RunStates]
      /\ InLine(permitLine, run) /\ Permits(run, Writers, used) BY DEF DrainInv, DrainTypes
<1>2. st \in [Runs -> RunStates] /\ st[r] = "off" /\ \A s \in Runs : s # r => st[s] = run[s] BY <1>1 DEF RunStates
<1> HIDE DEF st
<1>3. /\ Len(permitLine) \in Nat /\ DOMAIN permitLine = 1 .. Len(permitLine)
      /\ \A i \in 1 .. Len(permitLine) : permitLine[i] \in Runs BY <1>1, LenProperties, ElementOfSeq
<1>4. I \in SUBSET (1 .. Len(permitLine)) /\ \A i \in I : permitLine[i] \in Runs /\ permitLine[i] # r BY <1>3
<1>5. \A i \in I : st[permitLine[i]] \in {"waiting", "ready"} BY <1>1, <1>2, <1>3, <1>4 DEF InLine
<1>6. \A i, j \in I : permitLine[i] = permitLine[j] => i = j BY <1>1, <1>4 DEF InLine
<1> HIDE DEF I
<1>7. /\ q \in Seq(Runs) /\ Len(q) = Cardinality(I) /\ Cardinality(I) \in Nat /\ Cardinality(I) <= Len(permitLine)
      /\ \A k \in 1 .. Cardinality(I) : \E i \in I : Rank(I, i) = k /\ q[k] = permitLine[i]
  BY <1>1, <1>4, SublistProperties
<1> HIDE DEF q
<1>8. InLine(q, st)
 <2>1. ASSUME NEW k \in 1 .. Len(q), NEW l \in 1 .. Len(q), q[k] = q[l] PROVE k = l
  <3>1. PICK i \in I : Rank(I, i) = k /\ q[k] = permitLine[i] BY <1>7
  <3>2. PICK j \in I : Rank(I, j) = l /\ q[l] = permitLine[j] BY <1>7
  <3>3. i = j BY <1>6, <2>1, <3>1, <3>2
  <3> QED BY <3>1, <3>2, <3>3
 <2>2. \A k \in 1 .. Len(q) : st[q[k]] \in {"waiting", "ready"} BY <1>5, <1>7
 <2> QED BY <2>1, <2>2 DEF InLine
<1>9. permitLine = <<>> => q = <<>>
 <2> SUFFICES ASSUME permitLine = <<>> PROVE q = <<>> OBVIOUS
 <2>1. Len(permitLine) = 0 BY EmptySeq
 <2>2. Len(q) = 0 BY <1>7, <2>1
 <2> QED BY <1>7, <2>2, EmptySeq
<1>10. RunsHolding(st) = RunsHolding(run) BY <1>2 DEF RunsHolding
<1>11. Permits(st, Writers, used) BY <1>1, <1>10 DEF Permits
<1> QED BY <1>2, <1>7, <1>8, <1>9, <1>11 DEF q, st, I

\* A run in line, told that it waits.
LEMMA ToldInLine ==
  ASSUME DrainInv, NEW r \in Runs, run[r] = "waiting"
  PROVE  LET st == [run EXCEPT ![r] = "ready"] IN
         st \in [Runs -> RunStates] /\ InLine(permitLine, st) /\ Permits(st, Writers, used)
<1> DEFINE st == [run EXCEPT ![r] = "ready"]
<1>1. /\ permitLine \in Seq(Runs) /\ run \in [Runs -> RunStates]
      /\ InLine(permitLine, run) /\ Permits(run, Writers, used) BY DEF DrainInv, DrainTypes
<1>2. st \in [Runs -> RunStates] /\ st[r] = "ready" /\ \A s \in Runs : s # r => st[s] = run[s] BY <1>1 DEF RunStates
<1> HIDE DEF st
<1>3. \A i \in 1 .. Len(permitLine) : permitLine[i] \in Runs BY <1>1, ElementOfSeq
<1>4. InLine(permitLine, st) BY <1>1, <1>2, <1>3 DEF InLine
<1>5. RunsHolding(st) = RunsHolding(run) BY <1>2 DEF RunsHolding
<1>6. Permits(st, Writers, used) BY <1>1, <1>5 DEF Permits
<1> QED BY <1>2, <1>4, <1>6 DEF st

\* What a step of one request leaves alone, of the requests and of the stop.
LEMMA CallMoves ==
  ASSUME DrainInv, UNCHANGED <<admitting, draining, shut, drain, deleting>>,
         NEW c \in AgentCalls, NEW x \in CallStates, agentCall' = [agentCall EXCEPT ![c] = x],
         x \in {"active", "writing"} => admitting \/ agentCall[c] = "active", x = "cut" => deleting,
         drain = "done" => \A r \in Runs : run[r] = "off" => run'[r] = "off"
  PROVE  /\ agentCall' \in [AgentCalls -> CallStates] /\ agentCall'[c] = x
         /\ \A d \in AgentCalls : d # c => agentCall'[d] = agentCall[d]
         /\ StopStages' /\ CutByDeletion'
<1>1. /\ DrainTypes /\ StopStages /\ CutByDeletion /\ agentCall \in [AgentCalls -> CallStates]
  BY DEF DrainInv, DrainTypes
<1>2. /\ agentCall' \in [AgentCalls -> CallStates] /\ agentCall'[c] = x
      /\ \A d \in AgentCalls : d # c => agentCall'[d] = agentCall[d] BY <1>1
<1>3. CutByDeletion' BY <1>1, <1>2 DEF CutByDeletion
<1>4. ASSUME draining, ~deleting PROVE ActiveCalls' = {}
 <2>1. ActiveCalls = {} /\ ~admitting BY <1>1, <1>4 DEF StopStages
 <2>2. \A d \in AgentCalls : agentCall[d] \notin {"active", "writing"} BY <2>1 DEF ActiveCalls
 <2>3. x \notin {"active", "writing"} BY <2>1, <2>2
 <2>4. \A d \in AgentCalls : agentCall'[d] \notin {"active", "writing"} BY <1>2, <2>2, <2>3
 <2> QED BY <2>4 DEF ActiveCalls
<1>5. drain = "done" => \A r \in Runs : run'[r] = "off" BY <1>1 DEF StopStages
<1>6. StopStages' BY <1>1, <1>4, <1>5 DEF StopStages
<1> QED BY <1>2, <1>3, <1>6

LEMMA DrainStep == DrainInv /\ [DrainNext]_drainVars => DrainInv'
<1> SUFFICES ASSUME DrainInv, [DrainNext]_drainVars PROVE DrainInv' OBVIOUS
<1>0. /\ DrainTypes /\ InLine(permitLine, run) /\ Permits(run, Writers, used) /\ NoIdlePermit /\ StopStages /\ CutByDeletion
      /\ permitLine \in Seq(Runs) /\ run \in [Runs -> RunStates] /\ agentCall \in [AgentCalls -> CallStates]
      /\ used \in Nat /\ used <= Slots /\ Slots \in Nat BY DrainAssumption DEF DrainInv, DrainTypes
<1>a. \A i \in 1 .. Len(permitLine) : permitLine[i] \in Runs BY <1>0, ElementOfSeq
\* --- runs
\* A run that is in no line, and gets none, starts, computes or ends.
<1>1. ASSUME NEW r \in Runs, NEW x \in {"off", "computing"}, run[r] \in {"off", "computing"},
             x = "computing" => ~\A s \in Runs : run[s] = "off",
             run' = [run EXCEPT ![r] = x], UNCHANGED <<permitLine, used>>,
             UNCHANGED <<agentCall, admitting, draining, shut, drain, deleting>>
      PROVE  DrainInv'
 <2>1. /\ run' \in [Runs -> RunStates] /\ run'[r] = x /\ \A s \in Runs : s # r => run'[s] = run[s]
   BY <1>0, <1>1 DEF RunStates
 <2>2. InLine(permitLine, run') BY <1>0, <1>1, <1>a, <2>1 DEF InLine
 <2>3. RunsHolding(run') = RunsHolding(run) BY <1>1, <2>1 DEF RunsHolding
 <2>4. Permits(run', Writers, used) BY <1>0, <2>3 DEF Permits
 <2>5. NoIdlePermit'
  <3> SUFFICES ASSUME permitLine # <<>>, used < Slots PROVE run'[Head(permitLine)] # "ready" BY <1>1 DEF NoIdlePermit
  <3>1. run[Head(permitLine)] # "ready" BY <1>0 DEF NoIdlePermit
  <3>2. Head(permitLine) \in Runs BY HeadIsARun
  <3> QED BY <1>1, <2>1, <3>1, <3>2
 <2>6. (\A s \in Runs : run[s] = "off") => \A s \in Runs : run'[s] = "off" BY <1>1, <2>1
 <2> QED BY <1>0, <1>1, <2>1, <2>2, <2>4, <2>5, <2>6, RunMoves
<1>2. ASSUME NEW r \in Runs, Asks(r) PROVE DrainInv'
 <2>1. run[r] = "computing" /\ UNCHANGED <<agentCall, admitting, draining, shut, drain, deleting>>
   BY <1>2 DEF Asks, Server
 <2>2. CASE shut BY <1>1, <1>2, <2>1, <2>2 DEF Asks
 <2>3. CASE ~shut /\ permitLine = <<>> /\ used < Slots
  <3>1. run' = [run EXCEPT ![r] = "writing"] /\ used' = used + 1 /\ permitLine' = permitLine BY <1>2, <2>3 DEF Asks
  <3>2. /\ run' \in [Runs -> RunStates] /\ run'[r] = "writing" /\ \A s \in Runs : s # r => run'[s] = run[s]
    BY <1>0, <3>1 DEF RunStates
  <3>3. InLine(permitLine', run') BY <1>0, <1>a, <2>1, <3>1, <3>2 DEF InLine
  <3>4. RunsHolding(run') \cup Writers = (RunsHolding(run) \cup Writers) \cup {r} /\ r \notin RunsHolding(run) \cup Writers
   <4>1. r \notin Writers BY DrainAssumption DEF Writers
   <4>2. RunsHolding(run') = RunsHolding(run) \cup {r} /\ r \notin RunsHolding(run) BY <2>1, <3>2 DEF RunsHolding
   <4> QED BY <4>1, <4>2
  <3>5. Permits(run', Writers, used') BY <1>0, <3>1, <3>4, PermitGiven
  <3>6. used' \in Nat /\ used' <= Slots BY <1>0, <2>3, <3>1
  <3>7. NoIdlePermit' BY <2>3, <3>1 DEF NoIdlePermit
  <3>8. ~\A s \in Runs : run[s] = "off" BY <2>1
  <3> QED BY <1>0, <2>1, <3>1, <3>2, <3>3, <3>5, <3>6, <3>7, <3>8, RunMoves
 <2>4. CASE ~shut /\ ~(permitLine = <<>> /\ used < Slots)
  <3>1. run' = [run EXCEPT ![r] = "waiting"] /\ used' = used /\ permitLine' = Append(permitLine, r)
    BY <1>2, <2>4 DEF Asks
  <3>2. /\ run' \in [Runs -> RunStates] /\ run'[r] = "waiting" /\ \A s \in Runs : s # r => run'[s] = run[s]
    BY <1>0, <3>1 DEF RunStates
  <3> DEFINE m == Len(permitLine)
  <3>3. /\ m \in Nat /\ permitLine' \in Seq(Runs) /\ Len(permitLine') = m + 1 /\ permitLine'[m + 1] = r
        /\ \A i \in 1 .. m : permitLine'[i] = permitLine[i] BY <1>0, <3>1, AppendProperties, LenProperties
  <3>4. \A i \in 1 .. m : permitLine[i] \in Runs /\ permitLine[i] # r BY <1>0, <1>a, <2>1 DEF InLine
  <3>5. InLine(permitLine', run')
   <4>1. \A i \in 1 .. (m + 1) : i \in 1 .. m \/ i = m + 1
    <5> HIDE DEF m
    <5> QED BY <3>3
   <4>2. \A i, j \in 1 .. m : permitLine[i] = permitLine[j] => i = j BY <1>0 DEF InLine
   <4>3. \A i \in 1 .. m : run'[permitLine[i]] \in {"waiting", "ready"} BY <1>0, <3>2, <3>4 DEF InLine
   <4> HIDE DEF m
   <4>4. ASSUME NEW i \in 1 .. (m + 1), NEW j \in 1 .. (m + 1), permitLine'[i] = permitLine'[j] PROVE i = j
    <5>1. CASE i \in 1 .. m /\ j \in 1 .. m BY <3>3, <4>2, <4>4, <5>1
    <5>2. CASE i = m + 1 /\ j = m + 1 BY <5>2
    <5>3. CASE i \in 1 .. m /\ j = m + 1 BY <3>3, <3>4, <4>4, <5>3
    <5>4. CASE i = m + 1 /\ j \in 1 .. m BY <3>3, <3>4, <4>4, <5>4
    <5> QED BY <4>1, <5>1, <5>2, <5>3, <5>4
   <4>5. \A i \in 1 .. (m + 1) : run'[permitLine'[i]] \in {"waiting", "ready"}
    <5> SUFFICES ASSUME NEW i \in 1 .. (m + 1) PROVE run'[permitLine'[i]] \in {"waiting", "ready"} OBVIOUS
    <5>1. CASE i \in 1 .. m BY <3>3, <4>3, <5>1
    <5>2. CASE i = m + 1 BY <3>2, <3>3, <5>2
    <5> QED BY <4>1, <5>1, <5>2
   <4> QED BY <3>3, <4>4, <4>5 DEF InLine
  <3>6. RunsHolding(run') = RunsHolding(run) BY <2>1, <3>2 DEF RunsHolding
  <3>7. Permits(run', Writers, used') BY <1>0, <3>1, <3>6 DEF Permits
  <3>8. NoIdlePermit'
   <4> SUFFICES ASSUME used < Slots PROVE run'[Head(permitLine')] # "ready" BY <3>1 DEF NoIdlePermit
   <4>1. permitLine # <<>> /\ run[Head(permitLine)] # "ready" BY <1>0, <2>4 DEF NoIdlePermit
   <4>2. m # 0 /\ Head(permitLine) = permitLine[1] BY <1>0, <4>1, EmptySeq
   <4>3. 1 \in 1 .. m
    <5> HIDE DEF m
    <5> QED BY <3>3, <4>2
   <4>4. Head(permitLine') = permitLine'[1]
    <5>1. Len(permitLine') # 0
     <6> HIDE DEF m
     <6> QED BY <3>3
    <5>2. permitLine' # <<>> BY <5>1, EmptySeq
    <5> QED BY <3>3, <5>2, EmptySeq
   <4> QED BY <3>2, <3>3, <3>4, <4>1, <4>2, <4>3, <4>4
  <3>9. ~\A s \in Runs : run[s] = "off" BY <2>1
  <3> QED BY <1>0, <2>1, <3>1, <3>2, <3>3, <3>5, <3>7, <3>8, <3>9, RunMoves
 <2> QED BY <2>2, <2>3, <2>4
<1>3. ASSUME NEW r \in Runs, Told(r) PROVE DrainInv'
 <2>1. /\ run[r] = "waiting" /\ UNCHANGED <<agentCall, admitting, draining, shut, drain, deleting>>
       /\ Pump(permitLine, [run EXCEPT ![r] = "ready"], used) BY <1>3 DEF Told, Server
 <2> DEFINE st == [run EXCEPT ![r] = "ready"]
 <2>2. st \in [Runs -> RunStates] /\ InLine(permitLine, st) /\ Permits(st, Writers, used) BY <2>1, ToldInLine
 <2>3. Pump(permitLine, st, used) BY <2>1
 <2>4. ~\A s \in Runs : run[s] = "off" BY <2>1
 <2> HIDE DEF st
 <2> QED BY <1>0, <2>1, <2>2, <2>3, <2>4, RunPumps
<1>4. ASSUME NEW r \in Runs, Remove(r) PROVE DrainInv'
 <2> DEFINE q == Sublist(permitLine, {i \in DOMAIN permitLine : permitLine[i] # r})
            st == [run EXCEPT ![r] = "off"]
 <2>1. /\ run[r] \in {"waiting", "ready"} /\ UNCHANGED <<agentCall, admitting, draining, shut, drain, deleting>>
       /\ Pump(q, st, used) BY <1>4 DEF Remove, Server
 <2>2. /\ q \in Seq(Runs) /\ InLine(q, st) /\ (permitLine = <<>> => q = <<>>)
       /\ st \in [Runs -> RunStates] /\ Permits(st, Writers, used) BY <2>1, LeavesLine
 <2>3. ~\A s \in Runs : run[s] = "off" BY <2>1
 <2> HIDE DEF q, st
 <2> QED BY <1>0, <2>1, <2>2, <2>3, RunPumps
<1>5. ASSUME NEW r \in Runs, GrantTold(r) PROVE DrainInv'
 <2>1. run[r] = "granted" /\ UNCHANGED <<agentCall, admitting, draining, shut, drain, deleting>>
   BY <1>5 DEF GrantTold, Server
 <2>2. CASE run' = [run EXCEPT ![r] = "writing"] /\ UNCHANGED <<permitLine, used>>
  <3>1. /\ run' \in [Runs -> RunStates] /\ run'[r] = "writing" /\ \A s \in Runs : s # r => run'[s] = run[s]
    BY <1>0, <2>2 DEF RunStates
  <3>2. InLine(permitLine, run') BY <1>0, <1>a, <2>1, <3>1 DEF InLine
  <3>3. RunsHolding(run') = RunsHolding(run) BY <2>1, <3>1 DEF RunsHolding
  <3>4. Permits(run', Writers, used) BY <1>0, <3>3 DEF Permits
  <3>5. NoIdlePermit'
   <4> SUFFICES ASSUME permitLine # <<>>, used < Slots PROVE run'[Head(permitLine)] # "ready" BY <2>2 DEF NoIdlePermit
   <4>1. run[Head(permitLine)] # "ready" BY <1>0 DEF NoIdlePermit
   <4>2. Head(permitLine) \in Runs BY HeadIsARun
   <4> QED BY <3>1, <4>1, <4>2
  <3>6. ~\A s \in Runs : run[s] = "off" BY <2>1
  <3> QED BY <1>0, <2>1, <2>2, <3>1, <3>2, <3>4, <3>5, <3>6, RunMoves
 <2>3. CASE Pump(permitLine, [run EXCEPT ![r] = "off"], used - 1) BY <2>1, <2>3, RunReturns
 <2> QED BY <1>5, <2>2, <2>3 DEF GrantTold
<1>6. ASSUME NEW r \in Runs, RunEnds(r) PROVE DrainInv'
 <2>1. UNCHANGED <<agentCall, admitting, draining, shut, drain, deleting>> BY <1>6 DEF RunEnds, Server
 <2>2. CASE run[r] = "writing" /\ Pump(permitLine, [run EXCEPT ![r] = "off"], used - 1) BY <2>1, <2>2, RunReturns
 <2>3. CASE run[r] = "computing" /\ run' = [run EXCEPT ![r] = "off"] /\ UNCHANGED <<permitLine, used>>
   BY <1>1, <2>1, <2>3
 <2> QED BY <1>6, <2>2, <2>3 DEF RunEnds
\* --- agents' requests
\* A request that holds no permit and gets none moves on.
<1>7. ASSUME NEW c \in AgentCalls, NEW x \in CallStates, agentCall[c] # "writing", x # "writing",
             agentCall' = [agentCall EXCEPT ![c] = x],
             x = "active" => admitting, x = "cut" => deleting,
             UNCHANGED <<run, permitLine, used>>, UNCHANGED <<admitting, draining, shut, drain, deleting>>
      PROVE  DrainInv'
 <2>1. /\ agentCall' \in [AgentCalls -> CallStates] /\ agentCall'[c] = x
       /\ \A d \in AgentCalls : d # c => agentCall'[d] = agentCall[d]
       /\ StopStages' /\ CutByDeletion' BY <1>7, CallMoves
 <2>2. Writers' = Writers BY <1>7, <2>1 DEF Writers
 <2>3. Permits(run', Writers', used') /\ InLine(permitLine', run') /\ NoIdlePermit'
   BY <1>0, <1>7, <2>2 DEF NoIdlePermit
 <2>4. DrainTypes' BY <1>0, <1>7, <2>1 DEF DrainTypes
 <2> QED BY <2>1, <2>3, <2>4 DEF DrainInv
<1>b. {"idle", "reading", "read", "active", "writing", "done", "refused", "cut"} \subseteq CallStates
  BY DEF CallStates
\* The workspace drains under an admitted request only for a deletion.
<1>c. ASSUME NEW c \in AgentCalls, agentCall[c] = "active", draining \/ shut PROVE deleting
 <2>1. draining BY <1>0, <1>c DEF StopStages
 <2>2. c \in ActiveCalls BY <1>c DEF ActiveCalls
 <2> QED BY <1>0, <2>1, <2>2 DEF StopStages
<1>8. ASSUME NEW c \in AgentCalls, Arrive(c) PROVE DrainInv' BY <1>7, <1>8, <1>b DEF Arrive, Call, Server
<1>9. ASSUME NEW c \in AgentCalls, BodyRead(c) PROVE DrainInv' BY <1>7, <1>9, <1>b DEF BodyRead, Call, Server
<1>10. ASSUME NEW c \in AgentCalls, AdmitCall(c) PROVE DrainInv'
 <2>1. CASE admitting BY <1>7, <1>10, <1>b, <2>1 DEF AdmitCall, Call, Server
 <2>2. CASE ~admitting BY <1>7, <1>10, <1>b, <2>2 DEF AdmitCall, Call, Server
 <2> QED BY <2>1, <2>2
<1>11. ASSUME NEW c \in AgentCalls, Read(c) PROVE DrainInv' BY <1>7, <1>11, <1>b DEF Read, Call, Server
<1>12. ASSUME NEW c \in AgentCalls, WriteCall(c) PROVE DrainInv'
 <2>1. UNCHANGED <<run, permitLine>> /\ UNCHANGED <<admitting, draining, shut, drain, deleting>>
   BY <1>12 DEF WriteCall, Server
 <2>2. CASE draining \/ shut
  <3>1. agentCall[c] = "active" /\ agentCall' = [agentCall EXCEPT ![c] = "cut"] /\ used' = used
    BY <1>12, <2>2 DEF WriteCall, Call
  <3>2. deleting BY <1>c, <2>2, <3>1
  <3> QED BY <1>7, <1>b, <2>1, <3>1, <3>2
 <2>3. CASE ~(draining \/ shut) /\ (permitLine # <<>> \/ used = Slots)
  <3>1. agentCall[c] = "active" /\ agentCall' = [agentCall EXCEPT ![c] = "done"] /\ used' = used
    BY <1>12, <2>3 DEF WriteCall, Call
  <3> QED BY <1>7, <1>b, <2>1, <3>1
 <2>4. CASE ~(draining \/ shut) /\ ~(permitLine # <<>> \/ used = Slots)
  <3>1. agentCall[c] = "active" /\ agentCall' = [agentCall EXCEPT ![c] = "writing"] /\ used' = used + 1
    BY <1>12, <2>4 DEF WriteCall, Call
  <3>2. /\ agentCall' \in [AgentCalls -> CallStates] /\ agentCall'[c] = "writing"
        /\ \A d \in AgentCalls : d # c => agentCall'[d] = agentCall[d]
        /\ StopStages' /\ CutByDeletion'
   <4>1. \A r \in Runs : run[r] = "off" => run'[r] = "off" BY <2>1
   <4>2. "writing" \in CallStates BY <1>b
   <4> QED BY <2>1, <3>1, <4>1, <4>2, CallMoves
  <3>3. RunsHolding(run') \cup Writers' = (RunsHolding(run) \cup Writers) \cup {c} /\ c \notin RunsHolding(run) \cup Writers
   <4>1. c \notin Runs BY DrainAssumption
   <4>2. Writers' = Writers \cup {c} /\ c \notin Writers BY <3>1, <3>2 DEF Writers
   <4>3. RunsHolding(run') = RunsHolding(run) /\ c \notin RunsHolding(run) BY <2>1, <4>1 DEF RunsHolding
   <4> QED BY <4>2, <4>3
  <3>4. Permits(run', Writers', used') BY <1>0, <3>1, <3>3, PermitGiven
  <3>5. used' \in Nat /\ used' <= Slots BY <1>0, <2>4, <3>1
  <3>6. InLine(permitLine', run') /\ NoIdlePermit' BY <1>0, <2>1, <2>4 DEF NoIdlePermit
  <3>7. DrainTypes' BY <1>0, <2>1, <3>2, <3>5 DEF DrainTypes
  <3> QED BY <3>2, <3>4, <3>6, <3>7 DEF DrainInv
 <2> QED BY <2>2, <2>3, <2>4
<1>13. ASSUME NEW c \in AgentCalls, WriteEnds(c) PROVE DrainInv'
 <2>1. /\ agentCall[c] = "writing" /\ agentCall' = [agentCall EXCEPT ![c] = "done"]
       /\ Pump(permitLine, run, used - 1) /\ UNCHANGED <<admitting, draining, shut, drain, deleting>>
   BY <1>13 DEF WriteEnds, Call, Server, Release
 <2> DEFINE w == Writers \ {c}
 <2>2. RunsHolding(run) \cup w = (RunsHolding(run) \cup Writers) \ {c} /\ c \in RunsHolding(run) \cup Writers
  <3>1. c \notin RunsHolding(run) BY DrainAssumption DEF RunsHolding
  <3>2. c \in Writers BY <2>1 DEF Writers
  <3> QED BY <3>1, <3>2
 <2>3. w \in SUBSET AgentCalls BY DEF Writers
 <2> HIDE DEF w
 <2>4. Permits(run, w, used - 1) /\ used - 1 \in Nat BY <1>0, <2>2, PermitReturned
 <2>5. used - 1 <= Slots BY <1>0
 <2>6. shut => permitLine = <<>> BY <1>0, NoLineWhenShut
 <2>7. /\ permitLine' \in Seq(Runs) /\ run' \in [Runs -> RunStates] /\ used' \in Nat /\ used' <= Slots
       /\ InLine(permitLine', run') /\ Permits(run', w, used')
       /\ permitLine' # <<>> /\ used' < Slots => run'[Head(permitLine')] # "ready"
       /\ \A r \in Runs : run[r] = "off" => run'[r] = "off" BY <1>0, <2>1, <2>3, <2>4, <2>5, <2>6, PumpKeeps
 <2>8. /\ agentCall' \in [AgentCalls -> CallStates] /\ agentCall'[c] = "done"
       /\ \A d \in AgentCalls : d # c => agentCall'[d] = agentCall[d]
       /\ StopStages' /\ CutByDeletion'
  <3>1. "done" \in CallStates BY <1>b
  <3> QED BY <2>1, <2>7, <3>1, CallMoves
 <2>9. Writers' = w BY <2>8 DEF Writers, w
 <2>10. Permits(run', Writers', used') BY <2>7, <2>9
 <2>11. DrainTypes' /\ NoIdlePermit' BY <1>0, <2>1, <2>7, <2>8 DEF DrainTypes, NoIdlePermit
 <2> QED BY <2>7, <2>8, <2>10, <2>11 DEF DrainInv
<1>14. ASSUME NEW c \in AgentCalls, Submit(c) PROVE DrainInv'
 <2>1. UNCHANGED <<permitLine, used>> /\ UNCHANGED <<admitting, draining, shut, drain, deleting>> /\ agentCall[c] = "active"
   BY <1>14 DEF Submit, Call, Server
 <2>2. CASE draining
  <3>1. agentCall' = [agentCall EXCEPT ![c] = "cut"] /\ run' = run BY <1>14, <2>2 DEF Submit, Call
  <3>2. deleting BY <1>c, <2>1, <2>2
  <3> QED BY <1>7, <1>b, <2>1, <3>1, <3>2
 <2>3. CASE ~draining
  <3>1. PICK r \in Runs : run[r] = "off" /\ run' = [run EXCEPT ![r] = "computing"] BY <1>14, <2>3 DEF Submit
  <3>2. agentCall' = [agentCall EXCEPT ![c] = "done"] BY <1>14, <2>3 DEF Submit, Call
  <3>3. /\ run' \in [Runs -> RunStates] /\ run'[r] = "computing" /\ \A s \in Runs : s # r => run'[s] = run[s]
    BY <1>0, <3>1 DEF RunStates
  <3>4. drain # "done" BY <1>0, <2>3 DEF StopStages
  <3>5. /\ agentCall' \in [AgentCalls -> CallStates] /\ agentCall'[c] = "done"
        /\ \A d \in AgentCalls : d # c => agentCall'[d] = agentCall[d]
        /\ StopStages' /\ CutByDeletion'
   <4>1. "done" \in CallStates BY <1>b
   <4> QED BY <2>1, <3>2, <3>4, <4>1, CallMoves
  <3>6. InLine(permitLine, run') BY <1>0, <1>a, <3>1, <3>3 DEF InLine
  <3>7. RunsHolding(run') = RunsHolding(run) /\ Writers' = Writers BY <2>1, <3>1, <3>3, <3>5 DEF RunsHolding, Writers
  <3>8. Permits(run', Writers', used') BY <1>0, <2>1, <3>7 DEF Permits
  <3>9. NoIdlePermit' BY <1>0, <2>1, <3>1, <3>3, HeadIsARun DEF NoIdlePermit
  <3>10. DrainTypes' BY <1>0, <2>1, <3>3, <3>5 DEF DrainTypes
  <3> QED BY <2>1, <3>5, <3>6, <3>8, <3>9, <3>10 DEF DrainInv
 <2> QED BY <2>2, <2>3
\* --- stopping
\* The drain moves on, and nothing else does.
<1>15. ASSUME UNCHANGED <<agentCall, run, permitLine, used>>, StopStages', deleting' = deleting,
              admitting' \in BOOLEAN, draining' \in BOOLEAN, shut' \in BOOLEAN, drain' \in {"none", "agents", "work", "done", "failed"}
       PROVE  DrainInv'
 <2>1. Writers' = Writers BY <1>15 DEF Writers
 <2>2. DrainTypes' /\ CutByDeletion' /\ NoIdlePermit' BY <1>0, <1>15 DEF DrainTypes, CutByDeletion, NoIdlePermit
 <2>3. InLine(permitLine', run') /\ Permits(run', Writers', used') BY <1>0, <1>15, <2>1
 <2> QED BY <1>15, <2>2, <2>3 DEF DrainInv
<1>16. ASSUME NEW d \in BOOLEAN, BeginDrain(d) PROVE DrainInv'
 <2>1. /\ drain = "none" /\ drain' = "agents" /\ admitting' = FALSE
       /\ deleting' = (deleting \/ d) /\ draining' = (draining \/ d)
       /\ UNCHANGED <<run, permitLine, used, shut>>
       /\ agentCall' = [c \in AgentCalls |-> IF agentCall[c] = "reading" THEN "refused" ELSE agentCall[c]]
   BY <1>16 DEF BeginDrain, StopAdmission
 <2>2. ~shut /\ (draining => deleting) BY <1>0, <2>1 DEF StopStages
 <2>3. /\ agentCall' \in [AgentCalls -> CallStates]
       /\ \A c \in AgentCalls : agentCall'[c] = agentCall[c] \/ (agentCall[c] = "reading" /\ agentCall'[c] = "refused")
   BY <1>0, <1>b, <2>1
 <2>4. StopStages' BY <2>1, <2>2 DEF StopStages
 <2>5. CutByDeletion' BY <1>0, <2>1, <2>3 DEF CutByDeletion
 <2>6. Writers' = Writers BY <2>3 DEF Writers
 <2>7. InLine(permitLine', run') /\ Permits(run', Writers', used') /\ NoIdlePermit'
   BY <1>0, <2>1, <2>6 DEF NoIdlePermit
 <2>8. DrainTypes' BY <1>0, <2>1, <2>3 DEF DrainTypes
 <2> QED BY <2>4, <2>5, <2>7, <2>8 DEF DrainInv
<1>22. ASSUME AuthorityLost PROVE DrainInv'
 <2>1. /\ draining' = TRUE /\ deleting' = TRUE
       /\ UNCHANGED <<agentCall, run, permitLine, used, admitting, shut, drain>> BY <1>22 DEF AuthorityLost
 <2>2. StopStages' /\ CutByDeletion' BY <1>0, <2>1 DEF StopStages, CutByDeletion
 <2>3. Writers' = Writers BY <2>1 DEF Writers
 <2>4. InLine(permitLine', run') /\ Permits(run', Writers', used') BY <1>0, <2>1, <2>3
 <2>5. DrainTypes' /\ NoIdlePermit' BY <1>0, <2>1 DEF DrainTypes, NoIdlePermit
 <2> QED BY <2>2, <2>4, <2>5 DEF DrainInv
<1>17. ASSUME AgentsDrained PROVE DrainInv'
 <2>1. StopStages' BY <1>0, <1>17 DEF AgentsDrained, StopStages, ActiveCalls
 <2> QED BY <1>0, <1>15, <1>17, <2>1 DEF AgentsDrained, DrainTypes
<1>18. ASSUME WorkDrained PROVE DrainInv'
 <2>1. StopStages' BY <1>0, <1>18 DEF WorkDrained, StopStages, ActiveCalls
 <2> QED BY <1>0, <1>15, <1>18, <2>1 DEF WorkDrained, DrainTypes
<1>19. ASSUME DrainDeadline PROVE DrainInv'
 <2>1. StopStages' BY <1>0, <1>19 DEF DrainDeadline, StopStages, ActiveCalls
 <2> QED BY <1>0, <1>15, <1>19, <2>1 DEF DrainDeadline, DrainTypes
\* Shutdown finds no run: there is nobody to turn away.
<1>20. ASSUME Close PROVE DrainInv'
 <2>1. /\ drain = "done" /\ shut' = TRUE /\ permitLine' = <<>> /\ UNCHANGED <<agentCall, used, admitting, draining, drain, deleting>>
       /\ run' = [r \in Runs |-> IF run[r] \in {"waiting", "ready"} THEN "off" ELSE run[r]] BY <1>20 DEF Close
 <2>2. \A r \in Runs : run[r] = "off" BY <1>0, <2>1 DEF StopStages
 <2>3. run' \in [Runs -> RunStates] /\ \A r \in Runs : run'[r] = "off" BY <1>0, <2>1, <2>2 DEF RunStates
 <2>4. Writers' = Writers /\ RunsHolding(run') = RunsHolding(run) BY <2>1, <2>2, <2>3 DEF Writers, RunsHolding
 <2>5. Permits(run', Writers', used') BY <1>0, <2>1, <2>4 DEF Permits
 <2>6. permitLine' \in Seq(Runs) /\ Len(permitLine') = 0 BY <2>1, EmptySeq
 <2>7. InLine(permitLine', run') /\ NoIdlePermit' BY <2>1, <2>6 DEF InLine, NoIdlePermit
 <2>8. StopStages' /\ CutByDeletion' BY <1>0, <2>1, <2>3 DEF StopStages, CutByDeletion, ActiveCalls
 <2>9. DrainTypes' BY <1>0, <2>1, <2>3, <2>6 DEF DrainTypes
 <2> QED BY <2>5, <2>7, <2>8, <2>9 DEF DrainInv
<1>21. ASSUME UNCHANGED drainVars PROVE DrainInv'
 <2>1. StopStages' BY <1>0, <1>21 DEF drainVars, StopStages, ActiveCalls
 <2> QED BY <1>0, <1>15, <1>21, <2>1 DEF drainVars, DrainTypes
<1> QED
  BY <1>2, <1>3, <1>4, <1>5, <1>6, <1>8, <1>9, <1>10, <1>11, <1>12, <1>13, <1>14, <1>16, <1>17, <1>18, <1>19, <1>20, <1>21,
     <1>22 DEF DrainNext

\* The write permits of the file service (internal-admission.js #pump,
\* acquire, #remove) are neither lost nor left idle: those counted are
\* those held, never more than there are, and no run that may go on stands
\* in line while one is free. An ordinary stop (files-server.js
\* closeAdmission and drain, voxel-agent-server.js) lets every request it
\* had admitted finish, and has nothing left that could act when it answers.
THEOREM DrainsKeepTheirPromises == DrainSpec => []DrainPromises
<1>1. DrainInit => DrainInv
 <2> SUFFICES ASSUME DrainInit PROVE DrainInv OBVIOUS
 <2>1. DrainTypes
  <3>1. permitLine \in Seq(Runs) BY EmptySeq DEF DrainInit
  <3>2. used \in Nat /\ used <= Slots BY DrainAssumption DEF DrainInit
  <3>3. agentCall \in [AgentCalls -> CallStates] /\ run \in [Runs -> RunStates]
    BY DEF DrainInit, RunStates, CallStates
  <3> QED BY <3>1, <3>2, <3>3 DEF DrainInit, DrainTypes
 <2>2. permitLine = <<>> /\ Len(permitLine) = 0 BY EmptySeq DEF DrainInit
 <2>3. InLine(permitLine, run) /\ NoIdlePermit BY <2>2 DEF InLine, NoIdlePermit
 <2>4. RunsHolding(run) \cup Writers = {} /\ used = 0 BY DEF DrainInit, RunsHolding, Writers
 <2>5. Permits(run, Writers, used) BY <2>4, FS_EmptySet DEF Permits
 <2>6. StopStages /\ CutByDeletion BY DEF DrainInit, StopStages, CutByDeletion, ActiveCalls
 <2> QED BY <2>1, <2>3, <2>5, <2>6 DEF DrainInv
<1>2. DrainInv => DrainPromises
 <2> SUFFICES ASSUME DrainInv PROVE DrainPromises OBVIOUS
 <2>1. RunsHolding(run) \cup Writers
         = {r \in Runs : run[r] \in {"granted", "writing"}} \cup {c \in AgentCalls : agentCall[c] = "writing"}
   BY DEF RunsHolding, Writers
 <2>2. used = Cardinality(RunsHolding(run) \cup Writers) /\ used <= Slots /\ NoIdlePermit
   BY DEF DrainInv, Permits, DrainTypes
 <2>3. PermitsFlow BY <2>1, <2>2 DEF PermitsFlow, NoIdlePermit
 <2>4. AdmittedFinish BY DEF DrainInv, StopStages, CutByDeletion, AdmittedFinish
 <2> QED BY <2>3, <2>4 DEF DrainPromises
<1> QED BY <1>1, <1>2, DrainStep, PTL DEF DrainSpec

--------------------
\* McpSupervisor: there is never a second tool server, a server told ready
\* is live, and a stop that has resolved leaves nothing behind that runs
\* or could start a server, for any number of starts, stops, revivals and
\* failures.

One(b) == IF b THEN 1 ELSE 0

\* The parts of TypeOK that the argument needs.
McpTypes ==
    /\ state \in {"stopped", "starting", "ready", "unavailable"}
    /\ stopReq \in BOOLEAN /\ timer \in BOOLEAN /\ waiting \in BOOLEAN
    /\ stopping \in {"none", "attempt", "drain", "dying", "reap"}
    /\ attempt \in {"none", "log", "port", "orphans", "poll", "dying"}
    /\ kill \in {"none", "tree", "wait", "exited", "reap", "over"}
    /\ server \in [Servers -> McpServer]
    /\ workers \subseteq Servers /\ reaping \subseteq Servers

McpCounts ==
    /\ spawned \in Nat /\ starts \in Nat /\ revives \in Nat /\ faults \in Nat
    /\ starts <= MaxStarts /\ revives <= MaxRevives /\ faults <= MaxFaults

Spawning == attempt \in {"log", "port", "orphans"}

\* A start that has failed, or has lost its server, and will ask for a restart.
Failing == ~stopReq /\ (attempt = "dying" \/ (attempt = "poll" /\ child = 0))

\* Every server, and every one that may still come, was asked for by a start, a
\* revival or a fault.
Budget ==
    spawned + One(Spawning) + One(timer) + One(waiting) + One(Failing) <= starts + revives + faults

\* Only the last server may live, and then it is the child.
OnlyChild ==
    /\ child \in {0, spawned}
    /\ \A n \in Servers : Live(n) <=> n = child
    /\ \A n \in Servers : n <= spawned => Live(n) \/ ServerGone(n)
    /\ \A n \in Servers : Live(n) => ~server[n].reaped
    /\ \A n \in Servers : spawned < n => /\ ~server[n].ready /\ ~server[n].expected /\ ~server[n].reaped /\ ~server[n].signalled
                                         /\ n \notin workers /\ n \notin reaping

\* Where a server may be, by the stage of the start and of the stop.
Stages ==
    /\ Spawning => child = 0 /\ state = "starting"
    /\ attempt \in {"poll", "dying"} \/ stopping \in {"drain", "dying"} => spawned # 0
    /\ attempt \in {"poll", "dying"} => state = "starting"
    /\ attempt = "poll" => (child # 0 => ~server[child].ready /\ ~server[child].expected)
    /\ attempt = "none" /\ stopping \in {"none", "attempt", "drain"} /\ child # 0 =>
          state = "ready" /\ server[child].ready /\ ~server[child].expected
    /\ stopping \in {"drain", "dying", "reap"} => attempt = "none"
    /\ stopping = "reap" => child = 0

\* A server is being terminated by the failing start, or by the stop.
Kills ==
    /\ kill # "none" <=> attempt = "dying" \/ stopping = "dying"
    /\ kill # "none" => target = spawned /\ server[target].expected
    /\ kill \in {"exited", "reap", "over"} => ServerGone(target)
    /\ kill = "wait" => Live(target)
    /\ \A n \in Servers : server[n].signalled => server[n].expected
    /\ \A n \in Servers : Live(n) /\ server[n].expected => kill \in {"tree", "wait"} /\ target = n

\* A stop keeps everything else from starting, until it has resolved.
Stops ==
    /\ stopping # "none" => stopReq
    /\ stopReq => ~timer
    /\ stopReq /\ stopping = "none" => attempt = "none" /\ child = 0 /\ workers = {}
    /\ waiting => stopping # "none"

\* Somebody will reap the workers of a server that is gone.
Reaped ==
    \A n \in workers : \/ Live(n) \/ n \in reaping
                       \/ target = n /\ (kill = "reap" \/ (kill \in {"tree", "exited"} /\ ~server[n].reaped))

\* The restart timer is set by a start that is over.
Timed == timer => state = "starting" /\ attempt = "none"

\* "ready" was told of the child.
ReadyTold == state = "ready" /\ stopping = "none" => child # 0

McpInv ==
    /\ McpTypes /\ McpCounts /\ Budget /\ OnlyChild /\ Stages /\ Kills
    /\ Stops /\ Reaped /\ Timed /\ ReadyTold

--------------------
\* The servers are numbers, and there is one left for every start under way.
LEMMA ServerNumbers ==
  /\ 0 \notin Servers
  /\ \A n \in Servers : n \in Nat /\ n > 0
<1>1. MaxStarts + MaxRevives + MaxFaults \in Nat BY McpAssumption
<1> QED BY <1>1 DEF Servers

\* One field of a server's record changes.
LEMMA ServerFields ==
  ASSUME NEW n \in Servers, NEW s \in [Servers -> McpServer]
  PROVE  /\ [s EXCEPT ![n].expected = TRUE] \in [Servers -> McpServer]
         /\ [s EXCEPT ![n].ready = TRUE] \in [Servers -> McpServer]
         /\ [s EXCEPT ![n].reaped = TRUE] \in [Servers -> McpServer]
         /\ [s EXCEPT ![n].signalled = TRUE] \in [Servers -> McpServer]
         /\ [s EXCEPT ![n].status = "live"] \in [Servers -> McpServer]
         /\ [s EXCEPT ![n].status = "gone"] \in [Servers -> McpServer]
         /\ [s EXCEPT ![n].status = "gone", ![n].reaped = TRUE] \in [Servers -> McpServer]
<1>1. ASSUME NEW v \in McpServer
      PROVE  /\ [v EXCEPT !.expected = TRUE] \in McpServer
             /\ [v EXCEPT !.ready = TRUE] \in McpServer
             /\ [v EXCEPT !.reaped = TRUE] \in McpServer
             /\ [v EXCEPT !.signalled = TRUE] \in McpServer
             /\ [v EXCEPT !.status = "live"] \in McpServer
             /\ [v EXCEPT !.status = "gone"] \in McpServer
             /\ [v EXCEPT !.status = "gone", !.reaped = TRUE] \in McpServer BY DEF McpServer
<1>2. s[n] \in McpServer OBVIOUS
<1>3. ASSUME NEW v \in McpServer PROVE [s EXCEPT ![n] = v] \in [Servers -> McpServer] OBVIOUS
<1> QED BY <1>1, <1>2, <1>3

LEMMA SpawnFits ==
  ASSUME McpCounts, Budget
  PROVE  /\ spawned # 0 => spawned \in Servers
         /\ Spawning => spawned + 1 \in Servers
<1>1. One(timer) \in Nat /\ One(waiting) \in Nat /\ One(Failing) \in Nat /\ One(Spawning) \in Nat BY DEF One
<1>2. spawned + One(Spawning) <= MaxStarts + MaxRevives + MaxFaults BY <1>1, McpAssumption DEF McpCounts, Budget
<1>3. spawned \in Nat /\ MaxStarts + MaxRevives + MaxFaults \in Nat BY McpAssumption DEF McpCounts
<1>4. CASE Spawning BY <1>2, <1>3, <1>4 DEF One, Servers
<1>5. CASE ~Spawning BY <1>2, <1>3, <1>5 DEF One, Servers
<1> QED BY <1>4, <1>5

LEMMA StartKeeps == McpInv /\ StartMcp => McpInv'
<1> SUFFICES ASSUME McpInv, StartMcp PROVE McpInv' OBVIOUS
<1> USE ServerNumbers, McpAssumption DEF Live, ServerGone, callVars, killVars, McpInv
<1>a. /\ spawned # 0 => spawned \in Servers
      /\ Spawning => spawned + 1 \in Servers BY SpawnFits
<1>1. McpTypes'
  BY <1>a, ServerFields DEF McpTypes, OnlyChild, Stages, Kills, StartMcp, StartOrJoin, NothingToStart, Launch
<1>2. McpCounts' BY <1>a DEF McpCounts, Spawning, StartMcp, StartOrJoin, NothingToStart, Launch
<1>3. Budget'
  BY <1>a DEF Budget, One, Spawning, Failing, McpTypes, McpCounts, Stages, Stops, Timed, Kills, StartMcp, StartOrJoin,
     NothingToStart, Launch
<1>4. OnlyChild'
  BY <1>a DEF OnlyChild, McpTypes, McpCounts, McpServer, Spawning, Kills, StartMcp, StartOrJoin, NothingToStart,
     Launch
<1>5. Stages'
  BY <1>a DEF Stages, McpTypes, McpServer, OnlyChild, Spawning, Kills, Stops, Timed, StartMcp, StartOrJoin,
     NothingToStart, Launch
<1>6. Kills'
  BY <1>a DEF Kills, McpTypes, McpServer, OnlyChild, Stages, Spawning, Stops, StartMcp, StartOrJoin, NothingToStart,
     Launch
<1>7. Stops'
  BY <1>a DEF Stops, McpTypes, McpServer, OnlyChild, Stages, Kills, Reaped, Timed, Spawning, StartMcp, StartOrJoin,
     NothingToStart, Launch
<1>8. Reaped'
  BY <1>a DEF Reaped, McpTypes, McpServer, OnlyChild, Stages, Kills, Stops, Spawning, StartMcp, StartOrJoin,
     NothingToStart, Launch
<1>9. Timed'
  BY <1>a DEF Timed, McpTypes, Stages, Stops, Kills, Spawning, StartMcp, StartOrJoin, NothingToStart, Launch
<1>10. ReadyTold'
  BY <1>a DEF ReadyTold, McpTypes, Stages, Stops, Kills, OnlyChild, Timed, StartMcp, StartOrJoin, NothingToStart,
     Launch
<1> QED BY <1>1, <1>2, <1>3, <1>4, <1>5, <1>6, <1>7, <1>8, <1>9, <1>10

LEMMA ReviveKeeps == McpInv /\ Revive => McpInv'
<1> SUFFICES ASSUME McpInv, Revive PROVE McpInv' OBVIOUS
<1> USE ServerNumbers, McpAssumption DEF Live, ServerGone, callVars, killVars, McpInv
<1>a. /\ spawned # 0 => spawned \in Servers
      /\ Spawning => spawned + 1 \in Servers BY SpawnFits
<1>1. McpTypes'
  BY <1>a, ServerFields DEF McpTypes, OnlyChild, Stages, Kills, Revive, StartOrJoin, NothingToStart, Launch
<1>2. McpCounts' BY <1>a DEF McpCounts, Spawning, Revive, StartOrJoin, NothingToStart, Launch
<1>3. Budget'
  BY <1>a DEF Budget, One, Spawning, Failing, McpTypes, McpCounts, Stages, Stops, Timed, Kills, Revive, StartOrJoin,
     NothingToStart, Launch
<1>4. OnlyChild'
  BY <1>a DEF OnlyChild, McpTypes, McpCounts, McpServer, Spawning, Kills, Revive, StartOrJoin, NothingToStart, Launch
<1>5. Stages' BY <1>a DEF Stages, McpTypes, McpServer, OnlyChild, Spawning, Kills, Stops, Timed, Revive, StartOrJoin,
     NothingToStart, Launch
<1>6. Kills'
  BY <1>a DEF Kills, McpTypes, McpServer, OnlyChild, Stages, Spawning, Stops, Revive, StartOrJoin, NothingToStart,
     Launch
<1>7. Stops'
  BY <1>a DEF Stops, McpTypes, McpServer, OnlyChild, Stages, Kills, Reaped, Timed, Spawning, Revive, StartOrJoin,
     NothingToStart, Launch
<1>8. Reaped' BY <1>a DEF Reaped, McpTypes, McpServer, OnlyChild, Stages, Kills, Stops, Spawning, Revive, StartOrJoin,
     NothingToStart, Launch
<1>9. Timed' BY <1>a DEF Timed, McpTypes, Stages, Stops, Kills, Spawning, Revive, StartOrJoin, NothingToStart, Launch
<1>10. ReadyTold'
  BY <1>a DEF ReadyTold, McpTypes, Stages, Stops, Kills, OnlyChild, Timed, Revive, StartOrJoin, NothingToStart, Launch
<1> QED BY <1>1, <1>2, <1>3, <1>4, <1>5, <1>6, <1>7, <1>8, <1>9, <1>10

LEMMA TimerFiresKeeps == McpInv /\ TimerFires => McpInv'
<1> SUFFICES ASSUME McpInv, TimerFires PROVE McpInv' OBVIOUS
<1> USE ServerNumbers, McpAssumption DEF Live, ServerGone, callVars, killVars, McpInv
<1>a. /\ spawned # 0 => spawned \in Servers
      /\ Spawning => spawned + 1 \in Servers BY SpawnFits
<1>1. McpTypes' BY <1>a, ServerFields DEF McpTypes, OnlyChild, Stages, Kills, TimerFires, Launch
<1>2. McpCounts' BY <1>a DEF McpCounts, Spawning, TimerFires, Launch
<1>3. Budget'
  BY <1>a DEF Budget, One, Spawning, Failing, McpTypes, McpCounts, Stages, Stops, Timed, Kills, TimerFires, Launch
<1>4. OnlyChild' BY <1>a DEF OnlyChild, McpTypes, McpCounts, McpServer, Spawning, Kills, TimerFires, Launch
<1>5. Stages' BY <1>a DEF Stages, McpTypes, McpServer, OnlyChild, Spawning, Kills, Stops, Timed, TimerFires, Launch
<1>6. Kills' BY <1>a DEF Kills, McpTypes, McpServer, OnlyChild, Stages, Spawning, Stops, TimerFires, Launch
<1>7. Stops'
  BY <1>a DEF Stops, McpTypes, McpServer, OnlyChild, Stages, Kills, Reaped, Timed, Spawning, TimerFires, Launch
<1>8. Reaped' BY <1>a DEF Reaped, McpTypes, McpServer, OnlyChild, Stages, Kills, Stops, Spawning, TimerFires, Launch
<1>9. Timed' BY <1>a DEF Timed, McpTypes, Stages, Stops, Kills, Spawning, TimerFires, Launch
<1>10. ReadyTold' BY <1>a DEF ReadyTold, McpTypes, Stages, Stops, Kills, OnlyChild, Timed, TimerFires, Launch
<1> QED BY <1>1, <1>2, <1>3, <1>4, <1>5, <1>6, <1>7, <1>8, <1>9, <1>10

LEMMA LogOpenedKeeps == McpInv /\ LogOpened => McpInv'
<1> SUFFICES ASSUME McpInv, LogOpened PROVE McpInv' OBVIOUS
<1> USE ServerNumbers, McpAssumption DEF Live, ServerGone, callVars, killVars, McpInv
<1>a. /\ spawned # 0 => spawned \in Servers
      /\ Spawning => spawned + 1 \in Servers BY SpawnFits
<1>1. McpTypes' BY <1>a, ServerFields DEF McpTypes, OnlyChild, Stages, Kills, LogOpened, AttemptFails, ScheduleRestart
<1>2. McpCounts' BY <1>a DEF McpCounts, Spawning, LogOpened, AttemptFails, ScheduleRestart
<1>3. Budget' BY <1>a DEF Budget, One, Spawning, Failing, McpTypes, McpCounts, Stages, Stops, Timed, Kills, LogOpened,
     AttemptFails, ScheduleRestart
<1>4. OnlyChild'
  BY <1>a DEF OnlyChild, McpTypes, McpCounts, McpServer, Spawning, Kills, LogOpened, AttemptFails, ScheduleRestart
<1>5. Stages'
  BY <1>a DEF Stages, McpTypes, McpServer, OnlyChild, Spawning, Kills, Stops, Timed, LogOpened, AttemptFails,
     ScheduleRestart
<1>6. Kills'
  BY <1>a DEF Kills, McpTypes, McpServer, OnlyChild, Stages, Spawning, Stops, LogOpened, AttemptFails, ScheduleRestart
<1>7. Stops'
  BY <1>a DEF Stops, McpTypes, McpServer, OnlyChild, Stages, Kills, Reaped, Timed, Spawning, LogOpened, AttemptFails,
     ScheduleRestart
<1>8. Reaped'
  BY <1>a DEF Reaped, McpTypes, McpServer, OnlyChild, Stages, Kills, Stops, Spawning, LogOpened, AttemptFails,
     ScheduleRestart
<1>9. Timed' BY <1>a DEF Timed, McpTypes, Stages, Stops, Kills, Spawning, LogOpened, AttemptFails, ScheduleRestart
<1>10. ReadyTold'
  BY <1>a DEF ReadyTold, McpTypes, Stages, Stops, Kills, OnlyChild, Timed, LogOpened, AttemptFails, ScheduleRestart
<1> QED BY <1>1, <1>2, <1>3, <1>4, <1>5, <1>6, <1>7, <1>8, <1>9, <1>10

LEMMA SpawnFailsKeeps == McpInv /\ SpawnFails => McpInv'
<1> SUFFICES ASSUME McpInv, SpawnFails PROVE McpInv' OBVIOUS
<1> USE ServerNumbers, McpAssumption DEF Live, ServerGone, callVars, killVars, McpInv
<1>a. /\ spawned # 0 => spawned \in Servers
      /\ Spawning => spawned + 1 \in Servers BY SpawnFits
<1>1. McpTypes'
  BY <1>a, ServerFields DEF McpTypes, OnlyChild, Stages, Kills, SpawnFails, Fault, AttemptFails, ScheduleRestart
<1>2. McpCounts' BY <1>a DEF McpCounts, Spawning, SpawnFails, Fault, AttemptFails, ScheduleRestart
<1>3. Budget'
  BY <1>a DEF Budget, One, Spawning, Failing, McpTypes, McpCounts, Stages, Stops, Timed, Kills, SpawnFails, Fault,
     AttemptFails, ScheduleRestart
<1>4. OnlyChild'
  BY <1>a DEF OnlyChild, McpTypes, McpCounts, McpServer, Spawning, Kills, SpawnFails, Fault, AttemptFails,
     ScheduleRestart
<1>5. Stages'
  BY <1>a DEF Stages, McpTypes, McpServer, OnlyChild, Spawning, Kills, Stops, Timed, SpawnFails, Fault, AttemptFails,
     ScheduleRestart
<1>6. Kills'
  BY <1>a DEF Kills, McpTypes, McpServer, OnlyChild, Stages, Spawning, Stops, SpawnFails, Fault, AttemptFails,
     ScheduleRestart
<1>7. Stops'
  BY <1>a DEF Stops, McpTypes, McpServer, OnlyChild, Stages, Kills, Reaped, Timed, Spawning, SpawnFails, Fault,
     AttemptFails, ScheduleRestart
<1>8. Reaped'
  BY <1>a DEF Reaped, McpTypes, McpServer, OnlyChild, Stages, Kills, Stops, Spawning, SpawnFails, Fault, AttemptFails,
     ScheduleRestart
<1>9. Timed'
  BY <1>a DEF Timed, McpTypes, Stages, Stops, Kills, Spawning, SpawnFails, Fault, AttemptFails, ScheduleRestart
<1>10. ReadyTold'
  BY <1>a DEF ReadyTold, McpTypes, Stages, Stops, Kills, OnlyChild, Timed, SpawnFails, Fault, AttemptFails,
     ScheduleRestart
<1> QED BY <1>1, <1>2, <1>3, <1>4, <1>5, <1>6, <1>7, <1>8, <1>9, <1>10

LEMMA ReadyKeeps == McpInv /\ Ready => McpInv'
<1> SUFFICES ASSUME McpInv, Ready PROVE McpInv' OBVIOUS
<1> USE ServerNumbers, McpAssumption DEF Live, ServerGone, callVars, killVars, McpInv
<1>a. /\ spawned # 0 => spawned \in Servers
      /\ Spawning => spawned + 1 \in Servers BY SpawnFits
<1>1. McpTypes' BY <1>a, ServerFields DEF McpTypes, OnlyChild, Stages, Kills, Ready
<1>2. McpCounts' BY <1>a DEF McpCounts, Spawning, Ready
<1>3. Budget' BY <1>a DEF Budget, One, Spawning, Failing, McpTypes, McpCounts, Stages, Stops, Timed, Kills, Ready
<1>4. OnlyChild' BY <1>a DEF OnlyChild, McpTypes, McpCounts, McpServer, Spawning, Kills, Ready
<1>5. Stages' BY <1>a DEF Stages, McpTypes, McpServer, OnlyChild, Spawning, Kills, Stops, Timed, Ready
<1>6. Kills' BY <1>a DEF Kills, McpTypes, McpServer, OnlyChild, Stages, Spawning, Stops, Ready
<1>7. Stops' BY <1>a DEF Stops, McpTypes, McpServer, OnlyChild, Stages, Kills, Reaped, Timed, Spawning, Ready
<1>8. Reaped' BY <1>a DEF Reaped, McpTypes, McpServer, OnlyChild, Stages, Kills, Stops, Spawning, Ready
<1>9. Timed' BY <1>a DEF Timed, McpTypes, Stages, Stops, Kills, Spawning, Ready
<1>10. ReadyTold' BY <1>a DEF ReadyTold, McpTypes, Stages, Stops, Kills, OnlyChild, Timed, Ready
<1> QED BY <1>1, <1>2, <1>3, <1>4, <1>5, <1>6, <1>7, <1>8, <1>9, <1>10

LEMMA PollFailsKeeps == McpInv /\ PollFails => McpInv'
<1> SUFFICES ASSUME McpInv, PollFails PROVE McpInv' OBVIOUS
<1> USE ServerNumbers, McpAssumption DEF Live, ServerGone, callVars, killVars, McpInv
<1>a. /\ spawned # 0 => spawned \in Servers
      /\ Spawning => spawned + 1 \in Servers BY SpawnFits
<1>1. McpTypes' BY <1>a, ServerFields DEF McpTypes, OnlyChild, Stages, Kills, PollFails, Fault, Terminate
<1>2. McpCounts' BY <1>a DEF McpCounts, Spawning, PollFails, Fault, Terminate
<1>3. Budget'
  BY <1>a DEF Budget, One, Spawning, Failing, McpTypes, McpCounts, Stages, Stops, Timed, Kills, PollFails, Fault,
     Terminate
<1>4. OnlyChild' BY <1>a DEF OnlyChild, McpTypes, McpCounts, McpServer, Spawning, Kills, PollFails, Fault, Terminate
<1>5. Stages'
  BY <1>a DEF Stages, McpTypes, McpServer, OnlyChild, Spawning, Kills, Stops, Timed, PollFails, Fault, Terminate
<1>6. Kills' BY <1>a DEF Kills, McpTypes, McpServer, OnlyChild, Stages, Spawning, Stops, PollFails, Fault, Terminate
<1>7. Stops'
  BY <1>a DEF Stops, McpTypes, McpServer, OnlyChild, Stages, Kills, Reaped, Timed, Spawning, PollFails, Fault,
     Terminate
<1>8. Reaped'
  BY <1>a DEF Reaped, McpTypes, McpServer, OnlyChild, Stages, Kills, Stops, Spawning, PollFails, Fault, Terminate
<1>9. Timed' BY <1>a DEF Timed, McpTypes, Stages, Stops, Kills, Spawning, PollFails, Fault, Terminate
<1>10. ReadyTold' BY <1>a DEF ReadyTold, McpTypes, Stages, Stops, Kills, OnlyChild, Timed, PollFails, Fault, Terminate
<1> QED BY <1>1, <1>2, <1>3, <1>4, <1>5, <1>6, <1>7, <1>8, <1>9, <1>10

LEMMA AttemptDeadKeeps == McpInv /\ AttemptDead => McpInv'
<1> SUFFICES ASSUME McpInv, AttemptDead PROVE McpInv' OBVIOUS
<1> USE ServerNumbers, McpAssumption DEF Live, ServerGone, callVars, killVars, McpInv
<1>a. /\ spawned # 0 => spawned \in Servers
      /\ Spawning => spawned + 1 \in Servers BY SpawnFits
<1>1. McpTypes'
  BY <1>a, ServerFields DEF McpTypes, OnlyChild, Stages, Kills, AttemptDead, AttemptFails, ScheduleRestart
<1>2. McpCounts' BY <1>a DEF McpCounts, Spawning, AttemptDead, AttemptFails, ScheduleRestart
<1>3. Budget'
  BY <1>a DEF Budget, One, Spawning, Failing, McpTypes, McpCounts, Stages, Stops, Timed, Kills, AttemptDead,
     AttemptFails, ScheduleRestart
<1>4. OnlyChild'
  BY <1>a DEF OnlyChild, McpTypes, McpCounts, McpServer, Spawning, Kills, AttemptDead, AttemptFails, ScheduleRestart
<1>5. Stages'
  BY <1>a DEF Stages, McpTypes, McpServer, OnlyChild, Spawning, Kills, Stops, Timed, AttemptDead, AttemptFails,
     ScheduleRestart
<1>6. Kills' BY <1>a DEF Kills, McpTypes, McpServer, OnlyChild, Stages, Spawning, Stops, AttemptDead, AttemptFails,
     ScheduleRestart
<1>7. Stops' BY <1>a DEF Stops, McpTypes, McpServer, OnlyChild, Stages, Kills, Reaped, Timed, Spawning, AttemptDead,
     AttemptFails, ScheduleRestart
<1>8. Reaped'
  BY <1>a DEF Reaped, McpTypes, McpServer, OnlyChild, Stages, Kills, Stops, Spawning, AttemptDead, AttemptFails,
     ScheduleRestart
<1>9. Timed' BY <1>a DEF Timed, McpTypes, Stages, Stops, Kills, Spawning, AttemptDead, AttemptFails, ScheduleRestart
<1>10. ReadyTold'
  BY <1>a DEF ReadyTold, McpTypes, Stages, Stops, Kills, OnlyChild, Timed, AttemptDead, AttemptFails, ScheduleRestart
<1> QED BY <1>1, <1>2, <1>3, <1>4, <1>5, <1>6, <1>7, <1>8, <1>9, <1>10

LEMMA KillSignalKeeps == McpInv /\ KillSignal => McpInv'
<1> SUFFICES ASSUME McpInv, KillSignal PROVE McpInv' OBVIOUS
<1> USE ServerNumbers, McpAssumption DEF Live, ServerGone, callVars, killVars, McpInv
<1>a. /\ spawned # 0 => spawned \in Servers
      /\ Spawning => spawned + 1 \in Servers BY SpawnFits
<1>1. McpTypes'
 <2>1. target \in Servers BY <1>a DEF KillSignal, Kills, Stages
 <2>2. server' \in {server, [server EXCEPT ![target].signalled = TRUE]} /\ kill' \in {"exited", "wait"}
   BY DEF KillSignal
 <2>3. server' \in [Servers -> McpServer]
  <3>1. server \in [Servers -> McpServer] /\ [server EXCEPT ![target].signalled = TRUE] \in [Servers -> McpServer]
    BY <2>1, ServerFields DEF McpTypes
  <3> QED BY <2>2, <3>1
 <2> QED BY <2>2, <2>3 DEF McpTypes, KillSignal
<1>2. McpCounts' BY <1>a DEF McpCounts, Spawning, KillSignal, ExitedMeanwhile
<1>3. Budget'
  BY <1>a DEF Budget, One, Spawning, Failing, McpTypes, McpCounts, Stages, Stops, Timed, Kills, KillSignal,
     ExitedMeanwhile
<1>4. OnlyChild' BY <1>a DEF OnlyChild, McpTypes, McpCounts, McpServer, Spawning, Kills, KillSignal, ExitedMeanwhile
<1>5. Stages'
  BY <1>a DEF Stages, McpTypes, McpServer, OnlyChild, Spawning, Kills, Stops, Timed, KillSignal, ExitedMeanwhile
<1>6. Kills' BY <1>a DEF Kills, McpTypes, McpServer, OnlyChild, Stages, Spawning, Stops, KillSignal, ExitedMeanwhile
<1>7. Stops' BY <1>a DEF Stops, McpTypes, McpServer, OnlyChild, Stages, Kills, Reaped, Timed, Spawning, KillSignal,
     ExitedMeanwhile
<1>8. Reaped'
  BY <1>a DEF Reaped, McpTypes, McpServer, OnlyChild, Stages, Kills, Stops, Spawning, KillSignal, ExitedMeanwhile
<1>9. Timed' BY <1>a DEF Timed, McpTypes, Stages, Stops, Kills, Spawning, KillSignal, ExitedMeanwhile
<1>10. ReadyTold' BY <1>a DEF ReadyTold, McpTypes, Stages, Stops, Kills, OnlyChild, Timed, KillSignal, ExitedMeanwhile
<1> QED BY <1>1, <1>2, <1>3, <1>4, <1>5, <1>6, <1>7, <1>8, <1>9, <1>10

LEMMA KillExitedKeeps == McpInv /\ KillExited => McpInv'
<1> SUFFICES ASSUME McpInv, KillExited PROVE McpInv' OBVIOUS
<1> USE ServerNumbers, McpAssumption DEF Live, ServerGone, callVars, killVars, McpInv
<1>a. /\ spawned # 0 => spawned \in Servers
      /\ Spawning => spawned + 1 \in Servers BY SpawnFits
<1>1. McpTypes' BY <1>a, ServerFields DEF McpTypes, OnlyChild, Stages, Kills, KillExited
<1>2. McpCounts' BY <1>a DEF McpCounts, Spawning, KillExited
<1>3. Budget' BY <1>a DEF Budget, One, Spawning, Failing, McpTypes, McpCounts, Stages, Stops, Timed, Kills, KillExited
<1>4. OnlyChild' BY <1>a DEF OnlyChild, McpTypes, McpCounts, McpServer, Spawning, Kills, KillExited
<1>5. Stages' BY <1>a DEF Stages, McpTypes, McpServer, OnlyChild, Spawning, Kills, Stops, Timed, KillExited
<1>6. Kills' BY <1>a DEF Kills, McpTypes, McpServer, OnlyChild, Stages, Spawning, Stops, KillExited
<1>7. Stops' BY <1>a DEF Stops, McpTypes, McpServer, OnlyChild, Stages, Kills, Reaped, Timed, Spawning, KillExited
<1>8. Reaped' BY <1>a DEF Reaped, McpTypes, McpServer, OnlyChild, Stages, Kills, Stops, Spawning, KillExited
<1>9. Timed' BY <1>a DEF Timed, McpTypes, Stages, Stops, Kills, Spawning, KillExited
<1>10. ReadyTold' BY <1>a DEF ReadyTold, McpTypes, Stages, Stops, Kills, OnlyChild, Timed, KillExited
<1> QED BY <1>1, <1>2, <1>3, <1>4, <1>5, <1>6, <1>7, <1>8, <1>9, <1>10

LEMMA KillReapedKeeps == McpInv /\ KillReaped => McpInv'
<1> SUFFICES ASSUME McpInv, KillReaped PROVE McpInv' OBVIOUS
<1> USE ServerNumbers, McpAssumption DEF Live, ServerGone, callVars, killVars, McpInv
<1>a. /\ spawned # 0 => spawned \in Servers
      /\ Spawning => spawned + 1 \in Servers BY SpawnFits
<1>1. McpTypes' BY <1>a, ServerFields DEF McpTypes, OnlyChild, Stages, Kills, KillReaped
<1>2. McpCounts' BY <1>a DEF McpCounts, Spawning, KillReaped
<1>3. Budget' BY <1>a DEF Budget, One, Spawning, Failing, McpTypes, McpCounts, Stages, Stops, Timed, Kills, KillReaped
<1>4. OnlyChild' BY <1>a DEF OnlyChild, McpTypes, McpCounts, McpServer, Spawning, Kills, KillReaped
<1>5. Stages' BY <1>a DEF Stages, McpTypes, McpServer, OnlyChild, Spawning, Kills, Stops, Timed, KillReaped
<1>6. Kills' BY <1>a DEF Kills, McpTypes, McpServer, OnlyChild, Stages, Spawning, Stops, KillReaped
<1>7. Stops' BY <1>a DEF Stops, McpTypes, McpServer, OnlyChild, Stages, Kills, Reaped, Timed, Spawning, KillReaped
<1>8. Reaped' BY <1>a DEF Reaped, McpTypes, McpServer, OnlyChild, Stages, Kills, Stops, Spawning, KillReaped
<1>9. Timed' BY <1>a DEF Timed, McpTypes, Stages, Stops, Kills, Spawning, KillReaped
<1>10. ReadyTold' BY <1>a DEF ReadyTold, McpTypes, Stages, Stops, Kills, OnlyChild, Timed, KillReaped
<1> QED BY <1>1, <1>2, <1>3, <1>4, <1>5, <1>6, <1>7, <1>8, <1>9, <1>10

LEMMA StopKeeps == McpInv /\ StopMcp => McpInv'
<1> SUFFICES ASSUME McpInv, StopMcp PROVE McpInv' OBVIOUS
<1> USE ServerNumbers, McpAssumption DEF Live, ServerGone, callVars, killVars, McpInv
<1>a. /\ spawned # 0 => spawned \in Servers
      /\ Spawning => spawned + 1 \in Servers BY SpawnFits
<1>1. McpTypes'
 <2>1. child \in Servers \/ child = 0 BY <1>a DEF OnlyChild
 <2>2. /\ server' = server \/ (child # 0 /\ server' = [server EXCEPT ![child].expected = TRUE])
       /\ kill' \in {kill, "exited", "tree"}
       /\ stopping' \in {stopping, "attempt", "reap", "drain", "dying"} BY DEF StopMcp, StopServer, Terminate
 <2>3. server' \in [Servers -> McpServer] /\ kill' \in {"none", "tree", "wait", "exited", "reap", "over"}
  <3>1. server \in [Servers -> McpServer] /\ kill \in {"none", "tree", "wait", "exited", "reap", "over"}
    BY DEF McpTypes
  <3>2. child # 0 => [server EXCEPT ![child].expected = TRUE] \in [Servers -> McpServer] BY <2>1, <3>1, ServerFields
  <3>3. server' \in [Servers -> McpServer] BY <2>2, <3>1, <3>2
  <3> QED BY <2>2, <3>1, <3>3
 <2>4. stopping' \in {"none", "attempt", "drain", "dying", "reap"} /\ stopReq' \in BOOLEAN /\ timer' \in BOOLEAN
   BY <2>2 DEF McpTypes, StopMcp
 <2> QED BY <2>3, <2>4 DEF McpTypes, StopMcp
<1>2. McpCounts' BY <1>a DEF McpCounts, Spawning, StopMcp, StartInFlight, StopServer, Terminate
<1>3. Budget' BY <1>a DEF Budget, One, Spawning, Failing, McpTypes, McpCounts, Stages, Stops, Timed, Kills, StopMcp,
     StartInFlight, StopServer, Terminate
<1>4. OnlyChild'
  BY <1>a DEF OnlyChild, McpTypes, McpCounts, McpServer, Spawning, Kills, StopMcp, StartInFlight, StopServer,
     Terminate
<1>5. Stages'
  BY <1>a DEF Stages, McpTypes, McpServer, OnlyChild, Spawning, Kills, Stops, Timed, StopMcp, StartInFlight,
     StopServer, Terminate
<1>6. Kills'
  BY <1>a DEF Kills, McpTypes, McpServer, OnlyChild, Stages, Spawning, Stops, StopMcp, StartInFlight, StopServer,
     Terminate
<1>7. Stops'
  BY <1>a DEF Stops, McpTypes, McpServer, OnlyChild, Stages, Kills, Reaped, Timed, Spawning, StopMcp, StartInFlight,
     StopServer, Terminate
<1>8. Reaped'
  BY <1>a DEF Reaped, McpTypes, McpServer, OnlyChild, Stages, Kills, Stops, Spawning, StopMcp, StartInFlight,
     StopServer, Terminate
<1>9. Timed'
  BY <1>a DEF Timed, McpTypes, Stages, Stops, Kills, Spawning, StopMcp, StartInFlight, StopServer, Terminate
<1>10. ReadyTold'
  BY <1>a DEF ReadyTold, McpTypes, Stages, Stops, Kills, OnlyChild, Timed, StopMcp, StartInFlight, StopServer,
     Terminate
<1> QED BY <1>1, <1>2, <1>3, <1>4, <1>5, <1>6, <1>7, <1>8, <1>9, <1>10

LEMMA StopAfterAttemptKeeps == McpInv /\ StopAfterAttempt => McpInv'
<1> SUFFICES ASSUME McpInv, StopAfterAttempt PROVE McpInv' OBVIOUS
<1> USE ServerNumbers, McpAssumption DEF Live, ServerGone, callVars, killVars, McpInv
<1>a. /\ spawned # 0 => spawned \in Servers
      /\ Spawning => spawned + 1 \in Servers BY SpawnFits
<1>1. McpTypes'
 <2>1. child \in Servers \/ child = 0 BY <1>a DEF OnlyChild
 <2>2. /\ server' = server \/ (child # 0 /\ server' = [server EXCEPT ![child].expected = TRUE])
       /\ kill' \in {kill, "exited", "tree"}
       /\ stopping' \in {stopping, "attempt", "reap", "drain", "dying"} BY DEF StopAfterAttempt, StopServer, Terminate
 <2>3. server' \in [Servers -> McpServer] /\ kill' \in {"none", "tree", "wait", "exited", "reap", "over"}
  <3>1. server \in [Servers -> McpServer] /\ kill \in {"none", "tree", "wait", "exited", "reap", "over"}
    BY DEF McpTypes
  <3>2. child # 0 => [server EXCEPT ![child].expected = TRUE] \in [Servers -> McpServer] BY <2>1, <3>1, ServerFields
  <3>3. server' \in [Servers -> McpServer] BY <2>2, <3>1, <3>2
  <3> QED BY <2>2, <3>1, <3>3
 <2>4. stopping' \in {"none", "attempt", "drain", "dying", "reap"} /\ stopReq' \in BOOLEAN /\ timer' \in BOOLEAN
   BY <2>2 DEF McpTypes, StopAfterAttempt
 <2> QED BY <2>3, <2>4 DEF McpTypes, StopAfterAttempt
<1>2. McpCounts' BY <1>a DEF McpCounts, Spawning, StopAfterAttempt, StopServer, Terminate
<1>3. Budget'
  BY <1>a DEF Budget, One, Spawning, Failing, McpTypes, McpCounts, Stages, Stops, Timed, Kills, StopAfterAttempt,
     StopServer, Terminate
<1>4. OnlyChild'
  BY <1>a DEF OnlyChild, McpTypes, McpCounts, McpServer, Spawning, Kills, StopAfterAttempt, StopServer, Terminate
<1>5. Stages'
  BY <1>a DEF Stages, McpTypes, McpServer, OnlyChild, Spawning, Kills, Stops, Timed, StopAfterAttempt, StopServer,
     Terminate
<1>6. Kills'
  BY <1>a DEF Kills, McpTypes, McpServer, OnlyChild, Stages, Spawning, Stops, StopAfterAttempt, StopServer, Terminate
<1>7. Stops'
  BY <1>a DEF Stops, McpTypes, McpServer, OnlyChild, Stages, Kills, Reaped, Timed, Spawning, StopAfterAttempt,
     StopServer, Terminate
<1>8. Reaped'
  BY <1>a DEF Reaped, McpTypes, McpServer, OnlyChild, Stages, Kills, Stops, Spawning, StopAfterAttempt, StopServer,
     Terminate
<1>9. Timed' BY <1>a DEF Timed, McpTypes, Stages, Stops, Kills, Spawning, StopAfterAttempt, StopServer, Terminate
<1>10. ReadyTold'
  BY <1>a DEF ReadyTold, McpTypes, Stages, Stops, Kills, OnlyChild, Timed, StopAfterAttempt, StopServer, Terminate
<1> QED BY <1>1, <1>2, <1>3, <1>4, <1>5, <1>6, <1>7, <1>8, <1>9, <1>10

LEMMA StopDrainedKeeps == McpInv /\ StopDrained => McpInv'
<1> SUFFICES ASSUME McpInv, StopDrained PROVE McpInv' OBVIOUS
<1> USE ServerNumbers, McpAssumption DEF Live, ServerGone, callVars, killVars, McpInv
<1>a. /\ spawned # 0 => spawned \in Servers
      /\ Spawning => spawned + 1 \in Servers BY SpawnFits
<1>1. McpTypes' BY <1>a, ServerFields DEF McpTypes, OnlyChild, Stages, Kills, StopDrained, Terminate
<1>2. McpCounts' BY <1>a DEF McpCounts, Spawning, StopDrained, Terminate
<1>3. Budget'
  BY <1>a DEF Budget, One, Spawning, Failing, McpTypes, McpCounts, Stages, Stops, Timed, Kills, StopDrained, Terminate
<1>4. OnlyChild' BY <1>a DEF OnlyChild, McpTypes, McpCounts, McpServer, Spawning, Kills, StopDrained, Terminate
<1>5. Stages'
  BY <1>a DEF Stages, McpTypes, McpServer, OnlyChild, Spawning, Kills, Stops, Timed, StopDrained, Terminate
<1>6. Kills' BY <1>a DEF Kills, McpTypes, McpServer, OnlyChild, Stages, Spawning, Stops, StopDrained, Terminate
<1>7. Stops'
  BY <1>a DEF Stops, McpTypes, McpServer, OnlyChild, Stages, Kills, Reaped, Timed, Spawning, StopDrained, Terminate
<1>8. Reaped'
  BY <1>a DEF Reaped, McpTypes, McpServer, OnlyChild, Stages, Kills, Stops, Spawning, StopDrained, Terminate
<1>9. Timed' BY <1>a DEF Timed, McpTypes, Stages, Stops, Kills, Spawning, StopDrained, Terminate
<1>10. ReadyTold' BY <1>a DEF ReadyTold, McpTypes, Stages, Stops, Kills, OnlyChild, Timed, StopDrained, Terminate
<1> QED BY <1>1, <1>2, <1>3, <1>4, <1>5, <1>6, <1>7, <1>8, <1>9, <1>10

LEMMA StopDeadKeeps == McpInv /\ StopDead => McpInv'
<1> SUFFICES ASSUME McpInv, StopDead PROVE McpInv' OBVIOUS
<1> USE ServerNumbers, McpAssumption DEF Live, ServerGone, callVars, killVars, McpInv
<1>a. /\ spawned # 0 => spawned \in Servers
      /\ Spawning => spawned + 1 \in Servers BY SpawnFits
<1>1. McpTypes' BY <1>a, ServerFields DEF McpTypes, OnlyChild, Stages, Kills, StopDead
<1>2. McpCounts' BY <1>a DEF McpCounts, Spawning, StopDead
<1>3. Budget' BY <1>a DEF Budget, One, Spawning, Failing, McpTypes, McpCounts, Stages, Stops, Timed, Kills, StopDead
<1>4. OnlyChild' BY <1>a DEF OnlyChild, McpTypes, McpCounts, McpServer, Spawning, Kills, StopDead
<1>5. Stages' BY <1>a DEF Stages, McpTypes, McpServer, OnlyChild, Spawning, Kills, Stops, Timed, StopDead
<1>6. Kills' BY <1>a DEF Kills, McpTypes, McpServer, OnlyChild, Stages, Spawning, Stops, StopDead
<1>7. Stops' BY <1>a DEF Stops, McpTypes, McpServer, OnlyChild, Stages, Kills, Reaped, Timed, Spawning, StopDead
<1>8. Reaped' BY <1>a DEF Reaped, McpTypes, McpServer, OnlyChild, Stages, Kills, Stops, Spawning, StopDead
<1>9. Timed' BY <1>a DEF Timed, McpTypes, Stages, Stops, Kills, Spawning, StopDead
<1>10. ReadyTold' BY <1>a DEF ReadyTold, McpTypes, Stages, Stops, Kills, OnlyChild, Timed, StopDead
<1> QED BY <1>1, <1>2, <1>3, <1>4, <1>5, <1>6, <1>7, <1>8, <1>9, <1>10

LEMMA StopDoneKeeps == McpInv /\ StopDone => McpInv'
<1> SUFFICES ASSUME McpInv, StopDone PROVE McpInv' OBVIOUS
<1> USE ServerNumbers, McpAssumption DEF Live, ServerGone, callVars, killVars, McpInv
<1>a. /\ spawned # 0 => spawned \in Servers
      /\ Spawning => spawned + 1 \in Servers BY SpawnFits
<1>1. McpTypes' BY <1>a, ServerFields DEF McpTypes, OnlyChild, Stages, Kills, StopDone, Launch
<1>2. McpCounts' BY <1>a DEF McpCounts, Spawning, StopDone, Launch
<1>3. Budget'
 <2>1. UNCHANGED <<spawned, starts, revives, faults>> /\ stopReq /\ ~timer /\ attempt = "none" /\ ~timer'
   BY DEF StopDone, Stages, Stops, Launch
 <2>2. CASE waiting
  <3>1. Spawning' /\ ~waiting' /\ ~Failing' BY <2>2 DEF StopDone, Launch, Spawning, Failing
  <3> QED BY <2>1, <2>2, <3>1 DEF Budget, One, McpCounts, Spawning, Failing
 <2>3. CASE ~waiting
  <3>1. ~Spawning' /\ ~waiting' /\ ~Failing' BY <2>1, <2>3 DEF StopDone, Spawning, Failing
  <3> QED BY <2>1, <2>3, <3>1 DEF Budget, One, McpCounts, Spawning, Failing
 <2> QED BY <2>2, <2>3
<1>4. OnlyChild' BY <1>a DEF OnlyChild, McpTypes, McpCounts, McpServer, Spawning, Kills, StopDone, Launch
<1>5. Stages' BY <1>a DEF Stages, McpTypes, McpServer, OnlyChild, Spawning, Kills, Stops, Timed, StopDone, Launch
<1>6. Kills' BY <1>a DEF Kills, McpTypes, McpServer, OnlyChild, Stages, Spawning, Stops, StopDone, Launch
<1>7. Stops'
  BY <1>a DEF Stops, McpTypes, McpServer, OnlyChild, Stages, Kills, Reaped, Timed, Spawning, StopDone, Launch
<1>8. Reaped' BY <1>a DEF Reaped, McpTypes, McpServer, OnlyChild, Stages, Kills, Stops, Spawning, StopDone, Launch
<1>9. Timed' BY <1>a DEF Timed, McpTypes, Stages, Stops, Kills, Spawning, StopDone, Launch
<1>10. ReadyTold' BY <1>a DEF ReadyTold, McpTypes, Stages, Stops, Kills, OnlyChild, Timed, StopDone, Launch
<1> QED BY <1>1, <1>2, <1>3, <1>4, <1>5, <1>6, <1>7, <1>8, <1>9, <1>10

\* A server is spawned, unless a stop came first.
LEMMA SpawnKeeps ==
  ASSUME McpInv, attempt \in {"port", "orphans"}, SpawnUnlessStopped,
         UNCHANGED <<stopReq, stopping, reaping, killVars, waiting, callVars, faults>>
  PROVE  McpInv'
<1> USE ServerNumbers, McpAssumption DEF Live, ServerGone, callVars, killVars, McpInv
<1>a. Spawning /\ ~timer /\ child = 0 /\ spawned + 1 \in Servers /\ (spawned # 0 => spawned \in Servers)
  BY SpawnFits DEF Spawning, Stages, Timed
<1>1. CASE stopReq
 <2>1. attempt' = "none" /\ UNCHANGED <<state, timer, child, server, workers, spawned>>
   BY <1>1 DEF SpawnUnlessStopped, AttemptFails, ScheduleRestart
 <2>2. McpTypes' BY <1>a, <1>1, <2>1 DEF McpTypes
 <2>3. McpCounts' BY <1>a, <1>1, <2>1 DEF McpCounts, Spawning
 <2>4. Budget'
   BY <1>a, <1>1, <2>1 DEF Budget, One, Spawning, Failing, McpTypes, McpCounts, Stages, Stops, Timed, Kills, OnlyChild
 <2>5. OnlyChild' BY <1>a, <1>1, <2>1 DEF OnlyChild, McpTypes, McpCounts, McpServer, Spawning, Kills, Stages, Stops
 <2>6. Stages' BY <1>a, <1>1, <2>1 DEF Stages, McpTypes, McpServer, OnlyChild, Spawning, Kills, Stops, Timed
 <2>7. Kills' BY <1>a, <1>1, <2>1 DEF Kills, McpTypes, McpServer, OnlyChild, Stages, Spawning, Stops
 <2>8. Stops' BY <1>a, <1>1, <2>1 DEF Stops, McpTypes, McpServer, OnlyChild, Stages, Kills, Reaped, Timed, Spawning
 <2>9. Reaped' BY <1>a, <1>1, <2>1 DEF Reaped, McpTypes, McpServer, OnlyChild, Stages, Kills, Stops, Spawning
 <2>10. Timed' BY <1>a, <1>1, <2>1 DEF Timed, McpTypes, Stages, Stops, Kills, Spawning
 <2>11. ReadyTold' BY <1>a, <1>1, <2>1 DEF ReadyTold, McpTypes, Stages, Stops, Kills, OnlyChild, Timed
 <2> QED BY <2>2, <2>3, <2>4, <2>5, <2>6, <2>7, <2>8, <2>9, <2>10, <2>11
<1>2. CASE ~stopReq
 <2> DEFINE n == spawned + 1
 <2>1. /\ attempt' = "poll" /\ spawned' = n /\ child' = n /\ server' = [server EXCEPT ![n].status = "live"]
       /\ workers' = workers \cup {n} /\ UNCHANGED <<state, timer>> BY <1>2 DEF SpawnUnlessStopped
 <2>2. /\ n # 0 /\ n \in Servers /\ child = 0 /\ \A m \in Servers : m <= n => m <= spawned \/ m = n
       /\ \A m \in Servers : n < m => spawned < m
       /\ spawned < n /\ n = spawned + 1 BY <1>a DEF McpCounts
 <2>3. /\ server' \in [Servers -> McpServer] /\ server'[n].status = "live"
       /\ \A m \in Servers : m # n => server'[m].status = server[m].status
       /\ \A m \in Servers : /\ server'[m].ready = server[m].ready
                              /\ server'[m].expected = server[m].expected
                              /\ server'[m].reaped = server[m].reaped
                              /\ server'[m].signalled = server[m].signalled
  <3>1. server' \in [Servers -> McpServer] BY <2>1, <2>2, ServerFields DEF McpTypes
  <3> QED BY <2>1, <2>2 DEF McpTypes, McpServer
 <2>4. /\ attempt' = "poll" /\ spawned' = n /\ child' = n
       /\ workers' = workers \cup {n} /\ UNCHANGED <<state, timer>> BY <2>1
 <2> HIDE DEF n
 <2>5. McpTypes' BY <1>a, <1>2, <2>2, <2>3, <2>4 DEF McpTypes
 <2>6. McpCounts' BY <1>a, <1>2, <2>2, <2>3, <2>4 DEF McpCounts, Spawning
 <2>7. Budget'
   BY <1>a, <1>2, <2>2, <2>3, <2>4 DEF Budget, One, Spawning, Failing, McpTypes, McpCounts, Stages, Stops, Timed,
      Kills, OnlyChild
 <2>8. OnlyChild'
   BY <1>a, <1>2, <2>2, <2>3, <2>4 DEF OnlyChild, McpTypes, McpCounts, McpServer, Spawning, Kills, Stages, Stops
 <2>9. Stages'
   BY <1>a, <1>2, <2>2, <2>3, <2>4 DEF Stages, McpTypes, McpServer, OnlyChild, Spawning, Kills, Stops, Timed
 <2>10. Kills' BY <1>a, <1>2, <2>2, <2>3, <2>4 DEF Kills, McpTypes, McpServer, OnlyChild, Stages, Spawning, Stops
 <2>11. Stops'
   BY <1>a, <1>2, <2>2, <2>3, <2>4 DEF Stops, McpTypes, McpServer, OnlyChild, Stages, Kills, Reaped, Timed, Spawning
 <2>12. Reaped'
   BY <1>a, <1>2, <2>2, <2>3, <2>4 DEF Reaped, McpTypes, McpServer, OnlyChild, Stages, Kills, Stops, Spawning
 <2>13. Timed' BY <1>a, <1>2, <2>2, <2>3, <2>4 DEF Timed, McpTypes, Stages, Stops, Kills, Spawning
 <2>14. ReadyTold' BY <1>a, <1>2, <2>2, <2>3, <2>4 DEF ReadyTold, McpTypes, Stages, Stops, Kills, OnlyChild, Timed
 <2> QED BY <2>5, <2>6, <2>7, <2>8, <2>9, <2>10, <2>11, <2>12, <2>13, <2>14
<1> QED BY <1>1, <1>2

\* The child exits.
LEMMA ExitKeeps ==
  ASSUME McpInv, NEW n \in Servers, Live(n), OnExit(n),
         \/ UNCHANGED faults /\ server[n].expected
         \/ Fault
  PROVE  McpInv'
<1> USE ServerNumbers, McpAssumption DEF callVars, killVars
<1>0. McpTypes /\ McpCounts /\ Budget /\ OnlyChild /\ Stages /\ Kills /\ Stops /\ Reaped /\ Timed /\ ReadyTold
  BY DEF McpInv
<1>a. n = child /\ n = spawned /\ n # 0 /\ ~ServerGone(n) /\ child' = 0
  BY <1>0 DEF OnlyChild, OnExit, Live, ServerGone
<1>b. /\ stopReq /\ stopping = "none" => FALSE
      /\ ~server[n].reaped
      /\ kill' = IF kill = "wait" /\ target = n THEN "exited" ELSE kill
      /\ faults' \in {faults, faults + 1} /\ (~server[n].expected => faults' = faults + 1) /\ faults' <= MaxFaults
      /\ UNCHANGED <<stopReq, stopping, attempt, workers, target, waiting, spawned, starts, revives>>
  BY <1>0, <1>a DEF Stops, OnlyChild, OnExit, Fault, McpCounts
<1>1. CASE server[n].expected
 <2>1. UNCHANGED <<reaping, state, timer>> /\ server' = [server EXCEPT ![n].status = "gone"] BY <1>1 DEF OnExit
 <2>2. /\ server' \in [Servers -> McpServer] /\ server'[n].status = "gone"
       /\ \A m \in Servers : m # n => server'[m].status = server[m].status
       /\ \A m \in Servers : /\ server'[m].ready = server[m].ready
                              /\ server'[m].expected = server[m].expected
                              /\ server'[m].reaped = server[m].reaped
                              /\ server'[m].signalled = server[m].signalled
  <3>1. server' \in [Servers -> McpServer] BY <1>0, <2>1, ServerFields DEF McpTypes
  <3> QED BY <1>0, <2>1 DEF McpTypes, McpServer
 <2>3. UNCHANGED <<reaping, state, timer>> /\ kill \in {"tree", "wait"} /\ target = n BY <1>0, <1>1, <2>1 DEF Kills
 <2>4. McpTypes' BY <1>0, <1>a, <1>b, <1>1, <2>2, <2>3 DEF McpTypes, Live, ServerGone
 <2>5. McpCounts' BY <1>0, <1>a, <1>b, <1>1, <2>2, <2>3 DEF McpCounts, Spawning, Live, ServerGone
 <2>6. Budget'
  <3>1. attempt # "poll" BY <1>0, <1>a, <1>1 DEF Stages
  <3>2. (Spawning' <=> Spawning) /\ (Failing' <=> Failing) BY <1>b, <3>1 DEF Spawning, Failing
  <3>3. One(Spawning)' = One(Spawning) /\ One(Failing)' = One(Failing) /\ One(timer)' = One(timer)
    BY <2>3, <3>2 DEF One
  <3>4. One(waiting)' = One(waiting) BY <1>b DEF One
  <3>5. faults' \in {faults, faults + 1} /\ UNCHANGED <<spawned, starts, revives>> BY <1>b
  <3>6. /\ One(timer) \in Nat /\ One(waiting) \in Nat /\ One(Failing) \in Nat /\ One(Spawning) \in Nat
        /\ spawned \in Nat /\ starts \in Nat /\ revives \in Nat /\ faults \in Nat
        /\ spawned + One(Spawning) + One(timer) + One(waiting) + One(Failing) <= starts + revives + faults
    BY <1>0 DEF One, Budget, McpCounts
  <3> QED BY <3>3, <3>4, <3>5, <3>6 DEF Budget
 <2>7. OnlyChild'
   BY <1>0, <1>a, <1>b, <1>1, <2>2, <2>3 DEF OnlyChild, McpTypes, McpCounts, McpServer, Spawning, Kills, Stages,
      Stops, Live, ServerGone
 <2>8. Stages'
   BY <1>0, <1>a, <1>b, <1>1, <2>2, <2>3 DEF Stages, McpTypes, McpServer, OnlyChild, Spawning, Kills, Stops, Timed,
      Live, ServerGone
 <2>9. Kills'
   BY <1>0, <1>a, <1>b, <1>1, <2>2, <2>3 DEF Kills, McpTypes, McpServer, OnlyChild, Stages, Spawning, Stops, Live,
      ServerGone
 <2>10. Stops'
   BY <1>0, <1>a, <1>b, <1>1, <2>2, <2>3 DEF Stops, McpTypes, McpServer, OnlyChild, Stages, Kills, Reaped, Timed,
      Spawning, Live, ServerGone
 <2>11. Reaped'
   BY <1>0, <1>a, <1>b, <1>1, <2>2, <2>3 DEF Reaped, McpTypes, McpServer, OnlyChild, Stages, Kills, Stops, Spawning,
      Live, ServerGone
 <2>12. Timed'
   BY <1>0, <1>a, <1>b, <1>1, <2>2, <2>3 DEF Timed, McpTypes, Stages, Stops, Kills, Spawning, Live, ServerGone
 <2>13. ReadyTold'
   BY <1>0, <1>a, <1>b, <1>1, <2>2, <2>3 DEF ReadyTold, McpTypes, Stages, Stops, Kills, OnlyChild, Timed, Live,
      ServerGone
 <2> QED BY <2>4, <2>5, <2>6, <2>7, <2>8, <2>9, <2>10, <2>11, <2>12, <2>13 DEF McpInv
<1>2. CASE ~server[n].expected
 <2>1. /\ server' = [server EXCEPT ![n].status = "gone", ![n].reaped = TRUE]
       /\ reaping' = reaping \cup {n}
       /\ \/ UNCHANGED <<state, timer>> /\ (stopReq \/ ~server[n].ready)
          \/ ~stopReq /\ server[n].ready /\ state' = "starting" /\ timer'
          \/ ~stopReq /\ server[n].ready /\ state' = "unavailable" /\ timer' = timer
   BY <1>2 DEF OnExit, CrashOwesRestart, ScheduleRestart
 <2>2. /\ server' \in [Servers -> McpServer] /\ server'[n].status = "gone" /\ server'[n].reaped
       /\ \A m \in Servers : m # n => server'[m].status = server[m].status /\ server'[m].reaped = server[m].reaped
       /\ \A m \in Servers : /\ server'[m].ready = server[m].ready
                              /\ server'[m].expected = server[m].expected
                              /\ server'[m].signalled = server[m].signalled
  <3>1. server' \in [Servers -> McpServer] BY <1>0, <2>1, ServerFields DEF McpTypes
  <3> QED BY <1>0, <2>1 DEF McpTypes, McpServer
 <2>3. /\ kill = "none" /\ kill' = kill /\ timer' \in BOOLEAN /\ attempt \in {"none", "poll"} /\ ~timer
       /\ (attempt = "poll" <=> ~server[n].ready)
       /\ reaping' = reaping \cup {n}
   BY <1>0, <1>a, <1>b, <1>2, <2>1 DEF Kills, Stages, McpTypes, Timed, Spawning, Stops
 <2>4. \/ UNCHANGED <<state, timer>> /\ (stopReq \/ ~server[n].ready)
       \/ ~stopReq /\ server[n].ready /\ state' = "starting" /\ timer'
       \/ ~stopReq /\ server[n].ready /\ state' = "unavailable" /\ timer' = timer BY <2>1
 <2>5. McpTypes' BY <1>0, <1>a, <1>b, <1>2, <2>2, <2>3, <2>4 DEF McpTypes, Live, ServerGone
 <2>6. McpCounts' BY <1>0, <1>a, <1>b, <1>2, <2>2, <2>3, <2>4 DEF McpCounts, Spawning, Live, ServerGone
 <2>7. Budget'
  <3>1. ~Spawning /\ ~Spawning' /\ ~Failing BY <1>a, <1>b, <2>3 DEF Spawning, Failing
  <3>2. ~(Failing' /\ timer') BY <1>b, <2>3, <2>4 DEF Failing
  <3>3. faults' = faults + 1 /\ UNCHANGED <<spawned, starts, revives, waiting>> BY <1>b, <1>2
  <3> QED BY <1>0, <2>3, <3>1, <3>2, <3>3 DEF Budget, One, McpCounts
 <2>8. OnlyChild'
   BY <1>0, <1>a, <1>b, <1>2, <2>2, <2>3, <2>4 DEF OnlyChild, McpTypes, McpCounts, McpServer, Spawning, Kills, Stages,
      Stops, Live, ServerGone
 <2>9. Stages'
   BY <1>0, <1>a, <1>b, <1>2, <2>2, <2>3, <2>4 DEF Stages, McpTypes, McpServer, OnlyChild, Spawning, Kills, Stops,
      Timed, Live, ServerGone
 <2>10. Kills'
   BY <1>0, <1>a, <1>b, <1>2, <2>2, <2>3, <2>4 DEF Kills, McpTypes, McpServer, OnlyChild, Stages, Spawning, Stops,
      Live, ServerGone
 <2>11. Stops'
   BY <1>0, <1>a, <1>b, <1>2, <2>2, <2>3, <2>4 DEF Stops, McpTypes, McpServer, OnlyChild, Stages, Kills, Reaped,
      Timed, Spawning, Live, ServerGone
 <2>12. Reaped'
   BY <1>0, <1>a, <1>b, <1>2, <2>2, <2>3, <2>4 DEF Reaped, McpTypes, McpServer, OnlyChild, Stages, Kills, Stops,
      Spawning, Live, ServerGone
 <2>13. Timed'
   BY <1>0, <1>a, <1>b, <1>2, <2>2, <2>3, <2>4 DEF Timed, McpTypes, Stages, Stops, Kills, Spawning, Live, ServerGone
 <2>14. ReadyTold'
   BY <1>0, <1>a, <1>b, <1>2, <2>2, <2>3, <2>4 DEF ReadyTold, McpTypes, Stages, Stops, Kills, OnlyChild, Timed, Live,
      ServerGone
 <2> QED BY <2>5, <2>6, <2>7, <2>8, <2>9, <2>10, <2>11, <2>12, <2>13, <2>14 DEF McpInv
<1> QED BY <1>1, <1>2

LEMMA LeftoversReapedKeeps ==
  ASSUME McpInv, NEW n \in Servers, LeftoversReaped(n)
  PROVE  McpInv'
<1> USE ServerNumbers, McpAssumption DEF Live, ServerGone, callVars, killVars, McpInv
<1>1. McpTypes' BY DEF McpTypes, LeftoversReaped
<1>2. McpCounts' BY DEF McpCounts, Spawning, LeftoversReaped
<1>3. Budget'
  BY DEF Budget, One, Spawning, Failing, McpTypes, McpCounts, Stages, Stops, Timed, Kills, OnlyChild, LeftoversReaped
<1>4. OnlyChild' BY DEF OnlyChild, McpTypes, McpCounts, McpServer, Spawning, Kills, Stages, Stops, LeftoversReaped
<1>5. Stages' BY DEF Stages, McpTypes, McpServer, OnlyChild, Spawning, Kills, Stops, Timed, LeftoversReaped
<1>6. Kills' BY DEF Kills, McpTypes, McpServer, OnlyChild, Stages, Spawning, Stops, LeftoversReaped
<1>7. Stops' BY DEF Stops, McpTypes, McpServer, OnlyChild, Stages, Kills, Reaped, Timed, Spawning, LeftoversReaped
<1>8. Reaped' BY DEF Reaped, McpTypes, McpServer, OnlyChild, Stages, Kills, Stops, Spawning, LeftoversReaped
<1>9. Timed' BY DEF Timed, McpTypes, Stages, Stops, Kills, Spawning, LeftoversReaped
<1>10. ReadyTold' BY DEF ReadyTold, McpTypes, Stages, Stops, Kills, OnlyChild, Timed, LeftoversReaped
<1> QED BY <1>1, <1>2, <1>3, <1>4, <1>5, <1>6, <1>7, <1>8, <1>9, <1>10

LEMMA InvStep == McpInv /\ [Next]_vars => McpInv'
<1> SUFFICES ASSUME McpInv, [Next]_vars PROVE McpInv' OBVIOUS
<1>1. CASE StartMcp \/ StopMcp \/ Revive \/ TimerFires BY <1>1, StartKeeps, StopKeeps, ReviveKeeps, TimerFiresKeeps
<1>2. CASE AttemptStep
 <2>1. CASE PortProbed \/ OrphansReaped
  <3>1. CASE PortProbed /\ orphan
   <4>1. /\ attempt = "port" /\ attempt' = "orphans"
         /\ UNCHANGED <<stopReq, stopping, reaping, killVars, waiting, callVars, faults,
                        state, timer, child, server, workers, spawned>> BY <3>1 DEF PortProbed
   <4> USE DEF callVars, killVars, Live, ServerGone
   <4>0. McpTypes /\ McpCounts /\ Budget /\ OnlyChild /\ Stages /\ Kills /\ Stops /\ Reaped /\ Timed /\ ReadyTold
     BY DEF McpInv
   <4>2. McpTypes' BY <4>0, <4>1 DEF McpTypes
   <4>3. McpCounts' BY <4>0, <4>1 DEF McpCounts, Spawning
   <4>4. Budget'
     BY <4>0, <4>1 DEF Budget, One, Spawning, Failing, McpTypes, McpCounts, Stages, Stops, Timed, Kills, OnlyChild
   <4>5. OnlyChild' BY <4>0, <4>1 DEF OnlyChild, McpTypes, McpCounts, McpServer, Spawning, Kills, Stages, Stops
   <4>6. Stages' BY <4>0, <4>1 DEF Stages, McpTypes, McpServer, OnlyChild, Spawning, Kills, Stops, Timed
   <4>7. Kills' BY <4>0, <4>1 DEF Kills, McpTypes, McpServer, OnlyChild, Stages, Spawning, Stops
   <4>8. Stops' BY <4>0, <4>1 DEF Stops, McpTypes, McpServer, OnlyChild, Stages, Kills, Reaped, Timed, Spawning
   <4>9. Reaped' BY <4>0, <4>1 DEF Reaped, McpTypes, McpServer, OnlyChild, Stages, Kills, Stops, Spawning
   <4>10. Timed' BY <4>0, <4>1 DEF Timed, McpTypes, Stages, Stops, Kills, Spawning
   <4>11. ReadyTold' BY <4>0, <4>1 DEF ReadyTold, McpTypes, Stages, Stops, Kills, OnlyChild, Timed
   <4> QED BY <4>2, <4>3, <4>4, <4>5, <4>6, <4>7, <4>8, <4>9, <4>10, <4>11 DEF McpInv
  <3>2. CASE OrphansReaped \/ ~orphan
   <4>1. /\ attempt \in {"port", "orphans"} /\ SpawnUnlessStopped
         /\ UNCHANGED <<stopReq, stopping, reaping, killVars, waiting, callVars, faults>>
     BY <2>1, <3>2 DEF PortProbed, OrphansReaped
   <4> QED BY <4>1, SpawnKeeps
  <3> QED BY <2>1, <3>1, <3>2
 <2> QED BY <1>2, <2>1, LogOpenedKeeps, SpawnFailsKeeps, ReadyKeeps, PollFailsKeeps, AttemptDeadKeeps DEF AttemptStep
<1>3. CASE KillStep BY <1>3, KillSignalKeeps, KillExitedKeeps, KillReapedKeeps DEF KillStep
<1>4. CASE StopStep BY <1>4, StopAfterAttemptKeeps, StopDrainedKeeps, StopDeadKeeps, StopDoneKeeps DEF StopStep
<1>5. ASSUME NEW n \in Servers, Exit(n) PROVE McpInv'
 <2>1. server[n].expected BY <1>5 DEF Exit, McpInv, Kills
 <2> QED BY <1>5, <2>1, ExitKeeps DEF Exit
<1>6. ASSUME NEW n \in Servers, Crash(n) PROVE McpInv' BY <1>6, ExitKeeps DEF Crash
<1>7. ASSUME NEW n \in Servers, LeftoversReaped(n) PROVE McpInv' BY <1>7, LeftoversReapedKeeps
<1>8. CASE UNCHANGED vars
  BY <1>8 DEF McpInv, vars, callVars, killVars, McpTypes, McpCounts, Budget, OnlyChild, Stages, Kills, Stops, Reaped,
     Timed, ReadyTold, Spawning, Failing, Live, ServerGone
<1> QED BY <1>1, <1>2, <1>3, <1>4, <1>5, <1>6, <1>7, <1>8 DEF Next

LEMMA InvInit == Init => McpInv
<1> SUFFICES ASSUME Init PROVE McpInv OBVIOUS
<1> USE ServerNumbers, McpAssumption DEF Init
<1>1. McpTypes BY DEF McpTypes, McpServer
<1>2. McpCounts /\ Budget BY DEF McpCounts, Budget, One, Spawning, Failing
<1>3. OnlyChild /\ Stages /\ Kills /\ Stops /\ Reaped /\ Timed /\ ReadyTold
  BY DEF OnlyChild, Stages, Kills, Stops, Reaped, Timed, ReadyTold, Spawning, Live, ServerGone
<1> QED BY <1>1, <1>2, <1>3 DEF McpInv

LEMMA McpInvHolds == Spec => []McpInv
<1> QED BY InvInit, InvStep, PTL DEF Spec

\* There is never a second tool server, and outside a stop "ready" was told of one
\* that lives: start, revive, the restart timer, the exit handler and stop take turns
\* (McpSupervisor.#startOnce, #scheduleRestart, #terminate).
THEOREM NeverTwoServers == Spec => []OneLiveServer
<1>1. McpInv => OneLiveServer
 <2> SUFFICES ASSUME McpInv PROVE OneLiveServer OBVIOUS
 <2>1. child # 0 => child \in Servers BY SpawnFits DEF McpInv, OnlyChild
 <2> QED BY <2>1 DEF McpInv, OnlyChild, ReadyTold, OneLiveServer, OneServer, ReadyIsLive
<1> QED BY <1>1, McpInvHolds, PTL

\* A stop that has resolved leaves no server, no worker, no timer and no start in
\* flight behind, until the next start is called (McpSupervisor.stop: it waits for the
\* start under way, for the server's end and for the reaping of its workers).
THEOREM StopIsFinal == Spec => []StopLeavesNothing
<1>1. McpInv => StopLeavesNothing BY ServerNumbers DEF McpInv, McpTypes, OnlyChild, Stops, StopLeavesNothing
<1> QED BY <1>1, McpInvHolds, PTL

\* Automatic restarts are paid for: no more servers are ever spawned than there were
\* calls of start and revive and failures (#scheduleRestart runs once for a failure,
\* whichever of the exit handler and the failed start sees it).
THEOREM SpawnsArePaidFor == Spec => [](spawned <= starts + revives + faults)
<1>1. McpInv => spawned <= starts + revives + faults
 <2> SUFFICES ASSUME McpInv PROVE spawned <= starts + revives + faults OBVIOUS
 <2>1. One(timer) \in Nat /\ One(waiting) \in Nat /\ One(Failing) \in Nat /\ One(Spawning) \in Nat BY DEF One
 <2> QED BY <2>1 DEF McpInv, Budget, McpCounts
<1> QED BY <1>1, McpInvHolds, PTL

--------------------
\* FileEvents: a browser that keeps its scope knows of every event up to
\* its last id, for any ring, budgets, boots and connections.

Frame == [kind : {"event", "reset", "ready", "resumed"}, seq : Nat]

EventsTypes ==
    /\ journal \in Seq([path : Folders \cup {Root}, kind : {"event", "reset"}])
    /\ floor \in Nat /\ floor <= Len(journal) /\ boot \in Nat
    /\ sub \in [state : {"off", "on", "ended"}, scope : Scopes, blocked : BOOLEAN, queue : Seq(Frame)]
    /\ wire \in Seq(Frame)
    /\ cursor \in [boot : Nat, seq : Nat]
    /\ knows \in [boot : Nat, scope : Scopes \cup {NoScope}, seqs : SUBSET Nat, greeted : BOOLEAN]

\* Frames wait on the server's side only while the socket asks for a pause.
SubShape ==
    /\ ~sub.blocked => sub.queue = <<>>
    /\ sub.state = "off" => wire = <<>> /\ sub.queue = <<>>
    /\ sub.state = "ended" => sub.queue = <<>>

Out == wire \o sub.queue   \* the frames the browser has yet to receive

\* What a browser of scope sc will know of the first n events of the journal j when it
\* has received the first k frames: all, unless it has changed its scope since its
\* last fetch and none of the frames makes it fetch again.
Covers(j, kn, sc, b, out, k, n) ==
    kn.scope = sc /\ (\A i \in 1..k : ~Fetches(out[i])) =>
        /\ kn.boot = b
        /\ \A i \in 1..n : Intersects(sc, j[i].path) =>
             i \in kn.seqs \/ \E l \in 1..k : out[l].kind = "event" /\ out[l].seq = i

\* No frame arrives before what it follows.
Follow(j, kn, sc, b, out) ==
    \A k \in 1..Len(out) : out[k].seq <= Len(j) /\ Covers(j, kn, sc, b, out, k, out[k].seq)

Streams ==
    /\ sub.state # "off" => Follow(journal, knows, sub.scope, boot, Out)
    /\ sub.state = "on" => Covers(journal, knows, sub.scope, boot, Out, Len(Out), Len(journal))
    /\ sub.state = "on" /\ knows.greeted => cursor.boot = boot

\* The id of this boot a browser holds is one up to which it knows its scope.
CursorKnown ==
    /\ cursor.boot <= boot
    /\ cursor.boot = boot => cursor.seq <= Len(journal)
    /\ cursor.boot = boot /\ knows.scope # NoScope =>
        knows.boot = boot /\ Meeting(knows.scope, cursor.seq) \subseteq knows.seqs

EventsInv == EventsTypes /\ SubShape /\ Streams /\ CursorKnown

LEMMA EventsInitially == EventsInit => EventsInv
<1> SUFFICES ASSUME EventsInit PROVE EventsInv OBVIOUS
<1> USE DEF EventsInit, NoSub, NoCursor
<1>1. EventsTypes BY DEF EventsTypes, Scopes
<1>2. SubShape /\ Streams /\ CursorKnown BY DEF SubShape, Streams, CursorKnown
<1> QED BY <1>1, <1>2 DEF EventsInv

\* One more frame at the end leaves the earlier ones covered.
LEMMA FollowAppend ==
  ASSUME NEW j \in Seq([path : Folders \cup {Root}, kind : {"event", "reset"}]), NEW kn, NEW sc, NEW b,
         NEW out \in Seq(Frame), NEW f \in Frame,
         Follow(j, kn, sc, b, out), f.seq <= Len(j), Covers(j, kn, sc, b, Append(out, f), Len(out) + 1, f.seq)
  PROVE  Follow(j, kn, sc, b, Append(out, f))
<1> DEFINE o == Append(out, f)
<1>1. /\ Len(o) = Len(out) + 1 /\ Len(out) \in Nat /\ o[Len(out) + 1] = f
      /\ \A i \in 1..Len(out) : o[i] = out[i] BY AppendProperties
<1> HIDE DEF o
<1>2. ASSUME NEW k \in 1..Len(o)
      PROVE  o[k].seq <= Len(j) /\ Covers(j, kn, sc, b, o, k, o[k].seq)
 <2>1. CASE k \in 1..Len(out)
  <3>1. out[k].seq <= Len(j) /\ Covers(j, kn, sc, b, out, k, out[k].seq) BY <2>1 DEF Follow
  <3>2. o[k] = out[k] /\ \A i \in 1..k : o[i] = out[i] BY <1>1, <2>1
  <3> QED BY <3>1, <3>2 DEF Covers
 <2>2. CASE k = Len(out) + 1 BY <1>1, <2>2 DEF o
 <2> QED BY <1>1, <2>1, <2>2
<1> QED BY <1>2 DEF Follow, o

\* More events in the journal change nothing of what was told of the earlier ones.
LEMMA FollowGrows ==
  ASSUME NEW j \in Seq([path : Folders \cup {Root}, kind : {"event", "reset"}]),
         NEW e \in [path : Folders \cup {Root}, kind : {"event", "reset"}], NEW kn, NEW sc, NEW b,
         NEW out \in Seq(Frame), Follow(j, kn, sc, b, out)
  PROVE  Follow(Append(j, e), kn, sc, b, out)
<1>1. /\ Len(Append(j, e)) = Len(j) + 1 /\ Len(j) \in Nat
      /\ \A i \in 1..Len(j) : Append(j, e)[i] = j[i] BY AppendProperties
<1>2. ASSUME NEW k \in 1..Len(out) PROVE out[k].seq \in Nat
 <2>1. out[k] \in Frame BY ElementOfSeq
 <2> QED BY <2>1 DEF Frame
<1>3. ASSUME NEW k \in 1..Len(out)
      PROVE  out[k].seq <= Len(Append(j, e)) /\ Covers(Append(j, e), kn, sc, b, out, k, out[k].seq)
 <2>1. out[k].seq \in Nat /\ out[k].seq <= Len(j) /\ Covers(j, kn, sc, b, out, k, out[k].seq) BY <1>2 DEF Follow
 <2>2. \A i \in 1..out[k].seq : Append(j, e)[i] = j[i] BY <1>1, <2>1
 <2> QED BY <1>1, <2>1, <2>2 DEF Covers
<1> QED BY <1>3 DEF Follow

\* A new greeting flag changes nothing of what was told.
LEMMA FollowGreeted ==
  ASSUME NEW j, NEW kn \in [boot : Nat, scope : Scopes \cup {NoScope}, seqs : SUBSET Nat, greeted : BOOLEAN],
         NEW g \in BOOLEAN, NEW sc, NEW b, NEW out
  PROVE  LET kg == [kn EXCEPT !.greeted = g]
         IN  /\ kg \in [boot : Nat, scope : Scopes \cup {NoScope}, seqs : SUBSET Nat, greeted : BOOLEAN]
             /\ kg.boot = kn.boot /\ kg.scope = kn.scope /\ kg.seqs = kn.seqs /\ kg.greeted = g
             /\ Follow(j, kn, sc, b, out) => Follow(j, kg, sc, b, out)
             /\ \A k, n : Covers(j, kn, sc, b, out, k, n) => Covers(j, kg, sc, b, out, k, n)
<1> DEFINE kg == [kn EXCEPT !.greeted = g]
<1>1. /\ kg \in [boot : Nat, scope : Scopes \cup {NoScope}, seqs : SUBSET Nat, greeted : BOOLEAN]
      /\ kg.boot = kn.boot /\ kg.scope = kn.scope /\ kg.seqs = kn.seqs /\ kg.greeted = g OBVIOUS
<1> HIDE DEF kg
<1>2. \A k, n : Covers(j, kn, sc, b, out, k, n) => Covers(j, kg, sc, b, out, k, n) BY <1>1 DEF Covers
<1>3. Follow(j, kn, sc, b, out) => Follow(j, kg, sc, b, out) BY <1>2 DEF Follow
<1> QED BY <1>1, <1>2, <1>3 DEF kg

\* The frames a step leaves to receive.
LEMMA OutFacts ==
  ASSUME EventsInv
  PROVE  /\ Out \in Seq(Frame) /\ Len(Out) = Len(wire) + Len(sub.queue) /\ Len(wire) \in Nat /\ Len(sub.queue) \in Nat
         /\ sub.queue = <<>> => Out = wire
         /\ sub \in [state : {"off", "on", "ended"}, scope : Scopes, blocked : BOOLEAN, queue : Seq(Frame)]
         /\ wire \in Seq(Frame) /\ sub.queue \in Seq(Frame)
         /\ knows \in [boot : Nat, scope : Scopes \cup {NoScope}, seqs : SUBSET Nat, greeted : BOOLEAN]
         /\ journal \in Seq([path : Folders \cup {Root}, kind : {"event", "reset"}]) /\ Len(journal) \in Nat
         /\ boot \in Nat
<1>1. wire \in Seq(Frame) /\ sub.queue \in Seq(Frame) BY DEF EventsInv, EventsTypes
<1> QED BY <1>1, ConcatProperties, ConcatEmptySeq, LenProperties DEF Out, EventsInv, EventsTypes

\* What the rest of an invariant says of a connection after a step.
StreamKept ==
    /\ sub' \in [state : {"off", "on", "ended"}, scope : Scopes, blocked : BOOLEAN, queue : Seq(Frame)]
    /\ wire' \in Seq(Frame) /\ SubShape'
    /\ sub'.state # "off" => Follow(journal', knows', sub'.scope, boot, Out')

Regreeted == knows' \in {knows, [knows EXCEPT !.greeted = FALSE]}

\* A connection ends, with a reset or without.
LEMMA OverflowKeeps ==
  ASSUME EventsInv, sub.state = "on", Overflow, Len(journal') \in Nat,
         journal' \in Seq([path : Folders \cup {Root}, kind : {"event", "reset"}]),
         Follow(journal', knows, sub.scope, boot, Out)
  PROVE  StreamKept /\ Regreeted /\ sub'.state # "on"
<1>1. CASE Gone BY <1>1, FollowGreeted, EmptySeq DEF Gone, NoSub, StreamKept, Regreeted, SubShape, Scopes
<1>2. CASE /\ ~sub.blocked
           /\ sub' = [NoSub EXCEPT !.state = "ended", !.scope = sub.scope]
           /\ wire' = Append(wire, [kind |-> "reset", seq |-> Len(journal')])
           /\ UNCHANGED knows
 <2> DEFINE f == [kind |-> "reset", seq |-> Len(journal')]
 <2>1. f \in Frame /\ f.kind = "reset" /\ f.seq = Len(journal') BY DEF Frame
 <2>2. /\ sub'.state = "ended" /\ sub'.scope = sub.scope /\ sub'.queue = <<>> /\ ~sub'.blocked
       /\ sub' \in [state : {"off", "on", "ended"}, scope : Scopes, blocked : BOOLEAN, queue : Seq(Frame)]
   BY <1>2, EmptySeq, OutFacts DEF NoSub
 <2>3. sub.queue = <<>> /\ Out = wire /\ wire \in Seq(Frame) BY <1>2, OutFacts DEF EventsInv, SubShape
 <2>4. wire' \in Seq(Frame) /\ wire' = Append(Out, f) /\ Len(wire') = Len(Out) + 1 /\ wire'[Len(Out) + 1] = f
   BY <1>2, <2>1, <2>3, AppendProperties
 <2>5. Out' = Append(Out, f) BY <2>2, <2>4, ConcatEmptySeq DEF Out
 <2> HIDE DEF f
 <2>6. Covers(journal', knows, sub.scope, boot, Append(Out, f), Len(Out) + 1, f.seq)
  <3>1. Append(Out, f)[Len(Out) + 1].kind = "reset" /\ Len(Out) \in Nat BY <2>1, <2>4, OutFacts
  <3> QED BY <3>1 DEF Covers, Fetches
 <2>7. Follow(journal', knows, sub.scope, boot, Out')
  <3>1. Out \in Seq(Frame) /\ f.seq <= Len(journal') BY <2>1, OutFacts
  <3>2. Follow(journal', knows, sub.scope, boot, Append(Out, f)) BY <2>1, <2>6, <3>1, FollowAppend
  <3> QED BY <2>5, <3>2
 <2> QED BY <1>2, <2>2, <2>4, <2>7 DEF StreamKept, Regreeted, SubShape
<1> QED BY <1>1, <1>2 DEF Overflow

\* A step that does not reach the browser keeps the invariant, when the frames it leaves do.
LEMMA StepKeeps ==
  ASSUME EventsInv, UNCHANGED <<boot, cursor>>, Regreeted,
         journal' \in Seq([path : Folders \cup {Root}, kind : {"event", "reset"}]),
         Len(journal) <= Len(journal'), \A i \in 1..Len(journal) : journal'[i] = journal[i],
         floor' \in Nat, floor' <= Len(journal'), StreamKept,
         sub'.state = "on" =>
             /\ sub.state = "on" \/ ~knows'.greeted
             /\ Covers(journal', knows', sub'.scope, boot, Out', Len(Out'), Len(journal'))
  PROVE  EventsInv'
<1>1. /\ knows' \in [boot : Nat, scope : Scopes \cup {NoScope}, seqs : SUBSET Nat, greeted : BOOLEAN]
      /\ knows'.boot = knows.boot /\ knows'.scope = knows.scope /\ knows'.seqs = knows.seqs
      /\ knows'.greeted => knows.greeted BY OutFacts, FollowGreeted DEF Regreeted
<1>2. Len(journal) \in Nat /\ Len(journal') \in Nat /\ cursor \in [boot : Nat, seq : Nat]
  BY LenProperties DEF EventsInv, EventsTypes
<1>3. EventsTypes' BY <1>1 DEF EventsInv, EventsTypes, StreamKept
<1>4. Streams' BY <1>1 DEF EventsInv, Streams, StreamKept
<1>5. CursorKnown'
 <2>1. cursor'.boot <= boot' /\ (cursor'.boot = boot' => cursor'.seq <= Len(journal'))
   BY <1>2 DEF EventsInv, CursorKnown
 <2>2. ASSUME cursor'.boot = boot', knows'.scope # NoScope
       PROVE  knows'.boot = boot' /\ Meeting(knows.scope, cursor.seq)' \subseteq knows'.seqs
  <3>1. /\ cursor.seq \in Nat /\ cursor.seq <= Len(journal)
        /\ knows.boot = boot /\ Meeting(knows.scope, cursor.seq) \subseteq knows.seqs
    BY <1>1, <1>2, <2>2 DEF EventsInv, CursorKnown
  <3>2. \A i \in 1..cursor.seq : journal'[i] = journal[i] BY <1>2, <3>1
  <3>3. Meeting(knows.scope, cursor.seq)' = Meeting(knows.scope, cursor.seq) BY <1>1, <3>2 DEF Meeting
  <3> QED BY <1>1, <3>1, <3>3
 <2> QED BY <2>1, <2>2 DEF CursorKnown
<1> QED BY <1>3, <1>4, <1>5 DEF EventsInv, StreamKept

\* One more frame for a browser that is listening.
LEMMA FrameKeeps ==
  ASSUME EventsInv, sub.state = "on", NEW f \in Frame, ~Full, AcceptFrame(f), f.seq <= Len(journal'),
         journal' \in Seq([path : Folders \cup {Root}, kind : {"event", "reset"}]),
         Follow(journal', knows, sub.scope, boot, Out),
         Covers(journal', knows, sub.scope, boot, Append(Out, f), Len(Out) + 1, f.seq)
  PROVE  StreamKept /\ knows' = knows /\ sub'.state = "on" /\ sub'.scope = sub.scope /\ Out' = Append(Out, f)
<1>1. /\ sub' \in [state : {"off", "on", "ended"}, scope : Scopes, blocked : BOOLEAN, queue : Seq(Frame)]
      /\ sub'.state = "on" /\ sub'.scope = sub.scope /\ wire' \in Seq(Frame)
      /\ (~sub'.blocked => sub'.queue = <<>>) /\ Out' = Append(Out, f)
 <2>1. CASE sub.blocked
  <3>1. sub' = [sub EXCEPT !.queue = Append(sub.queue, f)] /\ wire' = wire BY <2>1 DEF AcceptFrame
  <3>2. Append(sub.queue, f) \in Seq(Frame) BY OutFacts, AppendProperties
  <3>3. /\ sub' \in [state : {"off", "on", "ended"}, scope : Scopes, blocked : BOOLEAN, queue : Seq(Frame)]
        /\ sub'.state = "on" /\ sub'.scope = sub.scope /\ sub'.blocked = sub.blocked
        /\ sub'.queue = Append(sub.queue, f) BY <3>1, <3>2, OutFacts
  <3>4. wire \o Append(sub.queue, f) = Append(wire \o sub.queue, f) BY OutFacts
  <3> QED BY <2>1, <3>1, <3>3, <3>4, OutFacts DEF Out
 <2>2. CASE ~sub.blocked
  <3>1. PICK b \in BOOLEAN : sub' = [sub EXCEPT !.blocked = b] /\ wire' = Append(wire, f) BY <2>2 DEF AcceptFrame
  <3>2. sub.queue = <<>> /\ Out = wire BY <2>2, OutFacts DEF EventsInv, SubShape
  <3>3. /\ sub' \in [state : {"off", "on", "ended"}, scope : Scopes, blocked : BOOLEAN, queue : Seq(Frame)]
        /\ sub'.state = "on" /\ sub'.scope = sub.scope /\ sub'.queue = <<>> BY <3>1, <3>2, OutFacts
  <3>4. wire' \in Seq(Frame) BY <3>1, OutFacts, AppendProperties
  <3> QED BY <3>1, <3>2, <3>3, <3>4, ConcatEmptySeq DEF Out
 <2> QED BY <2>1, <2>2
<1>2. knows' = knows BY DEF AcceptFrame
<1>3. Follow(journal', knows, sub.scope, boot, Append(Out, f)) BY OutFacts, FollowAppend
<1> QED BY <1>1, <1>2, <1>3 DEF StreamKept, SubShape

\* A published event: of another scope, queued or written, or one that does not fit.
LEMMA EventKeeps ==
  ASSUME EventsInv, NEW path \in Folders \cup {Root}, NEW kind \in {"event", "reset"}, Publish(path, kind)
  PROVE  EventsInv'
<1> DEFINE e == [path |-> path, kind |-> kind]
           f == [kind |-> kind, seq |-> Len(journal')]
<1>1. /\ e \in [path : Folders \cup {Root}, kind : {"event", "reset"}] /\ e.path = path /\ journal' = Append(journal, e)
      /\ UNCHANGED <<boot, cursor>> BY DEF Publish
<1> HIDE DEF e
<1>2. /\ journal' \in Seq([path : Folders \cup {Root}, kind : {"event", "reset"}])
      /\ Len(journal) \in Nat /\ Len(journal') = Len(journal) + 1 /\ journal'[Len(journal')].path = path
      /\ \A i \in 1..Len(journal) : journal'[i] = journal[i]
 <2>1. journal \in Seq([path : Folders \cup {Root}, kind : {"event", "reset"}]) /\ Len(journal) \in Nat BY OutFacts
 <2> QED BY <1>1, <2>1, AppendProperties
<1>3. floor' \in Nat /\ floor' <= Len(journal')
 <2>1. floor \in Nat /\ floor <= Len(journal) /\ floor' \in {floor, floor + 1} BY DEF Publish, EventsInv, EventsTypes
 <2> QED BY <1>2, <2>1
<1>4. f \in Frame /\ f.kind = kind /\ f.seq = Len(journal') BY <1>2 DEF Frame
<1> HIDE DEF f
<1>5. sub.state # "off" => Follow(journal', knows, sub.scope, boot, Out)
  BY <1>1, OutFacts, FollowGrows DEF EventsInv, Streams
<1>6. CASE sub.state = "on" /\ Intersects(sub.scope, path)
 <2>1. AcceptFrame(f) BY <1>6 DEF Publish, f
 <2>2. CASE Full
  <3>1. Overflow BY <2>1, <2>2 DEF AcceptFrame
  <3>2. StreamKept /\ Regreeted /\ sub'.state # "on" BY <1>2, <1>5, <1>6, <3>1, OverflowKeeps
  <3> QED BY <1>1, <1>2, <1>3, <3>2, StepKeeps
 <2>3. CASE ~Full
  <3>1. Covers(journal', knows, sub.scope, boot, Append(Out, f), Len(Out) + 1, f.seq)
   <4>1. /\ Len(Out) \in Nat /\ Append(Out, f)[Len(Out) + 1] = f
         /\ \A i \in 1..Len(Out) : Append(Out, f)[i] = Out[i] BY <1>4, OutFacts, AppendProperties, LenProperties
   <4>2. Covers(journal, knows, sub.scope, boot, Out, Len(Out), Len(journal)) BY <1>6 DEF EventsInv, Streams
   <4>3. CASE kind = "reset" BY <1>4, <4>1, <4>3 DEF Covers, Fetches
   <4>4. CASE kind = "event"
    <5>1. SUFFICES ASSUME knows.scope = sub.scope, \A i \in 1..Len(Out) + 1 : ~Fetches(Append(Out, f)[i])
                   PROVE  /\ knows.boot = boot
                          /\ \A i \in 1..Len(journal') : Intersects(sub.scope, journal'[i].path) =>
                               \/ i \in knows.seqs
                               \/ \E l \in 1..Len(Out) + 1 : Append(Out, f)[l].kind = "event" /\ Append(Out, f)[l].seq = i
      BY <1>4 DEF Covers
    <5>2. \A i \in 1..Len(Out) : ~Fetches(Out[i]) BY <4>1, <5>1
    <5>3. /\ knows.boot = boot
          /\ \A i \in 1..Len(journal) : Intersects(sub.scope, journal[i].path) =>
               i \in knows.seqs \/ \E l \in 1..Len(Out) : Out[l].kind = "event" /\ Out[l].seq = i
      BY <4>2, <5>1, <5>2 DEF Covers
    <5>4. ASSUME NEW i \in 1..Len(journal'), Intersects(sub.scope, journal'[i].path)
          PROVE  \/ i \in knows.seqs
                 \/ \E l \in 1..Len(Out) + 1 : Append(Out, f)[l].kind = "event" /\ Append(Out, f)[l].seq = i
     <6>1. CASE i \in 1..Len(journal) BY <1>2, <4>1, <5>3, <5>4, <6>1
     <6>2. CASE i = Len(journal') BY <1>4, <4>1, <4>4, <6>2
     <6> QED BY <1>2, <6>1, <6>2
    <5> QED BY <5>3, <5>4
   <4> QED BY <4>3, <4>4
  <3>2. StreamKept /\ knows' = knows /\ sub'.state = "on" /\ sub'.scope = sub.scope /\ Out' = Append(Out, f)
   <4>1. f.seq <= Len(journal') BY <1>2, <1>4
   <4> QED BY <1>2, <1>4, <1>5, <1>6, <2>1, <2>3, <3>1, <4>1, FrameKeeps
  <3>3. Len(Out') = Len(Out) + 1 BY <1>4, <3>2, OutFacts, AppendProperties
  <3>4. Covers(journal', knows', sub'.scope, boot, Out', Len(Out'), Len(journal')) BY <1>4, <3>1, <3>2, <3>3
  <3> QED BY <1>1, <1>2, <1>3, <1>6, <3>2, <3>4, StepKeeps DEF Regreeted
 <2> QED BY <2>2, <2>3
<1>7. CASE ~(sub.state = "on" /\ Intersects(sub.scope, path))
 <2>1. UNCHANGED <<sub, wire, knows>> /\ Out' = Out BY <1>7 DEF Publish, Out
 <2>2. StreamKept BY <1>5, <2>1 DEF StreamKept, EventsInv, EventsTypes, SubShape
 <2>3. sub.state = "on" => Covers(journal', knows, sub.scope, boot, Out, Len(Out), Len(journal'))
   BY <1>2, <1>7 DEF EventsInv, Streams, Covers
 <2> QED BY <1>1, <1>2, <1>3, <2>1, <2>2, <2>3, StepKeeps DEF Regreeted
<1> QED BY <1>6, <1>7

\* Frames that waited go out in their order.
LEMMA DrainKeeps == EventsInv /\ DrainSubscriber => EventsInv'
<1> SUFFICES ASSUME EventsInv, DrainSubscriber PROVE EventsInv' OBVIOUS
<1>1. /\ UNCHANGED <<journal, floor, boot, cursor, knows>> /\ sub.state = "on" /\ sub.blocked
      /\ floor \in Nat /\ floor <= Len(journal) BY DEF DrainSubscriber, EventsInv, EventsTypes
<1>2. /\ sub' \in [state : {"off", "on", "ended"}, scope : Scopes, blocked : BOOLEAN, queue : Seq(Frame)]
      /\ sub'.state = "on" /\ sub'.scope = sub.scope /\ wire' \in Seq(Frame)
      /\ (~sub'.blocked => sub'.queue = <<>>) /\ Out' = Out
 <2>1. CASE sub.queue = <<>>
  <3>1. sub' = [sub EXCEPT !.blocked = FALSE] /\ wire' = wire BY <2>1 DEF DrainSubscriber
  <3>2. /\ sub' \in [state : {"off", "on", "ended"}, scope : Scopes, blocked : BOOLEAN, queue : Seq(Frame)]
        /\ sub'.state = "on" /\ sub'.scope = sub.scope /\ sub'.queue = sub.queue BY <1>1, <3>1, OutFacts
  <3> QED BY <2>1, <3>1, <3>2, OutFacts DEF Out
 <2>2. CASE sub.queue # <<>>
  <3>1. sub' = [sub EXCEPT !.queue = Tail(sub.queue)] /\ wire' = Append(wire, Head(sub.queue))
    BY <2>2 DEF DrainSubscriber
  <3> DEFINE q == sub.queue
  <3>2. q \in Seq(Frame) /\ wire \in Seq(Frame) /\ q # <<>> BY <2>2, OutFacts
  <3> HIDE DEF q
  <3>3. Head(q) \in Frame /\ Tail(q) \in Seq(Frame) BY <3>2, HeadTailProperties
  <3>4. Append(wire, Head(q)) \in Seq(Frame) /\ Append(wire, Head(q)) \o Tail(q) = wire \o q BY <3>2, <3>3
  <3>5. /\ sub' \in [state : {"off", "on", "ended"}, scope : Scopes, blocked : BOOLEAN, queue : Seq(Frame)]
        /\ sub'.state = "on" /\ sub'.scope = sub.scope /\ sub'.blocked = sub.blocked /\ sub'.queue = Tail(q)
    BY <1>1, <3>1, <3>3, OutFacts DEF q
  <3> QED BY <1>1, <3>1, <3>4, <3>5 DEF Out, q
 <2> QED BY <2>1, <2>2
<1>3. StreamKept BY <1>1, <1>2 DEF StreamKept, SubShape, EventsInv, Streams
<1>4. Covers(journal', knows', sub'.scope, boot, Out', Len(Out'), Len(journal')) BY <1>1, <1>2 DEF EventsInv, Streams
<1>5. /\ Len(journal) \in Nat /\ Regreeted
      /\ journal' \in Seq([path : Folders \cup {Root}, kind : {"event", "reset"}])
      /\ \A i \in 1..Len(journal) : journal'[i] = journal[i] BY <1>1, OutFacts DEF Regreeted
<1> QED BY <1>1, <1>3, <1>4, <1>5, StepKeeps

\* A connection that ends tells the browser nothing it may rely on.
LEMMA EndKeeps ==
  ASSUME EventsInv, UNCHANGED <<journal, floor, boot, cursor>>, Regreeted, StreamKept, sub'.state # "on"
  PROVE  EventsInv'
<1>1. /\ floor \in Nat /\ floor <= Len(journal) /\ Len(journal) \in Nat
      /\ journal' \in Seq([path : Folders \cup {Root}, kind : {"event", "reset"}])
      /\ \A i \in 1..Len(journal) : journal'[i] = journal[i] BY OutFacts DEF EventsInv, EventsTypes
<1> QED BY <1>1, StepKeeps

LEMMA StallKeeps == EventsInv /\ Stall => EventsInv'
<1> SUFFICES ASSUME EventsInv, Stall PROVE EventsInv' OBVIOUS
<1>1. UNCHANGED <<journal, floor, boot, cursor>> /\ sub.state = "on" /\ Overflow BY DEF Stall
<1>2. /\ journal' \in Seq([path : Folders \cup {Root}, kind : {"event", "reset"}]) /\ Len(journal') \in Nat
      /\ Follow(journal', knows, sub.scope, boot, Out) BY <1>1, OutFacts DEF EventsInv, Streams
<1>3. StreamKept /\ Regreeted /\ sub'.state # "on" BY <1>1, <1>2, OverflowKeeps
<1> QED BY <1>1, <1>3, EndKeeps

LEMMA DisconnectKeeps == EventsInv /\ Disconnect => EventsInv'
<1> SUFFICES ASSUME EventsInv, Disconnect PROVE EventsInv' OBVIOUS
<1>1. UNCHANGED <<journal, floor, boot, cursor>> /\ Gone BY DEF Disconnect
<1>2. StreamKept /\ Regreeted /\ sub'.state # "on"
  BY <1>1, EmptySeq DEF Gone, NoSub, StreamKept, Regreeted, SubShape, Scopes
<1> QED BY <1>1, <1>2, EndKeeps

\* Another browser changes what the service remembers, never what this one is told.
LEMMA UntouchedKeeps ==
  ASSUME EventsInv, UNCHANGED <<journal, floor, boot, sub, wire, cursor, knows>>
  PROVE  EventsInv'
<1>1. Out' = Out /\ \A sc, n : Meeting(sc, n)' = Meeting(sc, n) BY DEF Out, Meeting
<1>2. EventsTypes' /\ SubShape' BY DEF EventsInv, EventsTypes, SubShape
<1>3. Streams' BY <1>1 DEF EventsInv, Streams
<1>4. CursorKnown' BY <1>1 DEF EventsInv, CursorKnown, Meeting
<1> QED BY <1>2, <1>3, <1>4 DEF EventsInv

\* A new boot forgets every event; an id of an earlier boot is none of its own.
LEMMA RestartKeeps == EventsInv /\ Restart => EventsInv'
<1> SUFFICES ASSUME EventsInv, Restart PROVE EventsInv' OBVIOUS
<1>1. /\ boot \in Nat /\ cursor \in [boot : Nat, seq : Nat] /\ cursor.boot <= boot /\ boot' = boot + 1
      /\ cursor' = cursor /\ journal' = <<>> /\ floor' = 0 /\ sub' = NoSub /\ wire' = <<>>
  BY DEF Restart, EventsInv, EventsTypes, CursorKnown
<1>2. /\ sub'.state = "off" /\ sub'.queue = <<>> /\ ~sub'.blocked
      /\ sub' \in [state : {"off", "on", "ended"}, scope : Scopes, blocked : BOOLEAN, queue : Seq(Frame)]
  BY <1>1, EmptySeq DEF NoSub, Scopes
<1>3. /\ knows' \in [boot : Nat, scope : Scopes \cup {NoScope}, seqs : SUBSET Nat, greeted : BOOLEAN]
  BY OutFacts, FollowGreeted DEF Restart
<1>4. EventsTypes' /\ SubShape' BY <1>1, <1>2, <1>3, EmptySeq DEF EventsTypes, SubShape
<1>5. Streams' /\ CursorKnown' BY <1>1, <1>2 DEF Streams, CursorKnown
<1> QED BY <1>4, <1>5 DEF EventsInv

\* What a received frame leaves the browser to know of its scope, whichever frames follow.
LEMMA ReceiveKeeps == EventsInv /\ Receive => EventsInv'
<1> SUFFICES ASSUME EventsInv, Receive PROVE EventsInv' OBVIOUS
<1> DEFINE h == Head(wire)
           sc == sub.scope
           rest == Tail(wire) \o sub.queue
<1>1. /\ h \in Frame /\ Tail(wire) \in Seq(Frame) /\ Len(Tail(wire)) = Len(wire) - 1 /\ Len(wire) >= 1
      /\ Len(Out) \in Nat /\ 1 \in 1..Len(Out) /\ Out[1] = h
      /\ rest \in Seq(Frame) /\ Len(rest) = Len(Out) - 1
      /\ \A i \in 1..Len(rest) : rest[i] = Out[i + 1]
 <2>1. wire \in Seq(Frame) /\ wire # <<>> /\ sub.queue \in Seq(Frame) /\ Len(wire) \in Nat
       /\ Len(Out) = Len(wire) + Len(sub.queue) /\ Len(sub.queue) \in Nat BY OutFacts DEF Receive
 <2>2. /\ h \in Frame /\ Tail(wire) \in Seq(Frame) /\ Len(Tail(wire)) = Len(wire) - 1 /\ wire[1] = h
       /\ \A i \in 1..Len(Tail(wire)) : Tail(wire)[i] = wire[i + 1] BY <2>1, HeadTailProperties
 <2>3. Len(wire) >= 1 BY <2>1, EmptySeq
 <2>4. \A i \in 1..Len(wire) + Len(sub.queue) :
         Out[i] = IF i <= Len(wire) THEN wire[i] ELSE sub.queue[i - Len(wire)] BY <2>1, ConcatProperties DEF Out
 <2>5. /\ rest \in Seq(Frame) /\ Len(rest) = Len(wire) - 1 + Len(sub.queue)
       /\ \A i \in 1..Len(rest) :
            rest[i] = IF i <= Len(wire) - 1 THEN Tail(wire)[i] ELSE sub.queue[i - (Len(wire) - 1)]
   BY <2>1, <2>2, ConcatProperties
 <2>6. ASSUME NEW i \in 1..Len(rest) PROVE rest[i] = Out[i + 1]
  <3> HIDE DEF rest
  <3>1. i + 1 \in 1..Len(wire) + Len(sub.queue) BY <2>1, <2>5
  <3>2. CASE i <= Len(wire) - 1 BY <2>1, <2>2, <2>4, <2>5, <3>1, <3>2
  <3>3. CASE i > Len(wire) - 1 BY <2>1, <2>4, <2>5, <3>1, <3>3
  <3> QED BY <2>1, <3>2, <3>3
 <2> QED BY <2>1, <2>2, <2>3, <2>4, <2>5, <2>6
<1>2. /\ h.seq \in Nat /\ boot \in Nat /\ Len(journal) \in Nat /\ sc \in Scopes /\ sc # NoScope
      /\ knows \in [boot : Nat, scope : Scopes \cup {NoScope}, seqs : SUBSET Nat, greeted : BOOLEAN]
  BY <1>1, OutFacts, EventsAssumption DEF Frame, Scopes, NoScope, Root
<1>3. /\ wire' = Tail(wire) /\ cursor' = [boot |-> boot, seq |-> h.seq] /\ UNCHANGED <<journal, floor, boot>>
      /\ sub' = IF sub.state = "ended" /\ Len(wire) = 1 THEN NoSub ELSE sub
      /\ sub.state # "off" BY DEF Receive, EventsInv, SubShape
<1>4. /\ knows' \in [boot : Nat, scope : Scopes \cup {NoScope}, seqs : SUBSET Nat, greeted : BOOLEAN]
      /\ Fetches(h) => knows'.boot = boot /\ knows'.scope = sc /\ knows'.seqs = Meeting(sc, Len(journal))
      /\ ~Fetches(h) => /\ knows'.boot = knows.boot
                        /\ knows'.scope = IF knows.scope = sc THEN knows.scope ELSE NoScope
                        /\ knows.seqs \subseteq knows'.seqs
                        /\ h.kind = "event" => h.seq \in knows'.seqs
 <2>1. CASE Fetches(h)
  <3>1. knows' = [boot |-> boot, scope |-> sc, seqs |-> Meeting(sc, Len(journal)), greeted |-> TRUE]
    BY <2>1 DEF Receive, seq
  <3>2. Meeting(sc, Len(journal)) \in SUBSET Nat BY <1>2 DEF Meeting
  <3> QED BY <1>2, <2>1, <3>1, <3>2
 <2>2. CASE ~Fetches(h)
  <3> DEFINE ks == IF h.kind = "event" THEN knows.seqs \cup {h.seq} ELSE knows.seqs
             kc == IF knows.scope = sc THEN knows.scope ELSE NoScope
  <3>1. knows' = [knows EXCEPT !.greeted = TRUE, !.scope = kc, !.seqs = ks] BY <2>2 DEF Receive
  <3>2. /\ ks \in SUBSET Nat /\ kc \in Scopes \cup {NoScope}
        /\ knows.seqs \subseteq ks /\ (h.kind = "event" => h.seq \in ks) BY <1>2
  <3> HIDE DEF ks, kc
  <3>3. /\ knows' \in [boot : Nat, scope : Scopes \cup {NoScope}, seqs : SUBSET Nat, greeted : BOOLEAN]
        /\ knows'.boot = knows.boot /\ knows'.scope = kc /\ knows'.seqs = ks BY <1>2, <3>1, <3>2
  <3> QED BY <2>2, <3>2, <3>3 DEF kc
 <2> QED BY <2>1, <2>2
<1>5. Follow(journal, knows, sc, boot, Out) BY <1>3 DEF EventsInv, Streams
<1> HIDE DEF rest, h, sc
<1>6. ASSUME NEW k \in 0..Len(rest), NEW n \in Nat, n <= Len(journal),
             Covers(journal, knows, sc, boot, Out, k + 1, n)
      PROVE  Covers(journal, knows', sc, boot, rest, k, n)
 <2>1. SUFFICES ASSUME knows'.scope = sc, \A i \in 1..k : ~Fetches(rest[i])
                PROVE  /\ knows'.boot = boot
                       /\ \A i \in 1..n : Intersects(sc, journal[i].path) =>
                            i \in knows'.seqs \/ \E l \in 1..k : rest[l].kind = "event" /\ rest[l].seq = i
   BY DEF Covers
 <2>2. CASE Fetches(h) BY <1>2, <1>4, <1>6, <2>2 DEF Meeting
 <2>3. CASE ~Fetches(h)
  <3>1. knows.scope = sc /\ knows'.boot = knows.boot BY <1>2, <1>4, <2>1, <2>3
  <3>2. ASSUME NEW i \in 1..k + 1 PROVE ~Fetches(Out[i])
   <4>1. CASE i = 1 BY <1>1, <2>3, <4>1
   <4>2. CASE i # 1
    <5>1. i - 1 \in 1..k /\ i - 1 \in 1..Len(rest) /\ (i - 1) + 1 = i BY <1>1, <4>2
    <5>2. rest[i - 1] = Out[i] BY <1>1, <5>1
    <5> QED BY <2>1, <5>1, <5>2
   <4> QED BY <4>1, <4>2
  <3>3. /\ knows.boot = boot
        /\ \A i \in 1..n : Intersects(sc, journal[i].path) =>
             i \in knows.seqs \/ \E l \in 1..k + 1 : Out[l].kind = "event" /\ Out[l].seq = i
    BY <1>6, <3>1, <3>2 DEF Covers
  <3>4. ASSUME NEW l \in 1..k + 1, Out[l].kind = "event"
        PROVE  Out[l].seq \in knows'.seqs \/ \E m \in 1..k : rest[m].kind = "event" /\ rest[m].seq = Out[l].seq
   <4>1. CASE l = 1 BY <1>1, <1>4, <2>3, <3>4, <4>1
   <4>2. CASE l # 1
    <5>1. l - 1 \in 1..k /\ l - 1 \in 1..Len(rest) /\ (l - 1) + 1 = l BY <1>1, <4>2
    <5>2. rest[l - 1] = Out[l] BY <1>1, <5>1
    <5> QED BY <3>4, <5>1, <5>2
   <4> QED BY <4>1, <4>2
  <3> QED BY <1>4, <2>3, <3>1, <3>3, <3>4
 <2> QED BY <2>2, <2>3
<1>7. Follow(journal, knows', sc, boot, rest)
 <2>1. ASSUME NEW k \in 1..Len(rest)
       PROVE  rest[k].seq <= Len(journal) /\ Covers(journal, knows', sc, boot, rest, k, rest[k].seq)
  <3>1. k + 1 \in 1..Len(Out) /\ rest[k] = Out[k + 1] /\ k \in 0..Len(rest) BY <1>1
  <3>2. rest[k] \in Frame BY <1>1, ElementOfSeq
  <3>3. rest[k].seq \in Nat BY <3>2 DEF Frame
  <3>4. rest[k].seq <= Len(journal) /\ Covers(journal, knows, sc, boot, Out, k + 1, rest[k].seq)
    BY <1>5, <3>1 DEF Follow
  <3> QED BY <1>6, <3>1, <3>3, <3>4
 <2> QED BY <2>1 DEF Follow
<1>8. h.seq <= Len(journal) /\ Covers(journal, knows', sc, boot, rest, 0, h.seq)
 <2>1. h.seq <= Len(journal) /\ Covers(journal, knows, sc, boot, Out, 0 + 1, h.seq) BY <1>1, <1>5 DEF Follow
 <2>2. 0 \in 0..Len(rest) BY <1>1
 <2> QED BY <1>2, <1>6, <2>1, <2>2
<1>9. cursor' \in [boot : Nat, seq : Nat] /\ cursor'.boot = boot /\ cursor'.seq = h.seq BY <1>2, <1>3
<1>10. CursorKnown'
 <2>1. \A c, n : Meeting(c, n)' = {i \in 1..n : Intersects(c, journal[i].path)} BY <1>3 DEF Meeting
 <2>2. ASSUME knows'.scope # NoScope
       PROVE  knows'.boot = boot /\ {i \in 1..h.seq : Intersects(knows'.scope, journal[i].path)} \subseteq knows'.seqs
  <3>1. knows'.scope = sc BY <1>4, <2>2
  <3> QED BY <1>8, <3>1 DEF Covers
 <2> QED BY <1>2, <1>3, <1>8, <1>9, <2>2 DEF CursorKnown, Meeting
<1>11. /\ sub' \in [state : {"off", "on", "ended"}, scope : Scopes, blocked : BOOLEAN, queue : Seq(Frame)]
       /\ SubShape' /\ (sub'.state # "off" => sub' = sub /\ Out' = rest)
 <2>1. CASE sub.state = "ended" /\ Len(wire) = 1
  <3>1. sub' = NoSub /\ wire' = <<>>
   <4>1. Tail(wire) = <<>>
    <5> DEFINE t == Tail(wire)
    <5>1. t \in Seq(Frame) /\ Len(t) = 0 BY <1>1, <2>1
    <5> HIDE DEF t
    <5>2. t = <<>> BY <5>1, EmptySeq
    <5> QED BY <5>2 DEF t
   <4> QED BY <1>3, <2>1, <4>1
  <3> QED BY <3>1, EmptySeq DEF NoSub, Scopes, SubShape
 <2>2. CASE ~(sub.state = "ended" /\ Len(wire) = 1)
  <3>1. sub' = sub BY <1>3, <2>2
  <3> QED BY <1>3, <3>1, OutFacts DEF Out, rest, SubShape, EventsInv
 <2> QED BY <2>1, <2>2
<1>12. EventsTypes' BY <1>1, <1>3, <1>4, <1>9, <1>11 DEF EventsTypes, EventsInv
<1>13. Streams'
 <2>1. CASE sub'.state # "off"
  <3>1. sub' = sub /\ Out' = rest /\ sub.scope = sc BY <1>11, <2>1 DEF sc
  <3>2. ASSUME sub.state = "on" PROVE Covers(journal, knows', sc, boot, rest, Len(rest), Len(journal))
   <4>1. Covers(journal, knows, sc, boot, Out, Len(Out), Len(journal)) BY <3>2 DEF EventsInv, Streams, sc
   <4>2. Len(rest) \in 0..Len(rest) /\ Len(rest) + 1 = Len(Out) BY <1>1
   <4> QED BY <1>2, <1>6, <4>1, <4>2
  <3> QED BY <1>3, <1>7, <1>9, <3>1, <3>2 DEF Streams
 <2>2. CASE sub'.state = "off" BY <2>2 DEF Streams
 <2> QED BY <2>1, <2>2
<1> QED BY <1>10, <1>11, <1>12, <1>13 DEF EventsInv

\* The frames of a resumed connection: the ring holds every event after the browser's id.
LEMMA ReplayFollows ==
  ASSUME EventsInv, NEW scope \in Scopes, Resumes(scope, cursor)
  PROVE  LET frames == <<[kind |-> "resumed", seq |-> cursor.seq]>> \o Replayed(scope, cursor.seq)
         IN  /\ frames \in Seq(Frame) /\ Len(frames) \in Nat /\ Len(frames) >= 1
             /\ Follow(journal, knows, scope, boot, frames)
             /\ Covers(journal, knows, scope, boot, frames, Len(frames), Len(journal))
<1> DEFINE c == cursor.seq
           N == Len(journal)
           J == {n \in Ring : n > c /\ Intersects(scope, journal[n].path)}
           s == [n \in 1 .. seq |-> FrameOf(n)]
           first == [kind |-> "resumed", seq |-> c]
           R == Sublist(s, J)
           frames == <<first>> \o R
<1>1. /\ N \in Nat /\ c \in Nat /\ floor \in Nat /\ floor <= c /\ c <= N /\ cursor.boot = boot
      /\ journal \in Seq([path : Folders \cup {Root}, kind : {"event", "reset"}])
      /\ ~\E n \in Ring : n > c /\ journal[n].kind = "reset" /\ Intersects(scope, journal[n].path)
  BY OutFacts DEF EventsInv, EventsTypes, Resumes, Gap, seq
<1>2. ASSUME NEW i \in 1..N PROVE journal[i].kind \in {"event", "reset"}
 <2>1. journal[i] \in [path : Folders \cup {Root}, kind : {"event", "reset"}] BY <1>1, ElementOfSeq
 <2> QED BY <2>1
<1>3. /\ s \in Seq(Frame) /\ Len(s) = N
      /\ \A i \in 1..N : s[i].kind = journal[i].kind /\ s[i].seq = i
 <2>1. \A i \in 1..N : FrameOf(i) \in Frame BY <1>1, <1>2 DEF FrameOf, Frame
 <2>2. s \in Seq(Frame) /\ Len(s) = N BY <1>1, <2>1 DEF seq
 <2> QED BY <1>1, <2>2 DEF FrameOf, seq
<1>4. /\ J \in SUBSET (1..Len(s))
      /\ \A i \in 1..N : i \in J <=> i > c /\ Intersects(scope, journal[i].path)
      /\ \A i \in J : i \in 1..N /\ journal[i].kind = "event"
 <2>1. Ring = floor + 1 .. N BY DEF Ring, seq
 <2>2. ASSUME NEW i \in J PROVE i \in 1..N /\ journal[i].kind = "event"
  <3>1. i \in Ring /\ i > c /\ Intersects(scope, journal[i].path) OBVIOUS
  <3>2. i \in 1..N BY <1>1, <2>1, <3>1
  <3> QED BY <1>1, <1>2, <3>1, <3>2
 <2>3. ASSUME NEW i \in 1..N PROVE i \in J <=> i > c /\ Intersects(scope, journal[i].path)
  <3>1. i > c => i \in Ring BY <1>1, <2>1
  <3> QED BY <3>1
 <2> HIDE DEF J
 <2> QED BY <1>3, <2>2, <2>3
<1> HIDE DEF J, s
<1>5. /\ R \in Seq(Frame) /\ Len(R) \in Nat
      /\ \A i \in J : Rank(J, i) \in 1..Len(R) /\ R[Rank(J, i)] = s[i]
      /\ \A i, k \in J : i < k => Rank(J, i) < Rank(J, k)
      /\ \A k \in 1..Len(R) : \E i \in J : Rank(J, i) = k /\ R[k] = s[i]
 <2>1. /\ R \in Seq(Frame) /\ Len(R) = Cardinality(J) /\ Cardinality(J) \in Nat
       /\ \A i \in J : Rank(J, i) \in 1..Cardinality(J) /\ R[Rank(J, i)] = s[i]
       /\ \A i, k \in J : i < k => Rank(J, i) < Rank(J, k)
       /\ \A k \in 1..Cardinality(J) : \E i \in J : Rank(J, i) = k /\ R[k] = s[i] BY <1>3, <1>4, SublistProperties
 <2> QED BY <2>1
<1> HIDE DEF R
<1>6. first \in Frame /\ first.kind = "resumed" /\ first.seq = c BY <1>1 DEF Frame
<1> HIDE DEF first
<1>7. /\ frames \in Seq(Frame) /\ Len(frames) = Len(R) + 1 /\ frames[1] = first
      /\ \A k \in 1..Len(R) : frames[k + 1] = R[k]
 <2>1. <<first>> \in Seq(Frame) /\ Len(<<first>>) = 1 /\ <<first>>[1] = first BY <1>6
 <2>2. /\ frames \in Seq(Frame) /\ Len(frames) = 1 + Len(R)
       /\ \A i \in 1..1 + Len(R) : frames[i] = IF i <= 1 THEN <<first>>[i] ELSE R[i - 1]
   BY <1>5, <2>1, ConcatProperties
 <2> HIDE DEF frames
 <2>3. frames[1] = first BY <1>5, <2>1, <2>2
 <2>4. ASSUME NEW k \in 1..Len(R) PROVE frames[k + 1] = R[k]
  <3>1. k + 1 \in 1..1 + Len(R) /\ ~(k + 1 <= 1) /\ (k + 1) - 1 = k BY <1>5
  <3> QED BY <2>2, <3>1
 <2> QED BY <1>5, <2>2, <2>3, <2>4
<1> HIDE DEF frames
<1>8. ASSUME NEW k \in 1..Len(frames), NEW n \in Nat, n <= N,
             \A i \in J : i <= n => Rank(J, i) + 1 <= k
      PROVE  Covers(journal, knows, scope, boot, frames, k, n)
 <2>1. SUFFICES ASSUME knows.scope = scope
                PROVE  /\ knows.boot = boot
                       /\ \A i \in 1..n : Intersects(scope, journal[i].path) =>
                            i \in knows.seqs \/ \E l \in 1..k : frames[l].kind = "event" /\ frames[l].seq = i
   BY DEF Covers
 <2>2. scope # NoScope BY EventsAssumption DEF Scopes, NoScope, Root
 <2>3. knows.boot = boot /\ Meeting(scope, c) \subseteq knows.seqs BY <1>1, <2>1, <2>2 DEF EventsInv, CursorKnown
 <2>4. ASSUME NEW i \in 1..n, Intersects(scope, journal[i].path)
       PROVE  i \in knows.seqs \/ \E l \in 1..k : frames[l].kind = "event" /\ frames[l].seq = i
  <3>1. CASE i <= c BY <1>1, <2>3, <2>4, <3>1 DEF Meeting
  <3>2. CASE i > c
   <4> DEFINE r == Rank(J, i)
   <4>1. i \in 1..N /\ i \in J /\ i <= n BY <1>1, <1>4, <1>8, <2>4, <3>2
   <4>2. r \in 1..Len(R) /\ r + 1 <= k /\ R[r] = s[i] /\ s[i].kind = "event" /\ s[i].seq = i
     BY <1>3, <1>4, <1>5, <1>8, <4>1
   <4> HIDE DEF r
   <4>3. r + 1 \in 1..k /\ frames[r + 1] = s[i] BY <1>5, <1>7, <4>2
   <4> QED BY <4>2, <4>3
  <3> QED BY <1>1, <3>1, <3>2
 <2> QED BY <2>3, <2>4
<1>9. Follow(journal, knows, scope, boot, frames)
 <2>1. ASSUME NEW k \in 1..Len(frames)
       PROVE  frames[k].seq <= N /\ Covers(journal, knows, scope, boot, frames, k, frames[k].seq)
  <3>1. CASE k = 1
   <4>1. \A i \in J : ~(i <= c) BY <1>1, <1>4
   <4>2. Covers(journal, knows, scope, boot, frames, k, c) BY <1>1, <1>8, <4>1
   <4> QED BY <1>1, <1>6, <1>7, <3>1, <4>2
  <3>2. CASE k # 1
   <4>1. k - 1 \in 1..Len(R) /\ (k - 1) + 1 = k BY <1>5, <1>7, <3>2
   <4>2. PICK i \in J : Rank(J, i) = k - 1 /\ R[k - 1] = s[i] BY <1>5, <4>1
   <4>3. frames[k] = s[i] /\ i \in 1..N /\ s[i].seq = i BY <1>3, <1>4, <1>7, <4>1, <4>2
   <4>4. ASSUME NEW m \in J, m <= i PROVE Rank(J, m) + 1 <= k
    <5>1. m \in 1..N /\ Rank(J, m) \in 1..Len(R) BY <1>4, <1>5
    <5>2. m < i => Rank(J, m) < Rank(J, i) BY <1>5
    <5>3. m = i \/ m < i BY <4>3, <4>4, <5>1
    <5> QED BY <4>1, <4>2, <5>1, <5>2, <5>3
   <4>5. Covers(journal, knows, scope, boot, frames, k, i) BY <1>1, <1>8, <4>3, <4>4
   <4> QED BY <1>1, <4>3, <4>5
  <3> QED BY <3>1, <3>2
 <2> QED BY <2>1 DEF Follow
<1>10. Covers(journal, knows, scope, boot, frames, Len(frames), N)
 <2>1. Len(frames) \in 1..Len(frames) /\ \A i \in J : i <= N => Rank(J, i) + 1 <= Len(frames) BY <1>4, <1>5, <1>7
 <2> QED BY <1>1, <1>8, <2>1
<1> QED BY <1>5, <1>7, <1>9, <1>10 DEF frames, R, first, s, J, Replayed

\* What attach writes first: a replay, or a frame that makes the browser fetch its scope.
Greeting(scope) ==
    IF Resumes(scope, cursor) THEN <<[kind |-> "resumed", seq |-> cursor.seq]>> \o Replayed(scope, cursor.seq)
    ELSE <<[kind |-> "ready", seq |-> seq]>>
         \o (IF cursor = NoCursor THEN <<>> ELSE <<[kind |-> "reset", seq |-> seq]>>)

LEMMA GreetingFollows ==
  ASSUME EventsInv, NEW scope \in Scopes
  PROVE  /\ Greeting(scope) \in Seq(Frame) /\ Len(Greeting(scope)) \in Nat /\ Len(Greeting(scope)) >= 1
         /\ Follow(journal, knows, scope, boot, Greeting(scope))
         /\ Covers(journal, knows, scope, boot, Greeting(scope), Len(Greeting(scope)), Len(journal))
<1>1. CASE Resumes(scope, cursor) BY <1>1, ReplayFollows DEF Greeting
<1>2. CASE ~Resumes(scope, cursor)
 <2> DEFINE ready == [kind |-> "ready", seq |-> seq]
            reset == [kind |-> "reset", seq |-> seq]
            g == Greeting(scope)
 <2>1. /\ Len(journal) \in Nat /\ seq = Len(journal) /\ ready \in Frame /\ reset \in Frame
       /\ ready.kind = "ready" /\ ready.seq = seq /\ reset.seq = seq BY OutFacts DEF Frame, seq
 <2> DEFINE t == IF cursor = NoCursor THEN <<>> ELSE <<reset>>
 <2>2. g = <<ready>> \o t BY <1>2 DEF Greeting
 <2> HIDE DEF ready, reset, g
 <2>3. /\ g \in Seq(Frame) /\ Len(g) \in Nat /\ Len(g) >= 1 /\ g[1] = ready
       /\ \A k \in 1..Len(g) : g[k].seq = seq
  <3>1. <<ready>> \in Seq(Frame) /\ Len(<<ready>>) = 1 /\ <<ready>>[1] = ready BY <2>1
  <3>2. <<reset>> \in Seq(Frame) /\ Len(<<reset>>) = 1 /\ <<reset>>[1] = reset BY <2>1
  <3>3. t \in Seq(Frame) /\ Len(t) \in {0, 1} /\ \A k \in 1..Len(t) : t[k] = reset
   <4>1. CASE cursor = NoCursor BY <4>1, EmptySeq
   <4>2. CASE cursor # NoCursor BY <3>2, <4>2
   <4> QED BY <4>1, <4>2
  <3> HIDE DEF t
  <3>4. /\ g \in Seq(Frame) /\ Len(g) = 1 + Len(t)
        /\ \A k \in 1..1 + Len(t) : g[k] = IF k <= 1 THEN <<ready>>[k] ELSE t[k - 1]
    BY <2>2, <3>1, <3>3, ConcatProperties
  <3>5. ASSUME NEW k \in 1..Len(g) PROVE g[k].seq = seq
   <4>1. CASE k = 1 BY <2>1, <3>1, <3>3, <3>4, <4>1
   <4>2. CASE k # 1
    <5>1. k - 1 \in 1..Len(t) /\ g[k] = t[k - 1] BY <3>3, <3>4, <4>2
    <5> QED BY <2>1, <3>3, <5>1
   <4> QED BY <4>1, <4>2
  <3> QED BY <3>1, <3>3, <3>4, <3>5
 <2>4. ASSUME NEW k \in 1..Len(g), NEW n PROVE Covers(journal, knows, scope, boot, g, k, n)
  <3>1. 1 \in 1..k /\ Fetches(g[1]) BY <2>1, <2>3 DEF Fetches
  <3> QED BY <3>1 DEF Covers
 <2>5. Follow(journal, knows, scope, boot, g) BY <2>1, <2>3, <2>4 DEF Follow
 <2>6. Len(g) \in Nat /\ Len(g) >= 1 /\ Len(g) \in 1..Len(g) BY <2>3
 <2> QED BY <2>3, <2>4, <2>5, <2>6 DEF g
<1> QED BY <1>1, <1>2

\* Fewer of the frames, and a reset after them.
LEMMA CutFollows ==
  ASSUME NEW j \in Seq([path : Folders \cup {Root}, kind : {"event", "reset"}]), NEW kn, NEW sc, NEW b,
         NEW out \in Seq(Frame), NEW m \in 1..Len(out), Follow(j, kn, sc, b, out)
  PROVE  LET cut == Append(SubSeq(out, 1, m), [kind |-> "reset", seq |-> Len(j)])
         IN  cut \in Seq(Frame) /\ Follow(j, kn, sc, b, cut)
<1> DEFINE f == [kind |-> "reset", seq |-> Len(j)]
           p == SubSeq(out, 1, m)
           cut == Append(p, f)
<1>1. f \in Frame /\ f.kind = "reset" /\ f.seq = Len(j) /\ Len(j) \in Nat /\ Len(out) \in Nat
  BY LenProperties DEF Frame
<1> HIDE DEF f
<1>2. p \in Seq(Frame) /\ Len(p) = m /\ \A i \in 1..m : p[i] = out[i]
 <2>1. m \in Nat /\ \A i \in 1..m : out[i] \in Frame BY <1>1, ElementOfSeq
 <2>2. /\ p \in Seq(Frame) /\ Len(p) = IF 1 <= m THEN m - 1 + 1 ELSE 0
       /\ \A i \in 1 .. m - 1 + 1 : p[i] = out[1 + i - 1] BY <2>1, SubSeqProperties
 <2> HIDE DEF p
 <2> QED BY <1>1, <2>2
<1> HIDE DEF p
<1>3. Follow(j, kn, sc, b, p)
 <2>1. ASSUME NEW k \in 1..Len(p)
       PROVE  p[k].seq <= Len(j) /\ Covers(j, kn, sc, b, p, k, p[k].seq)
  <3>1. k \in 1..Len(out) /\ p[k] = out[k] /\ \A i \in 1..k : p[i] = out[i] BY <1>1, <1>2
  <3>2. out[k].seq <= Len(j) /\ Covers(j, kn, sc, b, out, k, out[k].seq) BY <3>1 DEF Follow
  <3> QED BY <3>1, <3>2 DEF Covers
 <2> QED BY <2>1 DEF Follow
<1>4. cut \in Seq(Frame) /\ Len(p) + 1 \in 1..Len(p) + 1 /\ cut[Len(p) + 1] = f BY <1>1, <1>2, AppendProperties
<1>5. Covers(j, kn, sc, b, cut, Len(p) + 1, f.seq) BY <1>1, <1>4 DEF Covers, Fetches
<1>6. Follow(j, kn, sc, b, cut)
 <2>1. f.seq <= Len(j) BY <1>1
 <2> HIDE DEF cut
 <2>2. Covers(j, kn, sc, b, Append(p, f), Len(p) + 1, f.seq) BY <1>5 DEF cut
 <2>3. Follow(j, kn, sc, b, Append(p, f)) BY <1>1, <1>2, <1>3, <2>1, <2>2, FollowAppend
 <2> QED BY <2>3 DEF cut
<1> QED BY <1>4, <1>6 DEF cut, p, f

\* A browser connects: greeted, replayed to, or disconnected before it has everything.
LEMMA AttachKeeps == ASSUME EventsInv, NEW scope \in Scopes, Attach(scope) PROVE EventsInv'
<1> DEFINE g == Greeting(scope)
           n == Len(g)
           cutoff == IF n > SubscriberSize THEN SubscriberSize ELSE n
<1>1. /\ sub.state = "off" /\ UNCHANGED <<journal, floor, boot, cursor>> /\ knows' = [knows EXCEPT !.greeted = FALSE]
      /\ \/ /\ n > SubscriberSize
            /\ \/ UNCHANGED <<wire, sub>>
               \/ /\ wire' = Append(SubSeq(g, 1, cutoff), [kind |-> "reset", seq |-> seq])
                  /\ sub' = [NoSub EXCEPT !.state = "ended", !.scope = scope]
         \/ \E k \in 1 .. n, b \in BOOLEAN :
                /\ k < n => b
                /\ wire' = SubSeq(g, 1, k)
                /\ sub' = [state |-> "on", scope |-> scope, blocked |-> b, queue |-> SubSeq(g, k + 1, n)]
  BY DEF Attach, Greeting
<1>2. /\ g \in Seq(Frame) /\ n \in Nat /\ n >= 1
      /\ Follow(journal, knows, scope, boot, g) /\ Covers(journal, knows, scope, boot, g, n, Len(journal))
  BY GreetingFollows
<1> HIDE DEF g
<1>3. /\ knows'.greeted = FALSE /\ Regreeted
      /\ \A out : Follow(journal, knows, scope, boot, out) => Follow(journal, knows', scope, boot, out)
      /\ Covers(journal, knows', scope, boot, g, n, Len(journal)) BY <1>1, <1>2, OutFacts, FollowGreeted DEF Regreeted
<1>4. CASE UNCHANGED <<wire, sub>>
 <2>1. StreamKept BY <1>1, <1>4, OutFacts DEF StreamKept, EventsInv, SubShape
 <2> QED BY <1>1, <1>3, <1>4, <2>1, EndKeeps
<1>5. CASE /\ n > SubscriberSize
           /\ wire' = Append(SubSeq(g, 1, cutoff), [kind |-> "reset", seq |-> seq])
           /\ sub' = [NoSub EXCEPT !.state = "ended", !.scope = scope]
 <2>1. /\ sub'.state = "ended" /\ sub'.scope = scope /\ sub'.queue = <<>> /\ ~sub'.blocked
       /\ sub' \in [state : {"off", "on", "ended"}, scope : Scopes, blocked : BOOLEAN, queue : Seq(Frame)]
   BY <1>5, EmptySeq DEF NoSub
 <2>2. SubscriberSize \in 1..n /\ cutoff = SubscriberSize BY <1>2, <1>5, EventsAssumption
 <2>3. wire' \in Seq(Frame) /\ Follow(journal, knows, scope, boot, wire')
   BY <1>2, <1>5, <2>2, OutFacts, CutFollows DEF seq
 <2>4. Out' = wire' BY <2>1, <2>3, ConcatEmptySeq DEF Out
 <2>5. StreamKept BY <1>1, <1>3, <2>1, <2>3, <2>4 DEF StreamKept, SubShape
 <2> QED BY <1>1, <1>3, <2>1, <2>5, EndKeeps
<1>6. ASSUME NEW k \in 1 .. n, NEW b \in BOOLEAN, k < n => b, wire' = SubSeq(g, 1, k),
             sub' = [state |-> "on", scope |-> scope, blocked |-> b, queue |-> SubSeq(g, k + 1, n)]
      PROVE  EventsInv'
 <2> DEFINE p == SubSeq(g, 1, k)
            q == SubSeq(g, k + 1, n)
 <2>1. p \in Seq(Frame) /\ q \in Seq(Frame) /\ (k = n => q = <<>>)
  <3>1. \A i \in 1..n : g[i] \in Frame BY <1>2, ElementOfSeq
  <3>2. p \in Seq(Frame) BY <1>2, <3>1, SubSeqProperties
  <3>3. k + 1 \in Int /\ n \in Int /\ \A i \in k + 1 .. n : g[i] \in Frame BY <1>2, <3>1
  <3>4. q \in Seq(Frame) BY <3>3, SubSeqProperties
  <3>5. k = n => q = <<>> BY <1>2, SubSeqEmpty
  <3> QED BY <3>2, <3>4, <3>5
 <2>2. p \o q = g
  <3>1. 1 \in 1 .. Len(g) + 1 /\ k \in 1 - 1 .. Len(g) /\ n \in k .. Len(g) BY <1>2
  <3>2. p \o q = SubSeq(g, 1, n) BY <1>2, <3>1, ConcatAdjacentSubSeq
  <3> QED BY <1>2, <3>2, SubSeqFull
 <2> HIDE DEF p, q
 <2>3. /\ sub'.state = "on" /\ sub'.scope = scope /\ sub'.queue = q /\ sub'.blocked = b
       /\ sub' \in [state : {"off", "on", "ended"}, scope : Scopes, blocked : BOOLEAN, queue : Seq(Frame)]
       /\ wire' = p BY <1>6, <2>1 DEF p, q
 <2>4. Out' = g BY <2>2, <2>3 DEF Out
 <2>5. StreamKept
  <3>1. ~b => k = n BY <1>2, <1>6
  <3>2. SubShape' BY <2>1, <2>3, <3>1 DEF SubShape
  <3> QED BY <1>1, <1>2, <1>3, <2>1, <2>3, <2>4, <3>2 DEF StreamKept
 <2>6. Covers(journal', knows', sub'.scope, boot, Out', Len(Out'), Len(journal')) BY <1>1, <1>3, <2>3, <2>4
 <2>7. /\ floor' \in Nat /\ floor' <= Len(journal') /\ Len(journal) <= Len(journal')
       /\ journal' \in Seq([path : Folders \cup {Root}, kind : {"event", "reset"}])
       /\ \A i \in 1..Len(journal) : journal'[i] = journal[i] BY <1>1, OutFacts DEF EventsInv, EventsTypes
 <2> QED BY <1>1, <1>3, <2>5, <2>6, <2>7, StepKeeps
<1> QED BY <1>1, <1>4, <1>5, <1>6

LEMMA EventsStep == EventsInv /\ [EventsNext]_eventVars => EventsInv'
<1> SUFFICES ASSUME EventsInv, [EventsNext]_eventVars PROVE EventsInv' OBVIOUS
<1>1. CASE \E path \in Folders : Publish(path, "event") BY <1>1, EventKeeps
<1>2. CASE Publish(Root, "reset") BY <1>2, EventKeeps
<1>3. CASE \E s \in Scopes : Attach(s) BY <1>3, AttachKeeps
<1>4. CASE \E s \in Scopes : OtherSubscriber(s) BY <1>4, UntouchedKeeps DEF OtherSubscriber
<1>5. CASE DrainSubscriber BY <1>5, DrainKeeps
<1>6. CASE Stall BY <1>6, StallKeeps
<1>7. CASE Disconnect BY <1>7, DisconnectKeeps
<1>8. CASE Receive BY <1>8, ReceiveKeeps
<1>9. CASE Restart BY <1>9, RestartKeeps
<1>10. CASE UNCHANGED eventVars BY <1>10, UntouchedKeeps DEF eventVars
<1> QED BY <1>1, <1>2, <1>3, <1>4, <1>5, <1>6, <1>7, <1>8, <1>9, <1>10 DEF EventsNext

\* The promise follows: with nothing outstanding, or up to the id the browser has.
LEMMA EventsInvIsEnough == EventsInv => NoMissedChange
<1> SUFFICES ASSUME EventsInv, sub.state = "on", knows.greeted, knows.scope = sub.scope
             PROVE  Informed(cursor.seq) /\ (wire = <<>> /\ sub.queue = <<>> => Informed(seq)) BY DEF NoMissedChange
<1>1. knows.scope # NoScope BY OutFacts, EventsAssumption DEF Scopes, NoScope, Root
<1>2. Informed(cursor.seq) BY <1>1 DEF EventsInv, Streams, CursorKnown, Informed
<1>3. ASSUME wire = <<>>, sub.queue = <<>> PROVE Informed(seq)
 <2>1. Out = <<>> /\ Len(Out) = 0 BY <1>3, OutFacts, EmptySeq
 <2>2. Covers(journal, knows, sub.scope, boot, Out, 0, Len(journal)) BY <2>1 DEF EventsInv, Streams
 <2> QED BY <2>2 DEF Covers, Informed, Meeting, seq
<1> QED BY <1>2, <1>3

\* A browser that keeps its scope is never left with a stale tree, whichever connections,
\* overflows, pauses and boots came between (publish, attach and the subscriber's frames).
THEOREM NoChangeIsMissed == EventsSpec => []NoMissedChange
<1>1. EventsInit => EventsInv BY EventsInitially
<1>2. EventsInv /\ [EventsNext]_eventVars => EventsInv' BY EventsStep
<1>3. EventsInv => NoMissedChange BY EventsInvIsEnough
<1> QED BY <1>1, <1>2, <1>3, PTL DEF EventsSpec
================================================================================
