-------------------------- MODULE Conversation_proofs --------------------------
(***************************************************************************)
(* Proofs about what surrounds the turns of a conversation: its permission *)
(* requests (Permissions), the wish to restart the engine for its tools    *)
(* (ToolsRestart), which call runs which specialist (ChildLinks), its      *)
(* records on disk (ConversationStore) and the log of its events           *)
(* (SessionLog), for any number of conversations, requests, tools,         *)
(* sockets, calls, turns, events, crashes and restarts.                    *)
(***************************************************************************)
EXTENDS Permissions, ToolsRestart, ChildLinks, ConversationStore, SessionLog, Sublists_proofs,
        SequenceTheorems, TLAPS

--------------------
\* Permissions: a question of the turn that runs is shown to the backend
\* as a machine that needs input, and what is approved without asking was
\* once allowed for good by a user.

Stages == {"none", "opening", "logging", "registering", "asked", "overtaken", "answered"}
Answerers == {"nobody", "turn_end", "cancel", "engine_exit", "policy", "user", "engine", "timeout"}
Request == [st : Stages, tool : Tools \cup {NoTool}, from : Nat, turn : Nat, by : Answerers]

AskTypes ==
    /\ req \in [Requests -> Request]
    /\ stage \in {"idle", "admitted", "running", "ending"} /\ turnNo \in Nat /\ asking \subseteq Nat
    /\ lease \in {"none", "prompt_running", "permission_pending"}

\* A prompt the engine works on, or that has asked, is of a turn that got as far as its lease.
Prompted(n) == n <= turnNo /\ (stage = "admitted" => n < turnNo)

\* A request that was registered while a turn ran is pending while that turn runs; and if it
\* is the turn's own, the lease says so.
BelongsTo(q) ==
    q.st \in {"registering", "asked"} /\ q.turn # 0 =>
        /\ Running /\ q.turn = turnNo
        /\ q.st = "asked" /\ q.from = turnNo => lease = "permission_pending"

Belongs ==
    /\ stage = "running" => lease # "none"
    /\ \A n \in asking \cup {0} : Prompted(n)
    /\ \A r \in Requests : Prompted(req[r].from) /\ BelongsTo(req[r])

\* Every rule in memory, on its way to the file or in the file was a user's,
\* and so is the tool of a request that is being answered by policy.
RulesConsented ==
    /\ rules \subseteq consented
    /\ ruleFile = Torn \/ ruleFile \subseteq consented
    /\ \A w \in ruleWrites : w \subseteq consented
    /\ \A r \in Requests : req[r].st = "logging" => req[r].tool \in consented

AsksInv == AskTypes /\ Belongs /\ RulesConsented /\ PolicyNeedsConsent

LEMMA NoRequestType == NoRequest \in Request BY DEF NoRequest, Request, Stages, Answerers

LEMMA AnsweredType ==
  ASSUME NEW q \in Request, NEW by \in Answerers
  PROVE  LET p == Answered(q, by) IN
         /\ p \in Request /\ p.st \in {"overtaken", "answered"} /\ p.tool = q.tool /\ p.by = by /\ p.from = 0
BY DEF Answered, NoRequest, Request, Stages

\* Answering: the requests of rs are out of pending, the others are as they were.
LEMMA AnswerStep ==
  ASSUME AsksInv, NEW rs \in SUBSET OpenRequests, NEW by \in Answerers \ {"policy", "nobody"}, Answer(rs, by),
         asking' \subseteq asking, UNCHANGED <<stage, turnNo>>
  PROVE  /\ AskTypes' /\ Belongs'
         /\ \A r \in Requests : /\ req'[r].tool = req[r].tool
                                /\ req'[r].by = "policy" => req[r].by = "policy"
                                /\ req'[r].st = "logging" => req[r].st = "logging"
<1> DEFINE Given(r) == Answered(req[r], by)
           q == [r \in Requests |-> IF r \in rs THEN Given(r) ELSE req[r]]
<1>0. AskTypes /\ Belongs BY DEF AsksInv
<1>1. req' = q /\ lease' = IF rs = {} THEN lease ELSE LeaseAfter(q) BY DEF Answer
<1>2. ASSUME NEW r \in Requests
      PROVE  /\ Given(r) \in Request /\ Given(r).tool = req[r].tool /\ Given(r).by = by /\ Given(r).from = 0
             /\ Given(r).st \in {"overtaken", "answered"} BY <1>0, AnsweredType DEF AskTypes
<1> HIDE DEF Given
<1>3. \A r \in Requests : q[r] = IF r \in rs THEN Given(r) ELSE req[r] OBVIOUS
<1>4. q \in [Requests -> Request] BY <1>0, <1>2 DEF AskTypes
<1>5. lease' \in {lease, "prompt_running"} /\ (lease # "none" => lease' # "none")
  BY <1>0, <1>1 DEF LeaseAfter, SetState, AskTypes
<1> HIDE DEF q
<1>6. AskTypes' BY <1>0, <1>1, <1>4, <1>5 DEF AskTypes
<1>7. (\A n \in asking \cup {0} : Prompted(n))' BY <1>0 DEF Belongs, Prompted
<1>8. \A r \in Requests : q[r].st \in {"registering", "asked"} => q[r] = req[r] BY <1>2, <1>3
<1>9. ASSUME NEW r \in Requests
      PROVE  (Prompted(req[r].from) /\ BelongsTo(req[r]))'
 <2>1. Prompted(req[r].from)' BY <1>0, <1>1, <1>2, <1>3 DEF Belongs, Prompted
 <2>2. ASSUME q[r].st = "asked", lease = "permission_pending"
       PROVE  lease' = "permission_pending"
  <3>1. PendingOf(q) # {} BY <2>2 DEF PendingOf
  <3> QED BY <1>1, <2>2, <3>1 DEF LeaseAfter
 <2>3. BelongsTo(req[r])' BY <1>0, <1>1, <1>8, <2>2 DEF Belongs, BelongsTo, Running
 <2> QED BY <2>1, <2>3
<1>10. Belongs' BY <1>0, <1>5, <1>7, <1>9 DEF Belongs
<1>11. ASSUME NEW r \in Requests
       PROVE  /\ q[r].tool = req[r].tool
              /\ q[r].by = "policy" => req[r].by = "policy"
              /\ q[r].st = "logging" => req[r].st = "logging" BY <1>2, <1>3
<1> QED BY <1>1, <1>6, <1>10, <1>11

\* A step that only answers keeps the whole invariant.
LEMMA OnlyAnswers ==
  ASSUME AsksInv, NEW rs \in SUBSET OpenRequests, NEW by \in Answerers \ {"policy", "nobody"}, Answer(rs, by),
         asking' \subseteq asking, UNCHANGED <<stage, turnNo, rules, ruleFile, ruleWrites, consented>>
  PROVE  AsksInv'
<1>1. AskTypes' /\ Belongs' BY AnswerStep
<1>2. \A r \in Requests : /\ req'[r].tool = req[r].tool
                          /\ req'[r].by = "policy" => req[r].by = "policy"
                          /\ req'[r].st = "logging" => req[r].st = "logging" BY AnswerStep
<1>3. RulesConsented' BY <1>2 DEF AsksInv, RulesConsented
<1>4. PolicyNeedsConsent' BY <1>2 DEF AsksInv, PolicyNeedsConsent
<1> QED BY <1>1, <1>3, <1>4 DEF AsksInv

\* A request that moves on by itself: p is what it becomes.
LEMMA RequestMoves ==
  ASSUME AsksInv, NEW r \in Requests, NEW p \in Request, req' = [req EXCEPT ![r] = p],
         UNCHANGED <<stage, turnNo, asking, rules, ruleFile, ruleWrites, consented>>,
         lease' \in {lease, "permission_pending"}, lease # "none" => lease' # "none",
         Prompted(p.from), BelongsTo(p)',
         p.st = "logging" \/ p.by = "policy" => p.tool \in consented
  PROVE  AsksInv'
<1>0. AskTypes /\ Belongs /\ RulesConsented /\ PolicyNeedsConsent BY DEF AsksInv
<1>1. \A s \in Requests : req'[s] = IF s = r THEN p ELSE req[s] BY <1>0 DEF AskTypes
<1>2. AskTypes' BY <1>0 DEF AskTypes
<1>3. \A s \in Requests : BelongsTo(req[s])' BY <1>0, <1>1 DEF Belongs, BelongsTo, Running
<1>4. \A s \in Requests : Prompted(req[s].from)' BY <1>0, <1>1 DEF Belongs, Prompted
<1>5. Belongs' BY <1>0, <1>3, <1>4 DEF Belongs, Prompted
<1>6. RulesConsented' /\ PolicyNeedsConsent' BY <1>0, <1>1 DEF RulesConsented, PolicyNeedsConsent
<1> QED BY <1>2, <1>5, <1>6 DEF AsksInv

\* A step of the turn or of the engine: every request is as it was, or answered.
LEMMA TurnMoves ==
  ASSUME AsksInv, AskTypes', UNCHANGED <<rules, ruleFile, ruleWrites, consented>>,
         \A r \in Requests : \/ req'[r] = req[r]
                             \/ /\ req'[r].st \in {"overtaken", "answered"} /\ req'[r].from = 0
                                /\ req'[r].tool = req[r].tool /\ (req'[r].by = "policy" => req[r].by = "policy"),
         stage' = "running" => lease' # "none",
         \A n \in asking' \cup {0} : Prompted(n)',
         \A n \in Nat : Prompted(n) => Prompted(n)',
         \A r \in Requests : BelongsTo(req[r])'
  PROVE  AsksInv'
<1>0. AskTypes /\ Belongs /\ RulesConsented /\ PolicyNeedsConsent BY DEF AsksInv
<1>1. ASSUME NEW r \in Requests PROVE Prompted(req[r].from)'
 <2>1. CASE req'[r] = req[r]
  <3>1. req[r].from \in Nat /\ Prompted(req[r].from) BY <1>0 DEF AskTypes, Request, Belongs
  <3> QED BY <2>1, <3>1
 <2>2. CASE req'[r].from = 0 BY <2>2
 <2> QED BY <2>1, <2>2
<1>2. Belongs' BY <1>0, <1>1 DEF Belongs
<1>3. RulesConsented' /\ PolicyNeedsConsent' BY <1>0 DEF RulesConsented, PolicyNeedsConsent
<1> QED BY <1>2, <1>3 DEF AsksInv

LEMMA AsksStep == AsksInv /\ [PermissionsNext]_permVars => AsksInv'
<1> SUFFICES ASSUME AsksInv, [PermissionsNext]_permVars PROVE AsksInv' OBVIOUS
<1>0. AskTypes /\ Belongs /\ RulesConsented /\ PolicyNeedsConsent BY DEF AsksInv
<1>a. \A r \in Requests : req[r] \in Request BY <1>0 DEF AskTypes
<1>b. \A r \in Requests : Prompted(req[r].from) /\ BelongsTo(req[r]) BY <1>0 DEF Belongs
\* The turn: its requests are answered before it ends, and it has none when it starts.
<1>1. CASE StartTurn \/ EchoDone \/ TurnSettled
 <2>1. /\ UNCHANGED <<req, asking, rules, ruleFile, ruleWrites, consented>>
       /\ \/ stage = "idle" /\ stage' = "admitted" /\ turnNo' = turnNo + 1 /\ lease' = lease
          \/ stage = "admitted" /\ stage' = "running" /\ turnNo' = turnNo /\ lease' = "prompt_running"
          \/ stage = "ending" /\ stage' = "idle" /\ turnNo' = turnNo /\ lease' = "none"
   BY <1>1 DEF StartTurn, EchoDone, TurnSettled
 <2>2. AskTypes' BY <1>0, <2>1 DEF AskTypes
 <2>3. \A n \in Nat : Prompted(n) => Prompted(n)' BY <1>0, <2>1 DEF Prompted, AskTypes
 <2>4. \A n \in asking' \cup {0} : Prompted(n)' BY <1>0, <2>1, <2>3 DEF Belongs, AskTypes
 <2>5. ASSUME NEW r \in Requests PROVE BelongsTo(req[r])'
  <3>1. req[r].st \in {"registering", "asked"} /\ req[r].turn # 0 => /\ stage = "admitted" /\ req[r].turn = turnNo
                                                                     /\ req[r].from # turnNo
    BY <1>a, <1>b, <2>1 DEF BelongsTo, Running, Prompted, Request, AskTypes
  <3> QED BY <2>1, <3>1 DEF BelongsTo, Running
 <2> QED BY <2>1, <2>2, <2>3, <2>4, <2>5, TurnMoves
<1>2. CASE PromptSent \/ EngineRestarts \/ \E n \in asking : PromptEnds(n)
 <2>1. /\ UNCHANGED <<req, stage, turnNo, rules, ruleFile, ruleWrites, lease, consented>>
       /\ asking' \subseteq asking \/ (stage = "running" /\ asking' = asking \cup {turnNo})
   BY <1>2 DEF PromptSent, EngineRestarts, PromptEnds
 <2>2. AskTypes' BY <1>0, <2>1 DEF AskTypes
 <2>3. \A n \in Nat : Prompted(n) => Prompted(n)' BY <2>1 DEF Prompted
 <2>4. ASSUME NEW n \in asking' \cup {0} PROVE Prompted(n)'
  <3>1. CASE n \in asking \cup {0} BY <1>0, <2>3, <3>1 DEF Belongs, AskTypes
  <3>2. CASE n = turnNo /\ stage = "running" BY <1>0, <2>1, <3>2 DEF Prompted, AskTypes
  <3> QED BY <2>1, <3>1, <3>2
 <2>5. \A r \in Requests : BelongsTo(req[r])' BY <1>b, <2>1 DEF BelongsTo, Running
 <2> QED BY <1>0, <2>1, <2>2, <2>3, <2>4, <2>5, TurnMoves DEF Belongs
<1>3. CASE EndTurn
 <2>1. /\ req' = [r \in Requests |-> IF r \in OpenRequests THEN Answered(req[r], "turn_end") ELSE req[r]]
       /\ Running /\ stage' = "ending" /\ UNCHANGED <<turnNo, asking, rules, ruleFile, ruleWrites, lease, consented>>
   BY <1>3 DEF EndTurn
 <2>2. ASSUME NEW r \in Requests
       PROVE  LET p == Answered(req[r], "turn_end") IN
              /\ p \in Request /\ p.st \in {"overtaken", "answered"} /\ p.tool = req[r].tool /\ p.by = "turn_end" /\ p.from = 0
   BY <1>a, AnsweredType DEF Answerers
 <2>3. ASSUME NEW r \in Requests
       PROVE  /\ req'[r] \in Request /\ req'[r].st \notin {"registering", "asked"}
              /\ \/ req'[r] = req[r]
                 \/ /\ req'[r].st \in {"overtaken", "answered"} /\ req'[r].from = 0
                    /\ req'[r].tool = req[r].tool /\ (req'[r].by = "policy" => req[r].by = "policy")
   BY <1>a, <2>1, <2>2 DEF OpenRequests, PendingOf
 <2>4. AskTypes' BY <1>0, <2>1, <2>3 DEF AskTypes
 <2>5. \A n \in Nat : Prompted(n) => Prompted(n)' BY <2>1 DEF Prompted
 <2>6. \A n \in asking' \cup {0} : Prompted(n)' BY <1>0, <2>1, <2>5 DEF Belongs, AskTypes
 <2>7. \A r \in Requests : BelongsTo(req[r])' BY <2>3 DEF BelongsTo
 <2> QED BY <2>1, <2>3, <2>4, <2>5, <2>6, <2>7, TurnMoves
<1>4. CASE CancelTurn BY <1>4, OnlyAnswers DEF CancelTurn, Answerers
<1>5. CASE EngineExits
 <2>1. asking' \subseteq asking BY <1>5 DEF EngineExits
 <2> QED BY <1>5, <2>1, OnlyAnswers DEF EngineExits, Answerers
\* What was torn in memory is gone; the file holds rules of users or is unreadable.
<1>6. CASE GatewayRestarts
 <2>1. PICK f \in {ruleFile} \cup {Torn} : ruleFile' = f /\ rules' = LoadRules(f) BY <1>6 DEF GatewayRestarts
 <2>2. /\ req' = [r \in Requests |-> IF req[r].st \in {"answered", "overtaken"} THEN req[r] ELSE NoRequest]
       /\ stage' = "idle" /\ asking' = {} /\ lease' = "none" /\ ruleWrites' = {} /\ UNCHANGED <<turnNo, consented>>
   BY <1>6 DEF GatewayRestarts
 <2>3. AskTypes'
  <3>1. req' \in [Requests -> Request] BY <1>a, <2>2, NoRequestType
  <3> QED BY <1>0, <2>2, <3>1 DEF AskTypes
 <2>4. \A r \in Requests : \/ req'[r] = req[r] /\ req[r].st \in {"answered", "overtaken"}
                           \/ req'[r].st = "none" /\ req'[r].by = "nobody" /\ req'[r].from = 0 BY <2>2 DEF NoRequest
 <2>5. \A r \in Requests : (Prompted(req[r].from) /\ BelongsTo(req[r]))'
   BY <1>0, <1>b, <2>2, <2>4 DEF BelongsTo, Prompted, AskTypes
 <2>6. Belongs' BY <1>0, <2>2, <2>5 DEF Belongs, Prompted
 <2>7. RulesConsented' BY <1>0, <2>1, <2>2, <2>4 DEF RulesConsented, LoadRules
 <2>8. PolicyNeedsConsent' BY <1>0, <2>2, <2>4 DEF PolicyNeedsConsent
 <2> QED BY <2>3, <2>6, <2>7, <2>8 DEF AsksInv
\* The requests, each on its own.
<1>7. ASSUME NEW r \in Requests, AskUnknown(r) \/ ByPolicy(r) \/ PolicyAnswers(r) PROVE AsksInv'
 <2>1. /\ UNCHANGED <<stage, turnNo, asking, lease, rules, ruleFile, ruleWrites, consented>>
       /\ \/ req' = [req EXCEPT ![r] = [@ EXCEPT !.st = "answered"]]
          \/ req[r].tool \in rules /\ req' = [req EXCEPT ![r] = [@ EXCEPT !.st = "logging"]]
          \/ req[r].st = "logging" /\ req' = [req EXCEPT ![r] = Answered(@, "policy")]
   BY <1>7 DEF AskUnknown, ByPolicy, PolicyAnswers, IsAllowed
 <2>2. PICK p : /\ req' = [req EXCEPT ![r] = p]
                /\ \/ p = [req[r] EXCEPT !.st = "answered"]
                   \/ req[r].tool \in rules /\ p = [req[r] EXCEPT !.st = "logging"]
                   \/ req[r].st = "logging" /\ p = Answered(req[r], "policy") BY <2>1
 <2>3. /\ p \in Request /\ p.st \notin {"registering", "asked"} /\ p.tool = req[r].tool
       /\ p.from \in {req[r].from, 0}
       /\ p.st = "logging" \/ p.by = "policy" => req[r].tool \in rules \/ req[r].st = "logging" \/ req[r].by = "policy"
  <3>1. LET a == Answered(req[r], "policy") IN
        a \in Request /\ a.st \in {"overtaken", "answered"} /\ a.tool = req[r].tool /\ a.from = 0
    BY <1>a, AnsweredType DEF Answerers
  <3>2. ASSUME NEW t \in {"answered", "logging"}
        PROVE  LET a == [req[r] EXCEPT !.st = t] IN
               a \in Request /\ a.st = t /\ a.tool = req[r].tool /\ a.from = req[r].from /\ a.by = req[r].by
    BY <1>a DEF Request, Stages
  <3> QED BY <2>2, <3>1, <3>2
 <2>4. Prompted(p.from) /\ BelongsTo(p)' BY <1>0, <1>b, <2>3 DEF Belongs, BelongsTo
 <2>5. p.st = "logging" \/ p.by = "policy" => p.tool \in consented
   BY <1>0, <2>3 DEF RulesConsented, PolicyNeedsConsent
 <2> QED BY <2>1, <2>2, <2>3, <2>4, <2>5, RequestMoves
<1>8. ASSUME NEW r \in Requests, EngineAsks(r) PROVE AsksInv'
 <2>1. PICK tool \in Tools \cup {NoTool}, n \in asking \cup {0} :
         req' = [req EXCEPT ![r] = [NoRequest EXCEPT !.st = "opening", !.tool = tool, !.from = n]]
   BY <1>8 DEF EngineAsks
 <2> DEFINE p == [NoRequest EXCEPT !.st = "opening", !.tool = tool, !.from = n]
 <2>2. UNCHANGED <<stage, turnNo, asking, lease, rules, ruleFile, ruleWrites, consented>> BY <1>8 DEF EngineAsks
 <2>3. n \in Nat /\ Prompted(n) BY <1>0 DEF Belongs, AskTypes
 <2>4. p \in Request /\ p.st = "opening" /\ p.by = "nobody" /\ p.from = n
   BY <2>3, NoRequestType DEF NoRequest, Request, Stages
 <2>5. req' = [req EXCEPT ![r] = p] BY <2>1
 <2> HIDE DEF p
 <2>6. Prompted(p.from) /\ BelongsTo(p)' BY <2>3, <2>4 DEF BelongsTo
 <2> QED BY <2>2, <2>4, <2>5, <2>6, RequestMoves
\* It belongs to the turn that runs when it is registered, whoever asked.
<1>9. ASSUME NEW r \in Requests, Register(r) PROVE AsksInv'
 <2> DEFINE t == IF Running THEN turnNo ELSE 0
 <2>1. PICK p :
       /\ req[r].st = "opening" /\ req' = [req EXCEPT ![r] = p] /\ p = [req[r] EXCEPT !.st = "registering", !.turn = t]
       /\ UNCHANGED <<stage, turnNo, asking, lease, rules, ruleFile, ruleWrites, consented>> BY <1>9 DEF Register
 <2>2. t \in Nat BY <1>0 DEF AskTypes
 <2> HIDE DEF t
 <2>3. /\ p \in Request /\ p.st = "registering" /\ p.tool = req[r].tool /\ p.by = req[r].by
       /\ p.from = req[r].from /\ p.turn = t BY <1>a, <2>1, <2>2 DEF Request, Stages
 <2>4. p.by = "policy" => p.tool \in consented BY <1>0, <2>3 DEF PolicyNeedsConsent
 <2>5. Prompted(p.from) BY <1>b, <2>3
 <2>6. BelongsTo(p)' BY <2>1, <2>3 DEF BelongsTo, Running, t
 <2> QED BY <2>1, <2>3, <2>4, <2>5, <2>6, RequestMoves
\* The lease asks for the user in the step that makes the request an asked one.
<1>10. ASSUME NEW r \in Requests, AskPorts(r) \/ LateAsk(r) PROVE AsksInv'
 <2>1. PICK t \in {"asked", "answered"} :
         /\ req' = [req EXCEPT ![r].st = t] /\ (t = "asked" => req[r].st = "registering")
   BY <1>10 DEF AskPorts, LateAsk
 <2>2. PICK p :
       /\ req' = [req EXCEPT ![r] = p] /\ p = [req[r] EXCEPT !.st = t]
       /\ lease' = IF Running THEN SetState(lease, "permission_pending") ELSE lease
       /\ UNCHANGED <<stage, turnNo, asking, rules, ruleFile, ruleWrites, consented>> BY <1>10, <2>1 DEF AskPorts, LateAsk
 <2>3. /\ p \in Request /\ p.st = t /\ p.tool = req[r].tool /\ p.by = req[r].by
       /\ p.from = req[r].from /\ p.turn = req[r].turn BY <1>a, <2>2 DEF Request, Stages
 <2>4. p.by = "policy" => p.tool \in consented BY <1>0, <2>3 DEF PolicyNeedsConsent
 <2>5. Prompted(p.from) BY <1>b, <2>3
 <2>6. lease' \in {lease, "permission_pending"} /\ (lease # "none" => lease' # "none") BY <2>2 DEF SetState
 <2>7. ASSUME t = "asked", p.turn # 0
       PROVE  Running /\ p.turn = turnNo /\ (p.from = turnNo => lease' = "permission_pending")
  <3>1. Running /\ p.turn = turnNo BY <1>b, <2>1, <2>3, <2>7 DEF BelongsTo
  <3>2. p.from = turnNo => stage = "running" BY <1>0, <2>5, <3>1 DEF Prompted, Running, AskTypes
  <3> QED BY <1>0, <2>2, <3>1, <3>2 DEF Belongs, SetState
 <2>8. BelongsTo(p)' BY <2>2, <2>3, <2>7 DEF BelongsTo, Running
 <2> QED BY <2>2, <2>3, <2>4, <2>5, <2>6, <2>8, RequestMoves
<1>11. ASSUME NEW r \in Requests, EngineWithdraws(r) PROVE AsksInv'
  BY <1>11, OnlyAnswers DEF EngineWithdraws, Answerers
<1>12. ASSUME NEW r \in Requests, TimesOut(r) PROVE AsksInv' BY <1>12, OnlyAnswers DEF TimesOut, Answerers
\* The only step that makes a rule: the user's own "always".
<1>13. ASSUME NEW t \in Tabs, NEW r \in Requests, UserAnswers(t, r) PROVE AsksInv'
 <2>0. UNCHANGED <<stage, turnNo, asking, ruleFile>> BY <1>13 DEF UserAnswers
 <2>1. CASE UNCHANGED <<req, lease, rules, ruleWrites, consented>>
   BY <1>0, <2>0, <2>1 DEF AsksInv, AskTypes, Belongs, BelongsTo, Prompted, Running, RulesConsented, PolicyNeedsConsent
 <2>2. CASE /\ r \in OpenRequests /\ Answer({r}, "user")
            /\ \/ UNCHANGED <<rules, ruleWrites, consented>>
               \/ RememberRule(req[r].tool) /\ consented' = consented \union {req[r].tool}
  <3>1. /\ AskTypes' /\ Belongs'
        /\ \A s \in Requests : /\ req'[s].tool = req[s].tool
                               /\ req'[s].by = "policy" => req[s].by = "policy"
                               /\ req'[s].st = "logging" => req[s].st = "logging"
   <4>1. {r} \in SUBSET OpenRequests /\ "user" \in Answerers \ {"policy", "nobody"} BY <2>2 DEF Answerers
   <4> QED BY <2>0, <2>2, <4>1, AnswerStep
  <3>2. consented \subseteq consented' BY <2>2
  <3>3. rules' \subseteq consented' /\ \A w \in ruleWrites' : w \subseteq consented'
    BY <1>0, <2>2, <3>2 DEF RulesConsented, RememberRule
  <3>4. RulesConsented' /\ PolicyNeedsConsent' BY <1>0, <2>0, <3>1, <3>2, <3>3 DEF RulesConsented, PolicyNeedsConsent
  <3> QED BY <3>1, <3>4 DEF AsksInv
 <2> QED BY <1>13, <2>1, <2>2 DEF UserAnswers
<1>14. ASSUME NEW w \in ruleWrites, WriteRules(w) PROVE AsksInv'
 <2>1. /\ ruleWrites' \subseteq ruleWrites /\ ruleFile' \in {w, Torn}
       /\ UNCHANGED <<req, stage, turnNo, asking, rules, lease, consented>> BY <1>14 DEF WriteRules
 <2> QED BY <1>0, <2>1 DEF AsksInv, AskTypes, Belongs, BelongsTo, Prompted, Running, RulesConsented, PolicyNeedsConsent
<1>15. ASSUME UNCHANGED permVars \/ \E t \in Tabs : Reissue(t) PROVE AsksInv'
 <2>1. UNCHANGED <<req, stage, turnNo, asking, rules, ruleFile, ruleWrites, lease, consented>>
   BY <1>15 DEF permVars, Reissue
 <2> QED BY <1>0, <2>1 DEF AsksInv, AskTypes, Belongs, BelongsTo, Prompted, Running, RulesConsented, PolicyNeedsConsent
<1> QED BY <1>1, <1>2, <1>3, <1>4, <1>5, <1>6, <1>7, <1>8, <1>9, <1>10, <1>11, <1>12, <1>13, <1>14, <1>15 DEF
     PermissionsNext

LEMMA AsksInvariant == PermissionsSpec => []AsksInv
<1>1. PermissionsInit => AsksInv
 <2> SUFFICES ASSUME PermissionsInit PROVE AsksInv OBVIOUS
 <2>1. AskTypes BY NoRequestType DEF PermissionsInit, AskTypes
 <2>2. Belongs /\ RulesConsented /\ PolicyNeedsConsent
   BY DEF PermissionsInit, Belongs, BelongsTo, Prompted, RulesConsented, PolicyNeedsConsent, NoRequest
 <2> QED BY <2>1, <2>2 DEF AsksInv
<1>2. AsksInv /\ [PermissionsNext]_permVars => AsksInv' BY AsksStep
<1> QED BY <1>1, <1>2, PTL DEF PermissionsSpec

\* A request that was registered while a turn ran is pending only while it runs, and if
\* it is that turn's own, the backend sees a machine that needs input as long as it is open
\* (#onEnginePermission, #answerPermission, Activity.setState); and nothing is
\* approved without asking that a user had not allowed for good, over concurrent
\* writes of the rules, torn files and restarts (Prefs.allowAlways, isAllowed).
THEOREM QuestionsAreAnswered == PermissionsSpec => []PermissionPromises
<1>1. AsksInv => NeedsInputShown BY DEF AsksInv, Belongs, BelongsTo, NeedsInputShown, OpenRequests, PendingOf
<1>2. AsksInv => PolicyNeedsConsent BY DEF AsksInv
<1>3. AsksInv => PermissionPromises BY <1>1, <1>2 DEF PermissionPromises
<1> QED BY <1>3, AsksInvariant, PTL

--------------------
\* ToolsRestart: the wish to restart the engine for its tools never waits
\* for nothing.

\* The uses of the engine: all that the inductive step needs of the types.
UseTypes == talk \in [Talks -> {"idle", "admitting", "running"}] /\ users \in Nat

WishInv == UseTypes /\ NoLostWakeup

\* What #maybeRestartForTools leaves wanted waits for a restart, the shutdown or
\* one of the uses it was called with.
LEMMA WishOfMaybeRestart ==
  ASSUME NEW w, NEW tl, NEW r, NEW tk, NEW bn, NEW us, NEW e,
         MaybeRestart(w, tl, r, tk, bn, us, e), wanted'
  PROVE  restarting' \/ closing \/ InUse(tk, bn, us)
<1>1. CASE ~w \/ r \/ closing \/ InUse(tk, bn, us) BY <1>1 DEF MaybeRestart
<1>2. CASE ~(~w \/ r \/ closing \/ InUse(tk, bn, us))
 <2>1. ~wanted' BY <1>2 DEF MaybeRestart
 <2> QED BY <2>1
<1> QED BY <1>1, <1>2

LEMMA UseTypesStep == UseTypes /\ [ToolsNext]_toolVars => UseTypes'
<1> SUFFICES ASSUME UseTypes, [ToolsNext]_toolVars PROVE UseTypes' OBVIOUS
<1> USE DEF UseTypes
<1>1. CASE UNCHANGED <<talk, users>> BY <1>1
<1>2. CASE UserEnters BY <1>2 DEF UserEnters
<1>3. CASE UserLeaves
 <2>1. users > 0 /\ users' = users - 1 /\ talk' = talk BY <1>3 DEF UserLeaves
 <2> QED BY <2>1
<1>4. ASSUME NEW c \in Talks, AdmitPrompt(c) PROVE UseTypes' BY <1>4 DEF AdmitPrompt
<1>5. ASSUME NEW c \in Talks, RunPrompt(c) PROVE UseTypes' BY <1>5 DEF RunPrompt
<1>6. ASSUME NEW c \in Talks, PromptLeaves(c) PROVE UseTypes'
 <2>1. talk' = [talk EXCEPT ![c] = "idle"] /\ users' = users BY <1>6 DEF PromptLeaves
 <2> QED BY <2>1
<1>7. CASE EngineReady \/ RestartEnds \/ EngineGone \/ EngineStarts \/ ToolsChange \/ McpReady
           \/ McpExits \/ WindowPasses \/ Shutdown
 <2>1. UNCHANGED <<talk, users>>
   BY <1>7 DEF EngineReady, RestartEnds, EngineGone, EngineStarts, ToolsChange, McpReady, McpExits, WindowPasses,
               Shutdown
 <2> QED BY <2>1, <1>1
<1>8. ASSUME NEW c \in Talks, Bind(c) \/ Bound(c) PROVE UseTypes' BY <1>8 DEF Bind, Bound
<1> QED BY <1>1, <1>2, <1>3, <1>4, <1>5, <1>6, <1>7, <1>8 DEF ToolsNext, toolVars

LEMMA WishStep == WishInv /\ [ToolsNext]_toolVars => NoLostWakeup'
<1> SUFFICES ASSUME WishInv, [ToolsNext]_toolVars PROVE NoLostWakeup' OBVIOUS
<1> USE DEF WishInv, UseTypes, NoLostWakeup
\* Steps that call #maybeRestartForTools, and leave the uses it was called with.
<1>1. ASSUME NEW w, NEW tl, NEW r, NEW e,
             MaybeRestart(w, tl, r, talk', binding', users', e), closing' = closing
      PROVE  NoLostWakeup'
 <2> SUFFICES ASSUME wanted' PROVE restarting' \/ closing' \/ InUse(talk', binding', users') BY DEF InUse
 <2>1. restarting' \/ closing \/ InUse(talk', binding', users') BY <1>1, WishOfMaybeRestart
 <2> QED BY <2>1, <1>1
\* Steps that leave the wish, what keeps it waiting, and the uses.
<1>2. ASSUME wanted' = wanted, restarting' = restarting, slipped' = slipped, closing' = closing,
             talk' = talk, binding' = binding, users' = users
      PROVE  NoLostWakeup' BY <1>2 DEF InUse
<1>3. CASE EngineReady
 <2>1. PICK tl \in {"connected", "missing", "unknown"} :
         IF tl = "missing" /\ mcpReady
         THEN MaybeRestart(TRUE, tl, restarting, talk, binding, users, "ready")
         ELSE engine' = "ready" /\ UNCHANGED <<wanted, restarting, recent, slipped>> BY <1>3 DEF EngineReady
 <2>2. UNCHANGED <<talk, binding, users, closing>> BY <1>3 DEF EngineReady
 <2>3. CASE tl = "missing" /\ mcpReady BY <2>1, <2>2, <2>3, <1>1
 <2>4. CASE ~(tl = "missing" /\ mcpReady) BY <2>1, <2>2, <2>4, <1>2
 <2> QED BY <2>3, <2>4
<1>4. CASE RestartEnds BY <1>4, <1>1 DEF RestartEnds
<1>5. CASE EngineGone \/ EngineStarts \/ McpExits \/ WindowPasses
  BY <1>5, <1>2 DEF EngineGone, EngineStarts, McpExits, WindowPasses
<1>6. CASE ToolsChange
 <2>1. PICK tl \in {"connected", "missing"} :
         IF tl = "connected"
         THEN wanted' = FALSE /\ UNCHANGED <<restarting, recent, engine, slipped>>
         ELSE MaybeRestart(wanted \/ mcpReady, tl, restarting, talk, binding, users, engine) BY <1>6 DEF ToolsChange
 <2>2. UNCHANGED <<talk, binding, users, closing>> BY <1>6 DEF ToolsChange
 <2>3. CASE tl = "connected" BY <2>1, <2>3
 <2>4. CASE tl # "connected" BY <2>1, <2>2, <2>4, <1>1
 <2> QED BY <2>3, <2>4
<1>7. CASE McpReady
 <2>1. CASE engine = "ready" /\ tools = "missing" BY <1>7, <2>1, <1>1 DEF McpReady
 <2>2. CASE ~(engine = "ready" /\ tools = "missing") BY <1>7, <2>2, <1>2 DEF McpReady, Leave
 <2> QED BY <2>1, <2>2
<1>8. CASE UserLeaves BY <1>8, <1>1 DEF UserLeaves
\* A new use of the engine is one more thing to wait for.
<1>9. CASE UserEnters BY <1>9 DEF UserEnters, InUse
<1>10. CASE Shutdown BY <1>10 DEF Shutdown
<1>11. ASSUME NEW c \in Talks, AdmitPrompt(c) \/ RunPrompt(c) PROVE NoLostWakeup'
 <2>1. InUse(talk', binding', users') BY <1>11 DEF AdmitPrompt, RunPrompt, InUse
 <2> QED BY <2>1 DEF InUse
<1>12. ASSUME NEW c \in Talks, PromptLeaves(c) PROVE NoLostWakeup' BY <1>12, <1>1 DEF PromptLeaves
<1>13. ASSUME NEW c \in Talks, Bind(c) PROVE NoLostWakeup' BY <1>13 DEF Bind, InUse
\* The end of a bind tries nothing: it leaves the wish waiting for another use, or
\* it slipped.
<1>14. ASSUME NEW c \in Talks, Bound(c) PROVE NoLostWakeup'
 <2>1. UNCHANGED <<wanted, restarting, talk, users, closing>> BY <1>14 DEF Bound
 <2>2. slipped' = (slipped \/ (wanted /\ ~InUse(talk, binding', users))) BY <1>14 DEF Bound
 <2> QED BY <2>1, <2>2 DEF InUse
<1>15. CASE UNCHANGED toolVars BY <1>15, <1>2 DEF toolVars
<1> QED BY <1>3, <1>4, <1>5, <1>6, <1>7, <1>8, <1>9, <1>10, <1>11, <1>12, <1>13, <1>14, <1>15 DEF ToolsNext

\* No lost wake-up (#maybeRestartForTools and the ends of what delays it): a restart
\* that is wanted waits for a restart under way, the shutdown, a use of the engine
\* that will try it again, or the end of a load has let it slip.
THEOREM WishesWait == ToolsSpec => []NoLostWakeup
<1>1. ToolsInit => WishInv BY DEF ToolsInit, WishInv, UseTypes, NoLostWakeup
<1>2. WishInv /\ [ToolsNext]_toolVars => WishInv' BY UseTypesStep, WishStep DEF WishInv
<1>3. WishInv => NoLostWakeup BY DEF WishInv
<1> QED BY <1>1, <1>2, <1>3, PTL DEF ToolsSpec
--------------------
\* ChildLinks: whatever the broker guessed, the table of calls, the table
\* of children and the frames that the sockets were sent agree.

CallState == [st : {"none", "known", "progress", "confirmed", "failed", "over"},
              child : Kids \cup {NoKid}, order : Nat]
KidState == [there : BOOLEAN, link : Calls \cup {NoCall},
             status : {"none", "running", "completed", "interrupted", "failed"}]

LinkTypes ==
    /\ truth \in [Calls -> Kids] /\ call \in [Calls -> CallState] /\ kid \in [Kids -> KidState]
    /\ card \in [Kids -> Calls \cup {NoCall}] /\ callOrder \in Nat

\* A call that is under way, or may be, has its child for itself, ...
Alone(cl) == \A c, d \in LiveCalls(cl) : cl[c].child = cl[d].child /\ cl[c].child # NoKid => c = d

\* ... which is linked to it as soon as it is there.
Linked(cl, kd) == \A c \in LiveCalls(cl) : LET k == cl[c].child IN k # NoKid /\ kd[k].there => kd[k].link = c

Drawn == \A k \in Kids : kid[k].there => card[k] = kid[k].link

\* A call that named its child keeps it, unless another one is for that child too.
Confirmed == \A c \in Calls : LET k == truth[c] IN
    call[c].st = "confirmed" /\ kid[k].there /\ (\A d \in Calls \ {c} : truth[d] # k) => kid[k].link = c

LinksInv == LinkTypes /\ Alone(call) /\ Linked(call, kid) /\ Drawn /\ Confirmed

LEMMA OldestIsOne ==
  ASSUME NEW cl \in [Calls -> CallState], NEW S \in SUBSET Calls, S # {}
  PROVE  Oldest(cl, S) \in S
<1> DEFINE T == {cl[c].order : c \in S}
<1>1. \A c \in S : cl[c].order \in Nat BY DEF CallState
<1>2. T \in SUBSET Nat /\ T # {} BY <1>1
<1>3. PICK x \in T : \A y \in T : x <= y
 <2> HIDE DEF T
 <2> QED BY <1>2, SmallestExists
<1>4. PICK c \in S : x = cl[c].order BY <1>3
<1>5. \A d \in S : cl[c].order <= cl[d].order BY <1>3, <1>4
<1> QED BY <1>5 DEF Oldest

\* #linkChild takes the call that claims the child, or one without a child.
LEMMA GuessFits ==
  ASSUME NEW cl \in [Calls -> CallState], NEW k \in Kids
  PROVE  LET g == Guess(cl, k) IN
         /\ g = NoCall \/ (g \in LiveCalls(cl) /\ cl[g].child \in {k, NoKid})
         /\ \A c \in LiveCalls(cl) : cl[c].child = k => g \in LiveCalls(cl) /\ cl[g].child = k
<1> DEFINE claimed == {c \in LiveCalls(cl) : cl[c].child = k}
           free == {c \in LiveCalls(cl) : cl[c].st = "progress" /\ cl[c].child = NoKid}
           titled == {c \in free : c \in described /\ truth[c] = k}
<1>1. /\ claimed \in SUBSET Calls /\ free \in SUBSET Calls /\ titled \in SUBSET Calls
      /\ titled \subseteq free BY DEF LiveCalls
<1>2. Guess(cl, k) = IF claimed # {} THEN Oldest(cl, claimed)
                     ELSE IF titled # {} THEN Oldest(cl, titled)
                     ELSE IF free # {} THEN Oldest(cl, free) ELSE NoCall BY DEF Guess
<1>3. \A S \in SUBSET Calls : S # {} => Oldest(cl, S) \in S BY OldestIsOne
<1>4. CASE claimed # {}
 <2>1. Guess(cl, k) \in claimed BY <1>1, <1>2, <1>3, <1>4
 <2> QED BY <2>1
<1>5. CASE claimed = {}
 <2>1. Guess(cl, k) = NoCall \/ Guess(cl, k) \in free
  <3> HIDE DEF claimed, titled, free
  <3>1. CASE titled # {}
   <4>1. Guess(cl, k) = Oldest(cl, titled) BY <1>2, <1>5, <3>1
   <4>2. Oldest(cl, titled) \in titled BY <1>1, <1>3, <3>1
   <4> QED BY <1>1, <4>1, <4>2
  <3>2. CASE titled = {} /\ free # {}
   <4>1. Guess(cl, k) = Oldest(cl, free) BY <1>2, <1>5, <3>2
   <4> QED BY <1>1, <1>3, <3>2, <4>1
  <3>3. CASE titled = {} /\ free = {} BY <1>2, <1>5, <3>3
  <3> QED BY <3>1, <3>2, <3>3
 <2>2. \A c \in LiveCalls(cl) : cl[c].child # k BY <1>5
 <2>3. \A c \in free : c \in LiveCalls(cl) /\ cl[c].child = NoKid OBVIOUS
 <2> HIDE DEF claimed, titled, free
 <2> QED BY <2>1, <2>2, <2>3
<1> QED BY <1>4, <1>5

\* #linkChild, for a child that no live call is linked to.
LEMMA LinkChildKeeps ==
  ASSUME NEW cl \in [Calls -> CallState], NEW kd \in [Kids -> KidState], NEW k \in Kids, Alone(cl)
  PROVE  LET r == LinkChild(cl, kd, k) IN
         /\ r.call \in [Calls -> CallState] /\ r.kid \in [Kids -> KidState] /\ Alone(r.call)
         /\ \A c \in Calls : r.call[c].st = cl[c].st /\ (r.call[c].child = cl[c].child \/ (cl[c].child = NoKid /\ r.call[c].child = k))
         /\ \A j \in Kids : r.kid[j].there = kd[j].there /\ (j # k => r.kid[j] = kd[j])
         /\ \A c \in LiveCalls(r.call) : r.call[c].child = k => r.kid[k].link = c
<1> DEFINE g == Guess(cl, k)
           r == LinkChild(cl, kd, k)
<1>1. /\ g = NoCall \/ (g \in LiveCalls(cl) /\ cl[g].child \in {k, NoKid})
      /\ \A c \in LiveCalls(cl) : cl[c].child = k => g \in LiveCalls(cl) /\ cl[g].child = k BY GuessFits
<1>2. r.kid = [kd EXCEPT ![k].link = g] /\ r.call = IF g = NoCall THEN cl ELSE [cl EXCEPT ![g].child = k]
  BY DEF LinkChild
<1> HIDE DEF g, r
<1>3. g \in Calls \cup {NoCall} /\ NoKid \notin Kids /\ NoCall \notin Calls /\ LiveCalls(cl) \subseteq Calls
  BY <1>1, LinksAssumption DEF LiveCalls
<1>4. /\ r.kid \in [Kids -> KidState] /\ r.kid[k].link = g
      /\ \A j \in Kids : r.kid[j].there = kd[j].there /\ (j # k => r.kid[j] = kd[j]) BY <1>2, <1>3 DEF KidState
<1>5. /\ r.call \in [Calls -> CallState]
      /\ \A c \in Calls : /\ r.call[c].st = cl[c].st
                          /\ r.call[c].child = IF c = g THEN k ELSE cl[c].child BY <1>1, <1>2, <1>3 DEF CallState
<1>6. LiveCalls(r.call) = LiveCalls(cl) BY <1>5 DEF LiveCalls
<1>7. \A c \in LiveCalls(r.call) : r.call[c].child = k => c = g
 <2> SUFFICES ASSUME NEW c \in LiveCalls(cl), r.call[c].child = k, c # g PROVE FALSE BY <1>6
 <2>1. cl[c].child = k BY <1>3, <1>5
 <2>2. g \in LiveCalls(cl) /\ cl[g].child = k BY <1>1, <2>1
 <2> QED BY <1>3, <2>1, <2>2 DEF Alone
<1>8. Alone(r.call)
 <2> SUFFICES ASSUME NEW c \in LiveCalls(cl), NEW d \in LiveCalls(cl),
                     r.call[c].child = r.call[d].child, r.call[c].child # NoKid
              PROVE  c = d BY <1>6 DEF Alone
 <2>1. CASE r.call[c].child = k BY <1>6, <1>7, <2>1
 <2>2. CASE r.call[c].child # k
  <3>1. r.call[c].child = cl[c].child /\ r.call[d].child = cl[d].child BY <1>3, <1>5, <2>2
  <3> QED BY <3>1 DEF Alone
 <2> QED BY <2>1, <2>2
<1>9. \A c \in Calls : r.call[c].child = cl[c].child \/ (cl[c].child = NoKid /\ r.call[c].child = k)
  BY <1>1, <1>3, <1>5
<1>10. \A c \in LiveCalls(r.call) : r.call[c].child = k => r.kid[k].link = c BY <1>4, <1>7
<1> QED BY <1>4, <1>5, <1>8, <1>9, <1>10 DEF r

\* #setLink gives the call the child, frees the call that had it, and finds the
\* child it displaced another one.
LEMMA SetLinkKeeps ==
  ASSUME LinkTypes, Alone(call), Linked(call, kid), NEW c \in LiveCalls(call), NEW k \in Kids, NEW resume \in BOOLEAN
  PROVE  LET r == SetLink(c, k, resume) IN
         /\ r.call \in [Calls -> CallState] /\ r.kid \in [Kids -> KidState]
         /\ Alone(r.call) /\ Linked(r.call, r.kid)
         /\ \A d \in Calls : r.call[d].st = call[d].st
         /\ \A j \in Kids : /\ r.kid[j].there = kid[j].there
                            /\ j = k \/ r.kid[j].link = kid[j].link \/ kid[j].link = c
         /\ kid[k].there => r.kid[k].link = c
<1> DEFINE r == SetLink(c, k, resume)
           moved == [Freed(call, c, k) EXCEPT ![c].child = k]
           first == IF call[c].child = k THEN [call |-> call, kid |-> kid]
                    ELSE IF DisplacedKids(c, k) = {} THEN [call |-> moved, kid |-> kid]
                    ELSE LinkChild(moved, kid, call[c].child)
<1>1. /\ call \in [Calls -> CallState] /\ kid \in [Kids -> KidState] /\ c \in Calls
      /\ LiveCalls(call) \subseteq Calls /\ NoKid \notin Kids /\ NoCall \notin Calls
  BY LinksAssumption DEF LinkTypes, LiveCalls
<1>2. /\ moved \in [Calls -> CallState]
      /\ \A d \in Calls : /\ moved[d].st = call[d].st
                          /\ moved[d].child = IF d = c THEN k
                                              ELSE IF d \in LiveCalls(call) /\ call[d].child = k THEN NoKid ELSE call[d].child
 <2> DEFINE f == Freed(call, c, k)
 <2>1. /\ f \in [Calls -> CallState]
       /\ \A d \in Calls : /\ f[d].st = call[d].st
                           /\ f[d].child = IF d # c /\ d \in LiveCalls(call) /\ call[d].child = k THEN NoKid ELSE call[d].child
   BY <1>1 DEF Freed, LiveCalls, CallState
 <2> HIDE DEF f
 <2>2. moved = [f EXCEPT ![c].child = k] BY DEF f
 <2> HIDE DEF moved
 <2> QED BY <1>1, <2>1, <2>2 DEF CallState
<1> HIDE DEF moved
<1>3. LiveCalls(moved) = LiveCalls(call) BY <1>2 DEF LiveCalls
<1>4. Alone(moved)
 <2> SUFFICES ASSUME NEW d \in LiveCalls(call), NEW e \in LiveCalls(call),
                     moved[d].child = moved[e].child, moved[d].child # NoKid
              PROVE  d = e BY <1>3 DEF Alone
 <2>1. CASE d = c \/ e = c BY <1>1, <1>2, <2>1
 <2>2. CASE d # c /\ e # c
  <3>1. moved[d].child = call[d].child /\ moved[e].child = call[e].child BY <1>1, <1>2, <2>2
  <3> QED BY <3>1 DEF Alone
 <2> QED BY <2>1, <2>2
\* The call's child before the step, if the step displaces it.
<1>5. \A d \in Calls : d \in LiveCalls(call) /\ call[d].child = call[c].child /\ call[c].child # NoKid => d = c
  BY DEF Alone
<1>6. /\ first.call \in [Calls -> CallState] /\ first.kid \in [Kids -> KidState] /\ Alone(first.call)
      /\ \A d \in Calls : first.call[d].st = call[d].st
      /\ \A j \in Kids : /\ first.kid[j].there = kid[j].there
                         /\ first.kid[j] = kid[j] \/ kid[j].link = c
      /\ \A d \in LiveCalls(first.call) : first.call[d].child = k => d = c
      /\ \A d \in LiveCalls(first.call) : LET j == first.call[d].child IN
            j # NoKid /\ j # k /\ kid[j].there => first.kid[j].link = d
 <2>1. CASE call[c].child = k
  <3>1. first.call = call /\ first.kid = kid BY <2>1
  <3>2. \A d \in LiveCalls(call) : call[d].child = k => d = c BY <1>1, <1>5, <2>1
  <3> QED BY <1>1, <3>1, <3>2 DEF Linked
 <2>2. CASE call[c].child # k /\ DisplacedKids(c, k) = {}
  <3>1. first.call = moved /\ first.kid = kid BY <2>2
  <3>2. \A d \in LiveCalls(moved) : moved[d].child = k => d = c BY <1>1, <1>2, <1>3
  <3>3. ASSUME NEW d \in LiveCalls(moved), moved[d].child # NoKid, moved[d].child # k, kid[moved[d].child].there
        PROVE  kid[moved[d].child].link = d
   <4>1. moved[d].child = call[d].child /\ d \in LiveCalls(call) BY <1>1, <1>2, <1>3, <3>3
   <4> QED BY <3>3, <4>1 DEF Linked
  <3> QED BY <1>1, <1>2, <1>4, <3>1, <3>2, <3>3
 <2>3. CASE call[c].child # k /\ DisplacedKids(c, k) # {}
  <3> DEFINE j == call[c].child
  <3>1. j \in Kids /\ kid[j].there /\ kid[j].link = c BY <2>3 DEF DisplacedKids
  <3>2. first = LinkChild(moved, kid, j) BY <2>3
  <3> HIDE DEF first
  <3>3. /\ first.call \in [Calls -> CallState] /\ first.kid \in [Kids -> KidState] /\ Alone(first.call)
        /\ \A d \in Calls : first.call[d].st = moved[d].st /\ (first.call[d].child = moved[d].child \/ (moved[d].child = NoKid /\ first.call[d].child = j))
        /\ \A i \in Kids : first.kid[i].there = kid[i].there /\ (i # j => first.kid[i] = kid[i])
        /\ \A d \in LiveCalls(first.call) : first.call[d].child = j => first.kid[j].link = d
    BY <1>1, <1>2, <1>4, <3>1, <3>2, LinkChildKeeps
  <3>4. LiveCalls(first.call) = LiveCalls(call) BY <1>2, <3>3 DEF LiveCalls
  <3>5. \A d \in LiveCalls(first.call) : first.call[d].child = k => d = c BY <1>1, <1>2, <2>3, <3>3, <3>4
  <3>6. ASSUME NEW d \in LiveCalls(first.call), first.call[d].child # NoKid, first.call[d].child # k, kid[first.call[d].child].there
        PROVE  first.kid[first.call[d].child].link = d
   <4>1. CASE first.call[d].child = j BY <3>3, <4>1
   <4>2. CASE first.call[d].child # j
    <5>1. d \in LiveCalls(call) /\ d \in Calls /\ first.call[d].child = call[d].child
      BY <1>1, <1>2, <3>3, <3>4, <3>6, <4>2
    <5>2. call[d].child \in Kids BY <1>1, <3>6, <5>1 DEF CallState
    <5>3. kid[call[d].child].link = d BY <3>6, <5>1 DEF Linked
    <5> QED BY <3>3, <4>2, <5>1, <5>2, <5>3
   <4> QED BY <4>1, <4>2
  <3> QED BY <1>2, <3>1, <3>3, <3>5, <3>6
 <2> QED BY <2>1, <2>2, <2>3
<1>7. /\ r.call = first.call
      /\ r.kid = IF kid[k].there /\ first.kid[k].link # c
                 THEN [first.kid EXCEPT ![k].link = c,
                                        ![k].status = IF resume /\ kid[k].status \in {"completed", "interrupted", "failed"} THEN "none" ELSE @]
                 ELSE first.kid BY DEF SetLink, moved
<1> HIDE DEF first, r
<1>a. first.kid[k] \in KidState /\ c \in Calls \cup {NoCall} BY <1>1, <1>6
<1>8. /\ r.kid \in [Kids -> KidState]
      /\ \A j \in Kids : r.kid[j].there = first.kid[j].there /\ (j # k => r.kid[j] = first.kid[j])
      /\ kid[k].there => r.kid[k].link = c
 <2>1. CASE kid[k].there /\ first.kid[k].link # c
  <3>1. PICK st \in {"none", "running", "completed", "interrupted", "failed"} :
             r.kid = [first.kid EXCEPT ![k] = [there |-> first.kid[k].there, link |-> c, status |-> st]]
   <4> DEFINE over == resume /\ kid[k].status \in {"completed", "interrupted", "failed"}
              st == IF over THEN "none" ELSE first.kid[k].status
   <4>1. st \in {"none", "running", "completed", "interrupted", "failed"} BY <1>a DEF KidState
   <4>2. r.kid = [first.kid EXCEPT ![k] = [there |-> first.kid[k].there, link |-> c, status |-> st]]
     BY <1>6, <1>7, <1>a, <2>1 DEF KidState
   <4> HIDE DEF st
   <4> QED BY <4>1, <4>2
  <3> QED BY <1>6, <1>a, <2>1, <3>1 DEF KidState
 <2>2. CASE ~(kid[k].there /\ first.kid[k].link # c) BY <1>6, <1>7, <2>2
 <2> QED BY <2>1, <2>2
<1>9. Linked(r.call, r.kid)
 <2> SUFFICES ASSUME NEW d \in LiveCalls(first.call), first.call[d].child # NoKid, r.kid[first.call[d].child].there
              PROVE  r.kid[first.call[d].child].link = d BY <1>7 DEF Linked
 <2>1. d \in Calls /\ first.call[d].child \in Kids BY <1>6 DEF LiveCalls, CallState
 <2>2. kid[first.call[d].child].there BY <1>6, <1>8, <2>1
 <2>3. CASE first.call[d].child = k BY <1>6, <1>8, <2>2, <2>3
 <2>4. CASE first.call[d].child # k BY <1>6, <1>8, <2>1, <2>2, <2>4
 <2> QED BY <2>3, <2>4
<1>10. \A j \in Kids : /\ r.kid[j].there = kid[j].there
                       /\ j = k \/ r.kid[j].link = kid[j].link \/ kid[j].link = c BY <1>6, <1>8
<1> QED BY <1>6, <1>7, <1>8, <1>9, <1>10 DEF r

\* A step of #setLink keeps all but what it says of the children's links.
LEMMA LinksFollow ==
  ASSUME LinksInv, UNCHANGED truth, NEW linked,
         NEW c \in Calls, NEW k \in Kids,
         call[c].st \in {"known", "progress"}, k = truth[c],
         \A d \in Calls : linked.call[d].st = call[d].st,
         linked.call \in [Calls -> CallState], linked.kid \in [Kids -> KidState],
         Alone(linked.call), Linked(linked.call, linked.kid),
         \A j \in Kids : /\ linked.kid[j].there = kid[j].there
                         /\ j = k \/ linked.kid[j].link = kid[j].link \/ kid[j].link = c,
         kid[k].there => linked.kid[k].link = c,
         NEW st \in {"progress", "confirmed"}, st = "progress" \/ call[c].st = "progress",
         call' = [linked.call EXCEPT ![c].st = st], kid' = linked.kid, card' = Sent(linked.kid), UNCHANGED callOrder
  PROVE  LinksInv'
<1>1. /\ truth \in [Calls -> Kids] /\ call \in [Calls -> CallState] /\ kid \in [Kids -> KidState]
      /\ card \in [Kids -> Calls \cup {NoCall}] /\ callOrder \in Nat BY DEF LinksInv, LinkTypes
<1>2. /\ call' \in [Calls -> CallState]
      /\ \A d \in Calls : call'[d].child = linked.call[d].child /\ call'[d].st = IF d = c THEN st ELSE call[d].st
  BY DEF CallState
<1>3. /\ card' \in [Kids -> Calls \cup {NoCall}]
      /\ \A j \in Kids : card'[j] = IF kid'[j].there /\ kid'[j].link # kid[j].link THEN kid'[j].link ELSE card[j]
  BY <1>1 DEF Sent, KidState
<1>4. LinkTypes' BY <1>1, <1>2, <1>3 DEF LinkTypes
<1>5. LiveCalls(call') \subseteq LiveCalls(linked.call) /\ LiveCalls(call') \subseteq Calls BY <1>2 DEF LiveCalls
<1>6. Alone(call)' BY <1>2, <1>5 DEF Alone
<1>7. Linked(call, kid)' BY <1>2, <1>5 DEF Linked
<1>8. Drawn' BY <1>3 DEF LinksInv, Drawn
<1>9. Confirmed'
 <2> SUFFICES ASSUME NEW d \in Calls, call'[d].st = "confirmed", kid'[truth[d]].there, \A e \in Calls \ {d} : truth[e] # truth[d]
              PROVE  kid'[truth[d]].link = d BY DEF Confirmed
 <2>1. CASE d = c BY <1>1, <2>1
 <2>2. CASE d # c
  <3>1. call[d].st = "confirmed" /\ truth[d] \in Kids /\ truth[d] # k /\ kid[truth[d]].there BY <1>1, <1>2, <2>2
  <3>2. kid[truth[d]].link = d BY <3>1 DEF LinksInv, Confirmed
  <3> QED BY <2>2, <3>1, <3>2
 <2> QED BY <2>1, <2>2
<1> QED BY <1>4, <1>6, <1>7, <1>8, <1>9 DEF LinksInv

LEMMA LinksStep == LinksInv /\ [LinksNext]_linkVars => LinksInv'
<1> SUFFICES ASSUME LinksInv, [LinksNext]_linkVars PROVE LinksInv' OBVIOUS
<1>0. /\ LinkTypes /\ Alone(call) /\ Linked(call, kid) /\ Drawn /\ Confirmed
      /\ truth \in [Calls -> Kids] /\ call \in [Calls -> CallState] /\ kid \in [Kids -> KidState]
      /\ card \in [Kids -> Calls \cup {NoCall}] /\ callOrder \in Nat
      /\ NoKid \notin Kids /\ NoCall \notin Calls BY LinksAssumption DEF LinksInv, LinkTypes
<1>1. ASSUME NEW c \in Calls, CallAppears(c) PROVE LinksInv'
 <2>1. /\ call' = [call EXCEPT ![c] = [NewCall EXCEPT !.st = "known", !.order = callOrder]]
       /\ callOrder' = callOrder + 1 /\ UNCHANGED <<truth, told, described, kid, card>> /\ call[c].st = "none"
   BY <1>1 DEF CallAppears
 <2>2. /\ call' \in [Calls -> CallState] /\ call'[c].child = NoKid /\ call'[c].st = "known"
       /\ \A d \in Calls : d # c => call'[d] = call[d] BY <1>0, <2>1 DEF NewCall, CallState
 <2>3. LinkTypes' BY <1>0, <2>1, <2>2 DEF LinkTypes
 <2>4. \A d \in LiveCalls(call') : d = c \/ (d \in LiveCalls(call) /\ call'[d] = call[d]) BY <2>2 DEF LiveCalls
 <2>5. Alone(call)' BY <1>0, <2>2, <2>4 DEF Alone
 <2>6. Linked(call, kid)' BY <1>0, <2>1, <2>2, <2>4 DEF Linked
 <2>7. Drawn' BY <1>0, <2>1 DEF Drawn
 <2>8. Confirmed'
  <3>1. \A d \in Calls : call'[d].st = "confirmed" => call[d].st = "confirmed" BY <2>2
  <3> QED BY <1>0, <2>1, <3>1 DEF Confirmed
 <2> QED BY <2>3, <2>5, <2>6, <2>7, <2>8 DEF LinksInv
\* Only the state of one call changes, and it does not confirm it.
<1>2. ASSUME NEW c \in Calls, NEW st \in {"progress", "failed"}, call[c].st \in {"known", "progress"},
             call' = [call EXCEPT ![c].st = st],
             UNCHANGED <<truth, kid, card, callOrder>>
      PROVE  LinksInv'
 <2>1. /\ call' \in [Calls -> CallState]
       /\ \A d \in Calls : call'[d].child = call[d].child /\ call'[d].st = IF d = c THEN st ELSE call[d].st
   BY <1>0, <1>2 DEF CallState
 <2>2. LinkTypes' BY <1>0, <1>2, <2>1 DEF LinkTypes
 <2>3. \A d \in LiveCalls(call') : d \in LiveCalls(call) /\ call'[d].child = call[d].child BY <1>2, <2>1 DEF LiveCalls
 <2>4. Alone(call)' BY <1>0, <2>3 DEF Alone
 <2>5. Linked(call, kid)' BY <1>0, <1>2, <2>3 DEF Linked
 <2>6. Drawn' BY <1>0, <1>2 DEF Drawn
 <2>7. Confirmed'
  <3>1. \A d \in Calls : call'[d].st = "confirmed" => call[d].st = "confirmed" BY <1>2, <2>1
  <3> QED BY <1>0, <1>2, <3>1 DEF Confirmed
 <2> QED BY <2>2, <2>4, <2>5, <2>6, <2>7 DEF LinksInv
\* The call gets the child that the engine says.
<1>3. ASSUME NEW c \in Calls, call[c].st \in {"known", "progress"}, NEW resume \in BOOLEAN, NEW st \in {"progress", "confirmed"},
             st = "progress" \/ call[c].st = "progress",
             call' = [SetLink(c, truth[c], resume).call EXCEPT ![c].st = st], kid' = SetLink(c, truth[c], resume).kid,
             card' = Sent(SetLink(c, truth[c], resume).kid), UNCHANGED <<truth, callOrder>>
      PROVE  LinksInv'
 <2> DEFINE linked == SetLink(c, truth[c], resume)
 <2>1. c \in LiveCalls(call) /\ truth[c] \in Kids BY <1>0, <1>3 DEF LiveCalls
 <2>2. /\ linked.call \in [Calls -> CallState] /\ linked.kid \in [Kids -> KidState]
       /\ Alone(linked.call) /\ Linked(linked.call, linked.kid)
       /\ \A d \in Calls : linked.call[d].st = call[d].st
       /\ \A j \in Kids : /\ linked.kid[j].there = kid[j].there
                          /\ j = truth[c] \/ linked.kid[j].link = kid[j].link \/ kid[j].link = c
       /\ kid[truth[c]].there => linked.kid[truth[c]].link = c BY <1>0, <2>1, SetLinkKeeps
 <2>3. call' = [linked.call EXCEPT ![c].st = st] /\ kid' = linked.kid /\ card' = Sent(linked.kid) BY <1>3
 <2> HIDE DEF linked
 <2> QED BY <1>3, <2>1, <2>2, <2>3, LinksFollow
<1>4. ASSUME NEW c \in Calls, InProgress(c) PROVE LinksInv'
 <2>1. CASE c \in told /\ call[c].child = NoKid BY <1>3, <1>4, <2>1 DEF InProgress
 <2>2. CASE ~(c \in told /\ call[c].child = NoKid) BY <1>2, <1>4, <2>2 DEF InProgress
 <2> QED BY <2>1, <2>2
<1>5. ASSUME NEW c \in Calls, Completes(c) PROVE LinksInv' BY <1>2, <1>3, <1>5 DEF Completes
<1>6. ASSUME NEW k \in Kids, ChildFrame(k) PROVE LinksInv'
 <2> DEFINE linked == IF kid[k].there THEN [call |-> call, kid |-> kid] ELSE LinkChild(call, kid, k)
 <2>1. PICK status \in {"running", "completed"} :
         /\ call' = linked.call
         /\ kid' = [linked.kid EXCEPT ![k].there = TRUE, ![k].status = status]
         /\ card' = [card EXCEPT ![k] = linked.kid[k].link] BY <1>6 DEF ChildFrame
 <2>2. (\E c \in Calls : truth[c] = k /\ call[c].st = "progress") /\ UNCHANGED <<truth, callOrder>>
   BY <1>6 DEF ChildFrame
 <2>3. /\ linked.call \in [Calls -> CallState] /\ linked.kid \in [Kids -> KidState] /\ Alone(linked.call)
       /\ \A c \in Calls : linked.call[c].st = call[c].st /\ (linked.call[c].child = call[c].child \/ (call[c].child = NoKid /\ linked.call[c].child = k))
       /\ \A j \in Kids : linked.kid[j].there = kid[j].there /\ (j # k => linked.kid[j] = kid[j])
       /\ \A c \in LiveCalls(linked.call) : linked.call[c].child = k => linked.kid[k].link = c
       /\ kid[k].there => linked.kid = kid
  <3>1. CASE kid[k].there
   <4>1. linked.call = call /\ linked.kid = kid BY <3>1
   <4>2. \A c \in LiveCalls(call) : call[c].child = k => kid[k].link = c BY <1>0, <3>1 DEF Linked
   <4> QED BY <1>0, <4>1, <4>2
  <3>2. CASE ~kid[k].there
   <4>1. linked = LinkChild(call, kid, k) BY <3>2
   <4> HIDE DEF linked
   <4> QED BY <1>0, <3>2, <4>1, LinkChildKeeps
  <3> QED BY <3>1, <3>2
 <2> HIDE DEF linked
 <2>4. /\ kid' \in [Kids -> KidState] /\ kid'[k].there
       /\ \A j \in Kids : kid'[j].link = linked.kid[j].link /\ (j # k => kid'[j] = kid[j])
  <3> DEFINE f == linked.kid
             old == f[k]
             new == [[old EXCEPT !.there = TRUE] EXCEPT !.status = status]
  <3>1. f \in [Kids -> KidState] /\ old \in KidState BY <2>3
  <3>2. kid' = [f EXCEPT ![k].there = TRUE, ![k].status = status] BY <2>1
  <3> HIDE DEF f
  <3>3. kid' = [f EXCEPT ![k] = new] BY <3>1, <3>2
  <3>4. new \in KidState /\ new.there /\ new.link = old.link BY <3>1 DEF KidState
  <3> HIDE DEF old, new
  <3>5. kid' \in [Kids -> KidState] /\ kid'[k] = new /\ \A j \in Kids : j # k => kid'[j] = f[j] BY <3>1, <3>3, <3>4
  <3> QED BY <2>3, <3>4, <3>5 DEF f, old
 <2>5. /\ card' \in [Kids -> Calls \cup {NoCall}] /\ card'[k] = kid'[k].link
       /\ \A j \in Kids : j # k => card'[j] = card[j] BY <1>0, <2>1, <2>3, <2>4 DEF KidState
 <2>6. LinkTypes' BY <1>0, <2>1, <2>2, <2>3, <2>4, <2>5 DEF LinkTypes
 <2>7. Alone(call)' BY <2>1, <2>3
 <2>8. Linked(call, kid)'
  <3> SUFFICES ASSUME NEW c \in LiveCalls(linked.call), linked.call[c].child # NoKid, kid'[linked.call[c].child].there
               PROVE  kid'[linked.call[c].child].link = c BY <2>1 DEF Linked
  <3>1. c \in Calls /\ linked.call[c].child \in Kids /\ c \in LiveCalls(call) BY <2>3 DEF LiveCalls, CallState
  <3>2. CASE linked.call[c].child = k BY <2>3, <2>4, <3>2
  <3>3. CASE linked.call[c].child # k
   <4>1. linked.call[c].child = call[c].child /\ kid'[call[c].child] = kid[call[c].child] BY <2>3, <2>4, <3>1, <3>3
   <4> QED BY <1>0, <3>1, <4>1 DEF Linked
  <3> QED BY <3>2, <3>3
 <2>9. Drawn' BY <1>0, <2>4, <2>5 DEF Drawn
 <2>10. Confirmed'
  <3> SUFFICES ASSUME NEW d \in Calls, call'[d].st = "confirmed", kid'[truth[d]].there, \A e \in Calls \ {d} : truth[e] # truth[d]
               PROVE  kid'[truth[d]].link = d BY <2>2 DEF Confirmed
  <3>1. call[d].st = "confirmed" /\ truth[d] \in Kids BY <1>0, <2>1, <2>3
  <3>2. truth[d] # k BY <2>2, <3>1
  <3>3. kid'[truth[d]] = kid[truth[d]] BY <2>4, <3>1, <3>2
  <3> QED BY <1>0, <3>1, <3>3 DEF Confirmed
 <2> QED BY <2>6, <2>7, <2>8, <2>9, <2>10 DEF LinksInv
<1>7. CASE LinksCleared
 <2>1. /\ call' = [c \in Calls |-> IF call[c].st = "none" THEN NewCall ELSE [NewCall EXCEPT !.st = "over"]]
       /\ kid' = [k \in Kids |-> NewKid]
       /\ UNCHANGED <<truth, told, described, card, callOrder>> BY <1>7 DEF LinksCleared
 <2>2. /\ call' \in [Calls -> CallState] /\ kid' \in [Kids -> KidState] /\ \A k \in Kids : ~kid'[k].there
       /\ \A c \in Calls : call'[c].st \in {"none", "over"} BY <1>0, <2>1 DEF NewCall, NewKid, CallState, KidState
 <2>3. LiveCalls(call') = {} BY <2>2 DEF LiveCalls
 <2>4. LinkTypes' BY <1>0, <2>1, <2>2 DEF LinkTypes
 <2>5. Alone(call)' /\ Linked(call, kid)' BY <2>3 DEF Alone, Linked
 <2>6. Drawn' /\ Confirmed' BY <2>2 DEF Drawn, Confirmed
 <2> QED BY <2>4, <2>5, <2>6 DEF LinksInv
<1>8. CASE UNCHANGED linkVars
  BY <1>0, <1>8 DEF linkVars, LinksInv, LinkTypes, Alone, Linked, Drawn, Confirmed, LiveCalls
<1> QED BY <1>1, <1>4, <1>5, <1>6, <1>7, <1>8 DEF LinksNext

\* The broker's guesses of which call runs which specialist, and what the sockets
\* were sent of them, agree at every moment, and once a call has named its child that
\* is where the child is drawn (#linkChild, #setLink, #trackSubagentCall, #childFrame).
THEOREM ChildrenFindTheirCalls == LinksSpec => []LinksAgree
<1>1. LinksInit => LinksInv
 <2> SUFFICES ASSUME LinksInit PROVE LinksInv OBVIOUS
 <2>1. /\ truth \in [Calls -> Kids] /\ call = [c \in Calls |-> NewCall] /\ kid = [k \in Kids |-> NewKid]
       /\ card = [k \in Kids |-> NoCall] /\ callOrder = 0 BY DEF LinksInit
 <2>2. LinkTypes /\ LiveCalls(call) = {} /\ \A k \in Kids : ~kid[k].there
   BY <2>1 DEF LinkTypes, LiveCalls, NewCall, NewKid, CallState, KidState
 <2>3. Drawn /\ Confirmed BY <2>1, <2>2 DEF Drawn, Confirmed
 <2> QED BY <2>2, <2>3 DEF LinksInv, Alone, Linked
<1>2. LinksInv => LinksAgree BY DEF LinksInv, LinksAgree, Drawn, Linked, Confirmed
<1> QED BY <1>1, <1>2, LinksStep, PTL DEF LinksSpec
--------------------
\* ConversationStore: a conversation that was prompted keeps its
\* transcript and is listed, whatever a crash leaves of its four records.

Entries == [there : BOOLEAN, title : BOOLEAN, archived : BOOLEAN]
Making == {"mode", "dirs", "undo"}
Made == {"ready", "title", "echo", "turn"}
Serving == {"prune", "orphans", "serve", "up"}
Loaded == {"backup", "save"} \cup Serving
Logs == {"none", "empty", "events", "prompted", "rotated"}

StoreTypes ==
    /\ idx \in [Ids -> Entries] /\ quar \in SUBSET Ids
    /\ idxFile \in [kind : {"none", "bad", "v2", "v3"}, ent : [Ids -> Entries], bad : SUBSET Ids]
    /\ convLog \in [Ids -> Logs]
    /\ storeStep \in [Ids -> {"none"} \cup Making \cup Made]
    /\ storeBoot \in {"down"} \cup Loaded /\ damaged \in BOOLEAN
    /\ had \in SUBSET Ids /\ untold \in SUBSET Ids /\ aside \in SUBSET Ids

\* The file of a serving gateway is its own; what it quarantined it has not loaded.
IndexFile ==
    /\ idxFile.kind \in {"none", "bad"} => idxFile.ent = EmptyIndex /\ idxFile.bad = {}
    /\ storeBoot # "down" => quar = idxFile.bad
    /\ storeBoot \in Serving => idxFile.kind = "v3"
    /\ storeBoot \in Loaded \ {"up"} => \A c \in quar : ~idx[c].there
    /\ storeBoot = "backup" => ~damaged
    /\ storeBoot = "orphans" => \A c \in Ids \ quar : idxFile.ent[c].there => idx[c].there

TitledIsThere == \A c \in Ids : (idx[c].title => idx[c].there) /\ (idxFile.ent[c].title => idxFile.ent[c].there)

\* Where a conversation stands agrees with its entry.
StandsRight ==
    \A c \in Ids :
      /\ storeStep[c] # "none" => storeBoot = "up"
      /\ storeStep[c] \in Making => c \notin had /\ ~idx[c].title
      /\ storeStep[c] \in {"dirs"} \cup Made => idx[c].there
      /\ storeStep[c] \in {"echo", "turn"} => idx[c].title
      /\ storeStep[c] = "title" => ~idx[c].title

OnFile(c) == c \in idxFile.bad \/ idxFile.ent[c].title

\* A boot has not found the entry of c, but the log of c, which it will set aside.
Missed(c) ==
    /\ c \in nameless /\ ~idx[c].there /\ convLog[c] = "prompted" /\ ~damaged
    /\ storeBoot \in {"backup", "save", "prune", "orphans"}

\* A title that was told to the user is in memory and on file, unless the file was damaged as a
\* whole (then the log tells it) or the entry lost its id (then the log is set aside).
TitleKept ==
    \A c \in had \ untold :
      /\ OnFile(c) \/ idxFile.kind \in {"none", "bad"} \/ (c \in nameless /\ ~idxFile.ent[c].there)
      /\ storeBoot # "down" => idx[c].title \/ c \in quar \/ c \in aside \cap nameless \/ Missed(c)

\* Of a conversation whose log was set aside nothing else is left.
AsideGone ==
    \A c \in aside : convLog[c] = "none" /\ ~idx[c].there /\ ~idxFile.ent[c].there /\ storeStep[c] = "none"

\* Memory and file agree on the titles, but for those whose save failed.
TitlesAgree ==
    storeBoot \in Serving =>
      \A c \in Ids :
        /\ idx[c].title /\ c \notin untold => OnFile(c)
        /\ idxFile.ent[c].title /\ c \notin quar => idx[c].title

UntoldUnsaved == \A c \in untold : c \in idxFile.bad \/ ~idxFile.ent[c].title

\* Only a conversation whose title was not saved, or not found, loses its log, and with it
\* everything; or one whose log was set aside.
Forgotten ==
    \A c \in had :
      ~Transcript(c) =>
        /\ c \in untold \/ c \in aside \cap nameless
        /\ convLog[c] = "none" /\ storeStep[c] = "none" /\ ~idx[c].title
        /\ storeBoot \in {"orphans", "serve", "up"} \/ (storeBoot = "save" /\ damaged) => ~idx[c].there

StoreInv ==
    /\ StoreTypes /\ IndexFile /\ TitledIsThere /\ StandsRight /\ TitleKept /\ AsideGone /\ TitlesAgree
    /\ UntoldUnsaved /\ Forgotten

LEMMA StoreStarts == StoreInit => StoreInv
<1> SUFFICES ASSUME StoreInit PROVE StoreInv OBVIOUS
<1>1. /\ NoEntry \in Entries /\ ~NoEntry.title /\ ~NoEntry.there
      /\ \A c \in Ids : EmptyIndex[c] = NoEntry
      /\ EmptyIndex \in [Ids -> Entries] BY DEF NoEntry, Entries, EmptyIndex
<1>2. Entry(TRUE, FALSE) \in Entries /\ Entry(TRUE, FALSE).title /\ Entry(TRUE, FALSE).there BY DEF Entry, Entries
<1>3. Cline \subseteq Ids BY DEF Ids
<1>4. /\ idx = EmptyIndex /\ quar = {} /\ storeBoot = "down" /\ damaged = FALSE /\ had = Cline /\ untold = {} /\ aside = {}
      /\ storeStep = [c \in Ids |-> "none"]
      /\ convLog = [c \in Ids |-> IF c \in Cline THEN "prompted" ELSE "none"] BY DEF StoreInit
<1>5. /\ idxFile \in [kind : {"none", "bad", "v2", "v3"}, ent : [Ids -> Entries], bad : SUBSET Ids] /\ idxFile.bad = {}
      /\ idxFile.kind \in {"none", "bad"} => idxFile.ent = EmptyIndex
      /\ idxFile.kind \in {"none", "bad"} \/ \A c \in Cline : idxFile.ent[c].title
      /\ \A c \in Ids : idxFile.ent[c].title => idxFile.ent[c].there
 <2>1. CASE Cline = {}
  <3> DEFINE f == EmptyIndex
  <3>1. idxFile = [kind |-> "none", ent |-> f, bad |-> {}] BY <2>1 DEF StoreInit
  <3>2. f \in [Ids -> Entries] /\ \A c \in Ids : ~f[c].title BY <1>1
  <3>3. idxFile.ent = EmptyIndex BY <3>1
  <3> HIDE DEF f
  <3> QED BY <3>1, <3>2, <3>3
 <2>2. CASE Cline # {}
  <3> DEFINE f == [c \in Ids |-> IF c \in Cline THEN Entry(TRUE, FALSE) ELSE NoEntry]
  <3>1. idxFile = [kind |-> "v2", bad |-> {}, ent |-> f] BY <2>2 DEF StoreInit
  <3>2. f \in [Ids -> Entries] /\ \A c \in Ids : f[c] = IF c \in Cline THEN Entry(TRUE, FALSE) ELSE NoEntry
    BY <1>1, <1>2
  <3> HIDE DEF f
  <3> QED BY <3>1, <3>2, <1>1, <1>2, <1>3
 <2> QED BY <2>1, <2>2
<1>6. StoreTypes
 <2>1. storeStep \in [Ids -> {"none"} \cup Making \cup Made] BY <1>4
 <2>2. convLog \in [Ids -> Logs] BY <1>4 DEF Logs
 <2>3. quar \in SUBSET Ids /\ untold \in SUBSET Ids BY <1>4
 <2>4. storeBoot \in {"down"} \cup Loaded /\ damaged \in BOOLEAN BY <1>4
 <2>4a. had \in SUBSET Ids /\ aside \in SUBSET Ids BY <1>3, <1>4
 <2>4b. idx \in [Ids -> Entries] BY <1>1, <1>4
 <2> QED BY <1>5, <2>1, <2>2, <2>3, <2>4, <2>4a, <2>4b DEF StoreTypes
<1>7. IndexFile /\ TitledIsThere BY <1>1, <1>4, <1>5 DEF IndexFile, TitledIsThere, Serving, Loaded
<1>8. StandsRight /\ TitleKept /\ AsideGone /\ TitlesAgree /\ UntoldUnsaved /\ Forgotten
  BY <1>1, <1>3, <1>4, <1>5 DEF StandsRight, TitleKept, AsideGone, TitlesAgree, UntoldUnsaved, Forgotten, Transcript,
     OnFile, Serving, Making, Made
<1> QED BY <1>6, <1>7, <1>8 DEF StoreInv

\* What a save leaves: the quarantined entries as they were, the others as given.
LEMMA SavedFile ==
  ASSUME NEW e \in [Ids -> Entries], StoreTypes, SaveOk(e)
  PROVE  /\ idxFile' \in [kind : {"none", "bad", "v2", "v3"}, ent : [Ids -> Entries], bad : SUBSET Ids]
         /\ idxFile'.kind = "v3" /\ idxFile'.bad = quar
         /\ \A c \in Ids : idxFile'.ent[c] = IF c \in quar THEN idxFile.ent[c] ELSE e[c]
         /\ untold' \in SUBSET Ids /\ untold' \subseteq untold
         /\ \A c \in untold : c \in untold' <=> ~e[c].title
<1> DEFINE f == [c \in Ids |-> IF c \in quar THEN idxFile.ent[c] ELSE e[c]]
           Types == [kind : {"none", "bad", "v2", "v3"}, ent : [Ids -> Entries], bad : SUBSET Ids]
<1>1. idxFile' = [kind |-> "v3", ent |-> f, bad |-> quar] /\ untold' = {c \in untold : ~e[c].title} BY DEF SaveOk
<1>2. idxFile.ent \in [Ids -> Entries] /\ quar \in SUBSET Ids /\ untold \in SUBSET Ids BY DEF StoreTypes
<1>3. f \in [Ids -> Entries] /\ \A c \in Ids : f[c] = IF c \in quar THEN idxFile.ent[c] ELSE e[c] BY <1>2
<1> HIDE DEF f
<1>4. idxFile' \in Types /\ idxFile'.kind = "v3" /\ idxFile'.bad = quar /\ idxFile'.ent = f BY <1>1, <1>2, <1>3
<1>5. untold' \in SUBSET Ids /\ untold' \subseteq untold /\ \A c \in untold : c \in untold' <=> ~e[c].title
  BY <1>1, <1>2
<1> QED BY <1>3, <1>4, <1>5

\* A step that saves its entries keeps the invariant, if it takes no title from a
\* conversation that was prompted and gives none to one that lost its log.
LEMMA SaveKeeps ==
  ASSUME StoreInv, SaveOk(idx'), storeBoot # "down", storeBoot' \in Serving,
         quar' = quar, had' = had, damaged' = damaged, aside' = aside, nameless' = nameless,
         convLog' \in [Ids -> Logs], \A c \in had : Transcript(c) <=> Transcript(c)',
         \A c \in had : ~Transcript(c) => convLog'[c] = convLog[c],
         idx' \in [Ids -> Entries], storeStep' \in [Ids -> {"none"} \cup Making \cup Made],
         \A c \in Ids : idx'[c].title => idx'[c].there,
         \A c \in had : idx[c].title => idx'[c].title,
         \A c \in had : Missed(c) => Missed(c)',
         storeBoot' = "up" \/ \A c \in quar : ~idx'[c].there,
         \A c \in had : ~Transcript(c) =>
            ~idx'[c].title /\ storeStep'[c] = "none" /\ (storeBoot' \in {"orphans", "serve", "up"} => ~idx'[c].there),
         StandsRight', \A c \in aside : convLog'[c] = "none" /\ ~idx'[c].there /\ storeStep'[c] = "none"
  PROVE  StoreInv'
<1>1. StoreTypes /\ IndexFile /\ TitledIsThere /\ TitleKept /\ AsideGone /\ TitlesAgree /\ UntoldUnsaved /\ Forgotten
  BY DEF StoreInv
<1>2. /\ idxFile' \in [kind : {"none", "bad", "v2", "v3"}, ent : [Ids -> Entries], bad : SUBSET Ids]
      /\ idxFile'.kind = "v3" /\ idxFile'.bad = quar
      /\ \A c \in Ids : idxFile'.ent[c] = IF c \in quar THEN idxFile.ent[c] ELSE idx'[c]
      /\ untold' \in SUBSET Ids /\ untold' \subseteq untold
      /\ \A c \in untold : c \in untold' <=> ~idx'[c].title BY <1>1, SavedFile
<1>3. had \subseteq Ids /\ untold \subseteq Ids /\ quar \subseteq Ids /\ aside \subseteq Ids BY <1>1 DEF StoreTypes
<1>4. StoreTypes'
 <2>1. storeBoot' \in {"down"} \cup Loaded BY DEF Loaded
 <2>2. quar' \in SUBSET Ids /\ had' \in SUBSET Ids /\ aside' \in SUBSET Ids /\ damaged' \in BOOLEAN
   BY <1>1 DEF StoreTypes
 <2> QED BY <1>2, <2>1, <2>2 DEF StoreTypes
<1>5. IndexFile' BY <1>2, <1>3 DEF IndexFile, Serving, Loaded
<1>6. TitledIsThere' BY <1>1, <1>2 DEF TitledIsThere
<1>7. AsideGone' BY <1>1, <1>2, <1>3 DEF AsideGone
<1>8. TitleKept'
 <2> SUFFICES ASSUME NEW c \in had, c \notin untold'
              PROVE  /\ OnFile(c)' \/ (c \in nameless /\ ~idxFile'.ent[c].there)
                     /\ idx'[c].title \/ c \in quar \/ c \in aside \cap nameless \/ Missed(c)' BY DEF TitleKept
 <2>1. CASE idx'[c].title \/ c \in quar BY <1>2, <1>3, <2>1 DEF OnFile
 <2>2. CASE c \in aside \cap nameless BY <1>3, <1>7, <2>2 DEF AsideGone
 <2>3. CASE Missed(c) /\ c \notin quar
  <3>1. Missed(c)' BY <2>3
  <3>2. c \in nameless /\ ~idxFile'.ent[c].there BY <1>2, <1>3, <2>3, <3>1 DEF Missed
  <3> QED BY <3>1, <3>2
 <2>4. idx[c].title \/ c \in quar \/ c \in aside \cap nameless \/ Missed(c) \/ idx'[c].title
   BY <1>1, <1>2 DEF TitleKept
 <2> QED BY <2>1, <2>2, <2>3, <2>4
<1>9. TitlesAgree' BY <1>2, <1>3 DEF TitlesAgree, OnFile
<1>10. UntoldUnsaved'
 <2> SUFFICES ASSUME NEW c \in untold' PROVE c \in quar \/ ~idxFile'.ent[c].title BY <1>2 DEF UntoldUnsaved
 <2> QED BY <1>2, <1>3
<1>11. Forgotten'
 <2> SUFFICES ASSUME NEW c \in had, ~Transcript(c)
              PROVE  /\ c \in untold' \/ c \in aside \cap nameless
                     /\ convLog'[c] = "none" /\ storeStep'[c] = "none" /\ ~idx'[c].title
                     /\ storeBoot' \in {"orphans", "serve", "up"} \/ (storeBoot' = "save" /\ damaged') => ~idx'[c].there
   BY DEF Forgotten
 <2>1. (c \in untold \/ c \in aside \cap nameless) /\ convLog[c] = "none" BY <1>1 DEF Forgotten
 <2>2. storeBoot' # "save" BY DEF Serving
 <2> QED BY <1>2, <2>1, <2>2
<1> QED BY <1>4, <1>5, <1>6, <1>7, <1>8, <1>9, <1>10, <1>11 DEF StoreInv

\* A step of a serving gateway that writes nothing and changes no title.
LEMMA HoldKeeps ==
  ASSUME StoreInv, storeBoot = "up", UNCHANGED <<storeBoot, idxFile, untold, quar, had, damaged, aside, nameless>>,
         idx' \in [Ids -> Entries], storeStep' \in [Ids -> {"none"} \cup Making \cup Made],
         convLog' \in [Ids -> Logs], \A c \in had : Transcript(c) <=> Transcript(c)',
         \A c \in had : ~Transcript(c) => convLog'[c] = convLog[c],
         \A c \in Ids : idx'[c].title = idx[c].title /\ (idx'[c].title => idx'[c].there),
         \A c \in had : ~Transcript(c) => storeStep'[c] = "none" /\ ~idx'[c].there,
         StandsRight', \A c \in aside : convLog'[c] = "none" /\ ~idx'[c].there /\ storeStep'[c] = "none"
  PROVE  StoreInv'
<1>1. StoreTypes /\ IndexFile /\ TitledIsThere /\ TitleKept /\ AsideGone /\ TitlesAgree /\ UntoldUnsaved /\ Forgotten
  BY DEF StoreInv
<1>2. had \subseteq Ids /\ untold \subseteq Ids /\ aside \subseteq Ids BY <1>1 DEF StoreTypes
<1>3. StoreTypes' BY <1>1 DEF StoreTypes
<1>4. IndexFile' BY <1>1 DEF IndexFile
<1>5. TitledIsThere' BY <1>1 DEF TitledIsThere
<1>6. TitleKept' /\ UntoldUnsaved' /\ AsideGone' BY <1>1, <1>2 DEF TitleKept, UntoldUnsaved, AsideGone, OnFile, Missed
<1>7. TitlesAgree' BY <1>1 DEF TitlesAgree, OnFile
<1>8. Forgotten' BY <1>1, <1>2 DEF Forgotten
<1> QED BY <1>3, <1>4, <1>5, <1>6, <1>7, <1>8 DEF StoreInv

\* session/new, the prompts and the end of a turn.
LEMMA StoreServes ==
  ASSUME StoreInv, NEW c \in Ids,
         \/ EngineCreates(c) \/ Add(c) \/ OpenDirs(c) \/ NewFails(c) \/ FrameLogged(c) \/ Undo(c)
         \/ Prompt(c) \/ Title(c) \/ Echo(c) \/ LogRotates(c) \/ TurnEnds(c) \/ BindFindsNothing(c)
  PROVE  StoreInv'
<1>1. StoreTypes /\ IndexFile /\ TitledIsThere /\ StandsRight /\ TitleKept /\ AsideGone /\ TitlesAgree /\ UntoldUnsaved
      /\ Forgotten BY DEF StoreInv
<1>2. /\ idx \in [Ids -> Entries] /\ storeStep \in [Ids -> {"none"} \cup Making \cup Made]
      /\ convLog \in [Ids -> Logs] /\ had \subseteq Ids /\ untold \subseteq Ids /\ aside \subseteq Ids
  BY <1>1 DEF StoreTypes
<1>3. /\ storeStep[c] # "none" => storeBoot = "up"
      /\ storeStep[c] \in Making => c \notin had /\ ~idx[c].title
      /\ storeStep[c] \in {"dirs"} \cup Made => idx[c].there
      /\ storeStep[c] \in {"echo", "turn"} => idx[c].title
      /\ storeStep[c] = "title" => ~idx[c].title BY <1>1 DEF StandsRight
<1>4. /\ \A x \in Ids : idx[x].title => idx[x].there
      /\ storeBoot = "up" => \A x \in had : ~Transcript(x) => storeStep[x] = "none" /\ ~idx[x].there /\ ~idx[x].title
      /\ \A x \in aside : convLog[x] = "none" /\ ~idx[x].there /\ storeStep[x] = "none"
  BY <1>1 DEF TitledIsThere, Forgotten, AsideGone
<1>5. "up" \in Serving /\ "up" # "down" BY DEF Serving
<1>6. Entry(FALSE, FALSE) \in Entries /\ ~Entry(FALSE, FALSE).title /\ NoEntry \in Entries /\ ~NoEntry.title /\ ~NoEntry.there
  BY DEF Entry, NoEntry, Entries
\* The steps that write nothing.
<1>7. ASSUME UNCHANGED <<idx, idxFile, untold, quar, had, damaged, storeBoot, aside, nameless>>, storeBoot = "up",
             convLog' \in [Ids -> Logs], \A x \in Ids : x # c => convLog'[x] = convLog[x], c \notin aside,
             c \in had => (Transcript(c) <=> Transcript(c)') /\ (~Transcript(c) => UNCHANGED convLog),
             NEW s \in {"none"} \cup Making \cup Made, storeStep' = [storeStep EXCEPT ![c] = s],
             s \in Making => c \notin had /\ ~idx[c].title, s \in {"dirs"} \cup Made => idx[c].there,
             s \in {"echo", "turn"} => idx[c].title, s = "title" => ~idx[c].title
      PROVE  StoreInv'
 <2>1. \A x \in Ids : storeStep'[x] = IF x = c THEN s ELSE storeStep[x] BY <1>2, <1>7
 <2>2. storeStep' \in [Ids -> {"none"} \cup Making \cup Made] BY <1>2, <1>7
 <2>3. StandsRight' BY <1>1, <1>7, <2>1 DEF StandsRight
 <2>4. \A x \in had : ~Transcript(x) => storeStep'[x] = "none" /\ ~idx'[x].there
   BY <1>2, <1>4, <1>7, <2>1 DEF Making, Made
 <2>5. \A x \in aside : convLog'[x] = "none" /\ ~idx'[x].there /\ storeStep'[x] = "none" BY <1>2, <1>4, <1>7, <2>1
 <2>6. \A x \in had : (Transcript(x) <=> Transcript(x)') /\ (~Transcript(x) => convLog'[x] = convLog[x])
   BY <1>2, <1>7 DEF Transcript
 <2> QED BY <1>2, <1>4, <1>7, <2>2, <2>3, <2>4, <2>5, <2>6, HoldKeeps
<1>8. CASE EngineCreates(c)
 <2>1. c \notin had /\ c \notin aside /\ ~idx[c].title BY <1>4, <1>8 DEF EngineCreates
 <2> QED BY <1>2, <1>7, <1>8, <2>1 DEF EngineCreates, Making, Made
<1>9. CASE OpenDirs(c)
 <2>1. c \notin had /\ c \notin aside /\ storeBoot = "up" /\ idx[c].there BY <1>3, <1>4, <1>9 DEF OpenDirs, Making
 <2>2. convLog' \in [Ids -> Logs] /\ \A x \in Ids : x # c => convLog'[x] = convLog[x]
   BY <1>2, <1>9, <2>1 DEF OpenDirs, Logs
 <2> QED BY <1>7, <1>9, <2>1, <2>2 DEF OpenDirs, Making, Made
<1>10. CASE NewFails(c) BY <1>2, <1>3, <1>4, <1>7, <1>10 DEF NewFails, Making, Made
<1>11. CASE FrameLogged(c)
 <2>1. c \notin had /\ c \notin aside /\ storeBoot = "up" /\ storeStep[c] \in Making
   BY <1>3, <1>4, <1>11 DEF FrameLogged, Making
 <2>2. convLog' \in [Ids -> Logs] /\ \A x \in Ids : x # c => convLog'[x] = convLog[x]
   BY <1>2, <1>11, <2>1 DEF FrameLogged, Logs
 <2>3. storeStep' = [storeStep EXCEPT ![c] = storeStep[c]] BY <1>2, <1>11 DEF FrameLogged
 <2> QED BY <1>3, <1>7, <1>11, <2>1, <2>2, <2>3 DEF FrameLogged, Making, Made
<1>12. CASE Prompt(c)
 <2>1. c \notin aside /\ storeBoot = "up" /\ idx[c].there BY <1>3, <1>4, <1>12 DEF Prompt, Made
 <2>2. Transcript(c) <=> Transcript(c)' BY <1>12 DEF Prompt, Transcript
 <2> QED BY <1>2, <1>3, <1>7, <1>12, <2>1, <2>2 DEF Prompt, Making, Made
<1>21. CASE LogRotates(c)
 <2>1. c \notin aside /\ storeBoot = "up" /\ idx[c].there /\ idx[c].title /\ storeStep[c] \in {"echo", "turn"}
   BY <1>3, <1>4, <1>21 DEF LogRotates, Made
 <2>2. /\ convLog' \in [Ids -> Logs] /\ \A x \in Ids : x # c => convLog'[x] = convLog[x]
       /\ Transcript(c) /\ Transcript(c)' BY <1>2, <1>21 DEF LogRotates, Transcript, Logs
 <2>3. storeStep' = [storeStep EXCEPT ![c] = storeStep[c]] BY <1>2, <1>21 DEF LogRotates
 <2> QED BY <1>7, <1>21, <2>1, <2>2, <2>3 DEF LogRotates, Making, Made
\* The steps that change the entry of c, and may save it.
<1>13. c \in had /\ storeStep[c] # "none" => Transcript(c) BY <1>1 DEF Forgotten
<1>14. ASSUME NEW e \in Entries, idx' = [idx EXCEPT ![c] = e], NEW s \in {"none"} \cup Making \cup Made,
              storeStep' = [storeStep EXCEPT ![c] = s], UNCHANGED <<quar, had, damaged, storeBoot, aside, nameless>>,
              storeBoot = "up", storeStep[c] # "none", convLog' \in [Ids -> Logs],
              \A x \in Ids : x # c => convLog'[x] = convLog[x], c \in had => Transcript(c)', e.title => e.there, c \in had /\ idx[c].title => e.title,
              s \in Making => c \notin had /\ ~e.title, s \in {"dirs"} \cup Made => e.there, s \in {"echo", "turn"} => e.title,
              s = "title" => ~e.title, SaveOk(idx') \/ (SaveFails /\ e.title = idx[c].title)
       PROVE  StoreInv'
 <2>1. /\ \A x \in Ids : storeStep'[x] = IF x = c THEN s ELSE storeStep[x]
       /\ \A x \in Ids : idx'[x] = IF x = c THEN e ELSE idx[x]
       /\ idx' \in [Ids -> Entries] /\ storeStep' \in [Ids -> {"none"} \cup Making \cup Made] BY <1>2, <1>14
 <2>2. StandsRight' BY <1>1, <1>14, <2>1 DEF StandsRight
 <2>3. \A x \in had : ~Transcript(x) => x # c /\ storeStep'[x] = "none" /\ ~idx'[x].title /\ ~idx'[x].there
   BY <1>2, <1>4, <1>13, <1>14, <2>1
 <2>8. \A x \in had : (Transcript(x) <=> Transcript(x)') /\ (~Transcript(x) => convLog'[x] = convLog[x])
   BY <1>2, <1>13, <1>14 DEF Transcript
 <2>9. \A x \in aside : convLog'[x] = "none" /\ ~idx'[x].there /\ storeStep'[x] = "none" BY <1>2, <1>4, <1>14, <2>1
 <2>10. \A x \in had : ~Missed(x) BY <1>14 DEF Missed
 <2>4. \A x \in Ids : idx'[x].title => idx'[x].there BY <1>4, <1>14, <2>1
 <2>5. \A x \in had : idx[x].title => idx'[x].title BY <1>2, <1>14, <2>1
 <2>6. CASE SaveOk(idx') BY <1>5, <1>14, <2>1, <2>2, <2>3, <2>4, <2>5, <2>6, <2>8, <2>9, <2>10, SaveKeeps
 <2>7. CASE SaveFails /\ e.title = idx[c].title
  <3>1. UNCHANGED <<idxFile, untold>> /\ \A x \in Ids : idx'[x].title = idx[x].title BY <2>1, <2>7 DEF SaveFails
  <3> QED BY <1>2, <1>14, <2>1, <2>2, <2>3, <2>4, <2>8, <2>9, <3>1, HoldKeeps
 <2> QED BY <1>14, <2>6, <2>7
<1>15. CASE Add(c)
 <2>1. storeStep[c] = "mode" /\ c \notin had /\ idx[c].title = FALSE /\ storeBoot = "up"
   BY <1>2, <1>3, <1>15 DEF Add, Making, Entries
 <2>2. Entry(FALSE, FALSE).there /\ Entry(FALSE, FALSE).title = FALSE BY DEF Entry
 <2>3. PICK s \in {"dirs", "undo"} : storeStep' = [storeStep EXCEPT ![c] = s] BY <1>15 DEF Add
 <2>4. convLog' = convLog BY <1>15 DEF Add
 <2> QED BY <1>2, <1>6, <1>14, <1>15, <2>1, <2>2, <2>3, <2>4 DEF Add, Making, Made
<1>16. CASE Undo(c)
 <2>1. storeStep[c] = "undo" /\ c \notin had /\ idx[c].title = FALSE /\ storeBoot = "up" /\ NoEntry.title = FALSE
   BY <1>2, <1>3, <1>16 DEF Undo, Making, Entries, NoEntry
 <2>2. SaveOk(idx') \/ SaveFails BY <1>16 DEF Undo
 <2>3. convLog' = convLog BY <1>16 DEF Undo
 <2> QED BY <1>2, <1>6, <1>14, <1>16, <2>1, <2>2, <2>3 DEF Undo, Making, Made
<1>17. CASE TurnEnds(c)
 <2>1. storeStep[c] = "turn" /\ idx[c].there /\ storeBoot = "up" /\ idx[c] \in Entries
   BY <1>2, <1>3, <1>17 DEF TurnEnds, Made
 <2>2. (SaveOk(idx') \/ SaveFails) /\ idx' = [idx EXCEPT ![c] = idx[c]] BY <1>2, <1>17 DEF TurnEnds
 <2>3. /\ convLog' \in [Ids -> Logs] /\ \A x \in Ids : x # c => convLog'[x] = convLog[x]
       /\ c \in had => Transcript(c)' BY <1>2, <1>13, <1>17, <2>1 DEF TurnEnds, Transcript, Logs
 <2> QED BY <1>2, <1>4, <1>14, <1>17, <2>1, <2>2, <2>3 DEF TurnEnds, Making, Made
<1>18. CASE BindFindsNothing(c)
 <2> DEFINE e == [idx[c] EXCEPT !.archived = TRUE]
 <2>1. storeStep[c] = "ready" /\ idx[c].there /\ storeBoot = "up" /\ idx[c] \in Entries
   BY <1>2, <1>3, <1>18 DEF BindFindsNothing, Made
 <2>2. e \in Entries /\ e.title = idx[c].title /\ e.there BY <2>1 DEF Entries
 <2>3. (SaveOk(idx') \/ SaveFails) /\ idx' = [idx EXCEPT ![c] = e] /\ storeStep' = [storeStep EXCEPT ![c] = "ready"]
   BY <1>2, <1>18, <2>1 DEF BindFindsNothing
 <2>4. /\ convLog' \in [Ids -> Logs] /\ \A x \in Ids : x # c => convLog'[x] = convLog[x]
       /\ c \in had => Transcript(c)' BY <1>2, <1>13, <1>18, <2>1 DEF BindFindsNothing, Transcript
 <2> HIDE DEF e
 <2> QED BY <1>4, <1>14, <1>18, <2>1, <2>2, <2>3, <2>4 DEF BindFindsNothing, Making, Made
\* The title of the first prompt: saved, or the turn ends and the user is told.
<1>19. CASE Title(c)
 <2> DEFINE e == [idx[c] EXCEPT !.title = TRUE]
 <2>1. storeStep[c] = "title" /\ idx[c].there /\ storeBoot = "up" /\ idx[c] \in Entries /\ ~idx[c].title
   BY <1>2, <1>3, <1>19 DEF Title, Made
 <2>2. e \in Entries /\ e.title /\ e.there BY <2>1 DEF Entries
 <2>3. idx' = [idx EXCEPT ![c] = e] /\ UNCHANGED <<quar, had, damaged, storeBoot, aside, nameless>>
   BY <1>2, <1>19, <2>1 DEF Title
 <2>6. c \in had => Transcript(c) BY <1>13, <2>1
 <2> HIDE DEF e
 <2>4. CASE SaveOk(idx') /\ storeStep' = [storeStep EXCEPT ![c] = "echo"] /\ UNCHANGED convLog
  <3>1. convLog' \in [Ids -> Logs] /\ (c \in had => Transcript(c)') BY <1>2, <2>4, <2>6 DEF Transcript
  <3> QED BY <1>14, <2>1, <2>2, <2>3, <2>4, <3>1 DEF Making, Made
 <2>5. CASE /\ storeStep' = [storeStep EXCEPT ![c] = "ready"] /\ UNCHANGED idxFile
            /\ convLog' = [convLog EXCEPT ![c] = IF Transcript(c) THEN "prompted" ELSE "events"]
            /\ untold' = untold \cup {c}
  <3>1. /\ \A x \in Ids : storeStep'[x] = IF x = c THEN "ready" ELSE storeStep[x]
        /\ \A x \in Ids : idx'[x] = IF x = c THEN e ELSE idx[x]
        /\ idx' \in [Ids -> Entries] /\ storeStep' \in [Ids -> {"none"} \cup Making \cup Made]
    BY <1>2, <2>2, <2>3, <2>5 DEF Made
  <3>2. /\ convLog' \in [Ids -> Logs]
        /\ \A x \in Ids : x # c => convLog[x] = convLog'[x] BY <1>2, <2>5 DEF Logs
  <3>2a. \A x \in had : (Transcript(x) <=> Transcript(x)') /\ (~Transcript(x) => convLog[x] = convLog'[x])
    BY <1>2, <2>5, <2>6, <3>2 DEF Transcript
  <3>3. StoreTypes' BY <1>1, <2>3, <2>5, <3>1, <3>2 DEF StoreTypes
  <3>4. IndexFile' BY <1>1, <2>1, <2>3, <2>5 DEF IndexFile
  <3>5. TitledIsThere' BY <1>1, <2>2, <2>5, <3>1 DEF TitledIsThere
  <3>6. StandsRight' BY <1>1, <2>1, <2>2, <2>3, <3>1 DEF StandsRight, Making, Made
  <3>7. TitleKept' BY <1>1, <1>2, <2>1, <2>2, <2>3, <2>5, <3>1 DEF TitleKept, OnFile, Missed
  <3>7a. AsideGone' BY <1>1, <1>2, <1>4, <2>1, <2>2, <2>3, <2>5, <3>1, <3>2 DEF AsideGone
  <3>8. TitlesAgree' BY <1>1, <1>2, <2>2, <2>3, <2>5, <3>1 DEF TitlesAgree, OnFile
  <3>9. UntoldUnsaved'
   <4>1. c \in idxFile.bad \/ ~idxFile.ent[c].title BY <1>1, <1>5, <2>1 DEF TitlesAgree, IndexFile
   <4> QED BY <1>1, <2>5, <4>1 DEF UntoldUnsaved
  <3>10. Forgotten' BY <1>1, <1>2, <2>1, <2>3, <2>5, <2>6, <3>1, <3>2a DEF Forgotten
  <3> QED BY <3>3, <3>4, <3>5, <3>6, <3>7, <3>7a, <3>8, <3>9, <3>10 DEF StoreInv
 <2> QED BY <1>19, <2>4, <2>5 DEF Title
<1>20. CASE Echo(c)
 <2>1. storeStep[c] = "echo" /\ idx[c].there /\ idx[c].title /\ storeBoot = "up" BY <1>3, <1>20 DEF Echo, Made
 <2>2. /\ UNCHANGED <<idx, quar, idxFile, storeBoot, damaged, untold, aside, nameless>> /\ had' = had \cup {c}
       /\ \A x \in Ids : storeStep'[x] = IF x = c THEN "turn" ELSE storeStep[x]
       /\ storeStep' \in [Ids -> {"none"} \cup Making \cup Made]
       /\ \A x \in Ids : convLog'[x] = IF x = c THEN "prompted" ELSE convLog[x]
       /\ convLog' \in [Ids -> Logs] BY <1>2, <1>20 DEF Echo, Made, Logs
 <2>3. StoreTypes' BY <1>1, <2>2 DEF StoreTypes
 <2>4. IndexFile' /\ TitledIsThere' /\ UntoldUnsaved' /\ TitlesAgree'
   BY <1>1, <2>2 DEF IndexFile, TitledIsThere, UntoldUnsaved, TitlesAgree, OnFile
 <2>5. StandsRight' BY <1>1, <1>2, <2>1, <2>2 DEF StandsRight, Making, Made
 <2>6. TitleKept'
  <3>1. c \notin untold => OnFile(c) BY <1>1, <1>5, <2>1 DEF TitlesAgree
  <3> QED BY <1>1, <2>1, <2>2, <3>1 DEF TitleKept, OnFile, Missed
 <2>7. Forgotten' BY <1>1, <1>2, <2>1, <2>2 DEF Forgotten, Transcript
 <2>8. AsideGone' BY <1>1, <1>2, <1>4, <2>1, <2>2 DEF AsideGone
 <2> QED BY <1>1, <2>3, <2>4, <2>5, <2>6, <2>7, <2>8 DEF StoreInv
<1> QED BY <1>21, <1>8, <1>9, <1>10, <1>11, <1>12, <1>15, <1>16, <1>17, <1>18, <1>19, <1>20

\* A crash, and what may happen to the file meanwhile.
LEMMA StoreCrashes ==
  ASSUME StoreInv, EngineResets \/ StoreCrash \/ DamageIndex \/ (\E c \in Ids : FlushDelete(c)) \/ UNCHANGED storeVars
  PROVE  StoreInv'
<1>1. StoreTypes /\ IndexFile /\ TitledIsThere /\ StandsRight /\ TitleKept /\ AsideGone /\ TitlesAgree /\ UntoldUnsaved
      /\ Forgotten BY DEF StoreInv
<1>2. /\ NoEntry \in Entries /\ ~NoEntry.title /\ ~NoEntry.there
      /\ \A c \in Ids : EmptyIndex[c] = NoEntry
      /\ EmptyIndex \in [Ids -> Entries] BY DEF NoEntry, Entries, EmptyIndex
<1>3. had \subseteq Ids /\ untold \subseteq Ids /\ aside \subseteq Ids BY <1>1 DEF StoreTypes
<1>4. CASE UNCHANGED <<idx, quar, idxFile, convLog, storeStep, storeBoot, damaged, had, untold, aside, nameless>>
  BY <1>1, <1>4 DEF StoreInv, StoreTypes, IndexFile, TitledIsThere, StandsRight, TitleKept, AsideGone, TitlesAgree,
     UntoldUnsaved, Forgotten, OnFile, Missed, Transcript
<1>5. CASE StoreCrash
 <2>1. /\ storeBoot' = "down" /\ idx' = EmptyIndex /\ quar' = {} /\ damaged' = FALSE
       /\ storeStep' = [c \in Ids |-> "none"] /\ UNCHANGED <<idxFile, convLog, had, untold, aside, nameless>>
   BY <1>5 DEF StoreCrash
 <2>2. storeStep' \in [Ids -> {"none"} \cup Making \cup Made] /\ \A c \in Ids : storeStep'[c] = "none" BY <2>1
 <2>3. idx' \in [Ids -> Entries] /\ \A c \in Ids : ~idx'[c].title /\ ~idx'[c].there BY <1>2, <2>1
 <2>4. StoreTypes' BY <1>1, <2>1, <2>2, <2>3 DEF StoreTypes
 <2>5. IndexFile' /\ TitledIsThere' /\ StandsRight'
   BY <1>1, <2>1, <2>2, <2>3 DEF IndexFile, TitledIsThere, StandsRight, Serving, Loaded, Making, Made
 <2>6. TitleKept' /\ AsideGone' /\ TitlesAgree' /\ UntoldUnsaved' /\ Forgotten'
   BY <1>1, <1>3, <2>1, <2>2, <2>3 DEF TitleKept, AsideGone, TitlesAgree, UntoldUnsaved, Forgotten, OnFile, Serving,
   Transcript
 <2> QED BY <2>4, <2>5, <2>6 DEF StoreInv
<1>6. CASE DamageIndex
 <2> DEFINE Types == [kind : {"none", "bad", "v2", "v3"}, ent : [Ids -> Entries], bad : SUBSET Ids]
 <2>1. /\ storeBoot = "down" /\ idxFile.kind # "none"
       /\ UNCHANGED <<idx, quar, convLog, storeStep, storeBoot, damaged, had, untold, aside>> BY <1>6 DEF DamageIndex
 <2>2. storeBoot \notin Serving /\ storeBoot \notin Loaded BY <2>1 DEF Serving, Loaded
 \* Of the entries that are left some may have become malformed, and one may be gone.
 <2>3. /\ idxFile' \in Types
       /\ idxFile'.kind \in {"none", "bad"} => idxFile'.ent = EmptyIndex /\ idxFile'.bad = {}
       /\ \A c \in Ids : idxFile'.ent[c] \in {idxFile.ent[c], NoEntry}
       /\ \A c \in Ids : \/ idxFile'.kind \in {"none", "bad"} /\ nameless' = nameless
                         \/ /\ idxFile'.kind = idxFile.kind /\ idxFile'.ent[c] = idxFile.ent[c]
                            /\ c \in idxFile.bad => c \in idxFile'.bad
                         \/ c \in nameless' /\ ~idxFile'.ent[c].there
       /\ nameless \subseteq nameless'
  <3>0. idxFile \in Types BY <1>1 DEF StoreTypes
  <3>1. CASE /\ \E kind \in {"none", "bad"} : idxFile' = [kind |-> kind, ent |-> EmptyIndex, bad |-> {}]
             /\ UNCHANGED nameless
   <4> DEFINE f == EmptyIndex
   <4>1. PICK kind \in {"none", "bad"} : idxFile' = [kind |-> kind, ent |-> f, bad |-> {}] BY <3>1
   <4>2. f \in [Ids -> Entries] /\ f = EmptyIndex /\ \A c \in Ids : f[c] = NoEntry BY <1>2
   <4> HIDE DEF f
   <4> QED BY <3>1, <4>1, <4>2
  <3>2. ASSUME NEW c \in Ids, idxFile.ent[c].there PROVE idxFile.kind \notin {"none", "bad"}
    BY <1>1, <1>2, <3>2 DEF IndexFile
  <3>3. ASSUME NEW c \in Ids, idxFile.ent[c].there, idxFile' = [idxFile EXCEPT !.bad = @ \cup {c}], UNCHANGED nameless
        PROVE  <2>3!:
   <4> DEFINE B == idxFile.bad \cup {c}
   <4>1. B \in SUBSET Ids /\ idxFile.bad \subseteq B BY <3>0
   <4>2. idxFile' = [idxFile EXCEPT !.bad = B] BY <3>3
   <4> HIDE DEF B
   <4>3. idxFile' \in Types /\ idxFile'.kind = idxFile.kind /\ idxFile'.ent = idxFile.ent /\ idxFile'.bad = B
     BY <3>0, <4>1, <4>2
   <4> QED BY <3>2, <3>3, <4>1, <4>3
  <3>4. ASSUME NEW c \in Ids, idxFile.ent[c].there, nameless' = nameless \cup {c},
               idxFile' = [idxFile EXCEPT !.ent[c] = NoEntry, !.bad = @ \ {c}]
        PROVE  <2>3!:
   <4> DEFINE B == idxFile.bad \ {c}
              f == [idxFile.ent EXCEPT ![c] = NoEntry]
   <4>1. B \in SUBSET Ids /\ \A x \in idxFile.bad : x # c => x \in B BY <3>0
   <4>2. f \in [Ids -> Entries] /\ \A x \in Ids : f[x] = IF x = c THEN NoEntry ELSE idxFile.ent[x] BY <1>2, <3>0
   <4>3. idxFile' = [idxFile EXCEPT !.ent = f, !.bad = B] BY <3>4
   <4> HIDE DEF B, f
   <4>4. idxFile' \in Types /\ idxFile'.kind = idxFile.kind /\ idxFile'.ent = f /\ idxFile'.bad = B
     BY <3>0, <4>1, <4>2, <4>3
   <4> QED BY <1>2, <3>2, <3>4, <4>1, <4>2, <4>4
  <3> QED BY <1>6, <3>1, <3>3, <3>4 DEF DamageIndex
 <2> HIDE DEF Types
 <2>4. StoreTypes' BY <1>1, <2>1, <2>3 DEF StoreTypes, Types
 <2>5. IndexFile' /\ TitledIsThere' /\ StandsRight' /\ AsideGone'
   BY <1>1, <1>2, <1>3, <2>1, <2>2, <2>3 DEF IndexFile, TitledIsThere, StandsRight, AsideGone
 <2>6. TitleKept' /\ TitlesAgree' BY <1>1, <1>2, <1>3, <2>1, <2>2, <2>3 DEF TitleKept, TitlesAgree, OnFile
 <2>7. UntoldUnsaved'
  <3> SUFFICES ASSUME NEW c \in untold PROVE c \in idxFile'.bad \/ ~idxFile'.ent[c].title BY <2>1 DEF UntoldUnsaved
  <3>1. c \in Ids /\ (c \in idxFile.bad \/ ~idxFile.ent[c].title) BY <1>1, <1>3 DEF UntoldUnsaved
  <3>2. idxFile'.ent[c].title => idxFile'.ent[c].there BY <2>5, <3>1 DEF TitledIsThere
  <3> QED BY <1>2, <2>3, <3>1, <3>2
 <2>8. Forgotten' BY <1>1, <2>1, <2>3 DEF Forgotten, Transcript
 <2> QED BY <2>4, <2>5, <2>6, <2>7, <2>8 DEF StoreInv
<1>7. CASE EngineResets \/ (\E c \in Ids : FlushDelete(c)) \/ UNCHANGED storeVars
  BY <1>4, <1>7 DEF EngineResets, FlushDelete, storeVars
<1> QED BY <1>5, <1>6, <1>7

\* What is loaded: the file's entry, or what the log says where the file was damaged.
LEMMA LoadsEntries ==
  ASSUME StoreTypes, Load
  PROVE  \E inMeta \in SUBSET OnlyRotated :
            /\ idx' \in [Ids -> Entries]
            /\ \A c \in Ids : idx'[c].title <=> IF IsDamaged THEN Rebuilt(c, inMeta).title ELSE Ingest(c).title
            /\ \A c \in Ids : idx'[c].there <=> IF IsDamaged THEN Rebuilt(c, inMeta).there ELSE Ingest(c).there
<1>0. PICK inMeta \in SUBSET OnlyRotated :
           idx' = [c \in Ids |-> Archived(IF IsDamaged THEN Rebuilt(c, inMeta) ELSE Ingest(c), c)] BY DEF Load
<1> DEFINE e(c) == IF IsDamaged THEN Rebuilt(c, inMeta) ELSE Ingest(c)
           f == [c \in Ids |-> Archived(e(c), c)]
<1>1. idx' = f BY <1>0
<1>2. ASSUME NEW c \in Ids PROVE e(c) \in Entries
 <2>1. NoEntry \in Entries /\ Entry(TRUE, FALSE) \in Entries /\ Entry(FALSE, FALSE) \in Entries
   BY DEF NoEntry, Entries, Entry
 <2>2. idxFile.ent[c] \in Entries BY DEF StoreTypes
 <2>3. Ingest(c) \in Entries BY <2>1, <2>2 DEF Ingest
 <2>4. Rebuilt(c, inMeta) \in Entries
  <3> DEFINE inLog == HasEvents(c) \/ c \in inMeta
  <3>1. Rebuilt(c, inMeta) = IF Ingest(c).there \/ convLog[c] = "none" THEN Ingest(c) ELSE Entry(inLog, FALSE)
    BY DEF Rebuilt
  <3>2. inLog = TRUE \/ inLog = FALSE OBVIOUS
  <3> HIDE DEF inLog
  <3> QED BY <2>1, <2>3, <3>1, <3>2
 <2> QED BY <2>3, <2>4
<1> HIDE DEF e
<1>3. ASSUME NEW c \in Ids PROVE Archived(e(c), c) \in Entries /\ Archived(e(c), c).title = e(c).title /\ Archived(e(c), c).there = e(c).there
 <2>1. e(c) \in Entries BY <1>2
 <2>2. CASE e(c).there /\ c \in Cline BY <2>1, <2>2 DEF Archived, Entries
 <2>3. CASE ~(e(c).there /\ c \in Cline) BY <2>1, <2>3 DEF Archived
 <2> QED BY <2>2, <2>3
<1>4. f \in [Ids -> Entries] /\ \A c \in Ids : f[c] = Archived(e(c), c) BY <1>3
<1> HIDE DEF f
<1>5. \A c \in Ids : idx'[c].title = e(c).title /\ idx'[c].there = e(c).there BY <1>1, <1>3, <1>4
<1> QED BY <1>1, <1>4, <1>5 DEF e

LEMMA StoreLoads == ASSUME StoreInv, Load PROVE StoreInv'
<1>1. StoreTypes /\ IndexFile /\ TitledIsThere /\ StandsRight /\ TitleKept /\ AsideGone /\ TitlesAgree /\ UntoldUnsaved
      /\ Forgotten BY DEF StoreInv
<1>2. PICK inMeta \in SUBSET OnlyRotated :
         /\ idx' \in [Ids -> Entries]
         /\ \A c \in Ids : idx'[c].title <=> IF IsDamaged THEN Rebuilt(c, inMeta).title ELSE Ingest(c).title
         /\ \A c \in Ids : idx'[c].there <=> IF IsDamaged THEN Rebuilt(c, inMeta).there ELSE Ingest(c).there
  BY <1>1, LoadsEntries
<1>3. /\ storeBoot = "down" /\ damaged' = IsDamaged /\ quar' = idxFile.bad
      /\ UNCHANGED <<idxFile, convLog, storeStep, had, aside, nameless>>
      /\ untold' = untold \cup {c \in OnlyRotated : ~idx'[c].title /\ c \notin idxFile.bad}
      /\ storeBoot' = IF idxFile.kind = "v3" THEN "prune" ELSE IF idxFile.kind = "v2" THEN "backup" ELSE "save"
  BY DEF Load
<1>4. /\ idxFile.kind \in {"none", "bad", "v2", "v3"} /\ idxFile.bad \subseteq Ids
      /\ idxFile.ent \in [Ids -> Entries] /\ had \subseteq Ids /\ untold' \subseteq Ids /\ aside \subseteq Ids
      /\ untold \subseteq untold' BY <1>1, <1>3 DEF StoreTypes, OnlyRotated
<1>5. /\ ~NoEntry.title /\ ~NoEntry.there /\ \A c \in Ids : EmptyIndex[c] = NoEntry BY DEF NoEntry, EmptyIndex
<1>6. IsDamaged => idxFile.kind \in {"none", "bad"} /\ \A c \in Ids : ~Ingest(c).there /\ ~Ingest(c).title
  BY <1>1, <1>5 DEF IsDamaged, IndexFile, Ingest
<1>7. \A b1, b2 \in BOOLEAN : Entry(b1, b2).there /\ Entry(b1, b2).title = b1 BY DEF Entry
\* Of a damaged file the logs tell the titles.
<1>8. ASSUME IsDamaged, NEW c \in Ids
      PROVE  /\ idx'[c].there <=> convLog[c] # "none"
             /\ HasEvents(c) => idx'[c].title
             /\ idx'[c].title => convLog[c] # "none"
 <2>1. CASE convLog[c] = "none" BY <1>2, <1>6, <1>8, <2>1 DEF Rebuilt, HasEvents
 <2>2. CASE convLog[c] # "none"
  <3> DEFINE inLog == HasEvents(c) \/ c \in inMeta
  <3>1. Rebuilt(c, inMeta) = Entry(inLog, FALSE) BY <1>6, <1>8, <2>2 DEF Rebuilt
  <3>2. inLog \in BOOLEAN OBVIOUS
  <3>3. idx'[c].there <=> Rebuilt(c, inMeta).there BY <1>2, <1>8
  <3>4. idx'[c].title <=> Rebuilt(c, inMeta).title BY <1>2, <1>8
  <3> HIDE DEF inLog
  <3>5. Rebuilt(c, inMeta).there /\ Rebuilt(c, inMeta).title = inLog BY <1>7, <3>1, <3>2
  <3> QED BY <2>2, <3>3, <3>4, <3>5 DEF inLog
 <2> QED BY <2>1, <2>2
<1>9. ASSUME ~IsDamaged, NEW c \in Ids
      PROVE  /\ c \in idxFile.bad => ~idx'[c].there /\ ~idx'[c].title
             /\ c \notin idxFile.bad => (idx'[c].there <=> idxFile.ent[c].there) /\ (idx'[c].title <=> idxFile.ent[c].title)
  BY <1>2, <1>5, <1>9 DEF Ingest
<1>10. storeBoot' \in Loaded /\ storeBoot' \notin {"orphans", "serve", "up", "down"}
       /\ (storeBoot' \in Serving => idxFile.kind = "v3") /\ (storeBoot' = "backup" => idxFile.kind = "v2")
  BY <1>3 DEF Loaded, Serving
<1>11. StoreTypes'
 <2>1. damaged' \in BOOLEAN BY <1>3 DEF IsDamaged
 <2> QED BY <1>1, <1>2, <1>3, <1>4, <1>10, <2>1 DEF StoreTypes
<1>12. IndexFile'
 <2>1. ASSUME NEW c \in idxFile.bad PROVE ~idx'[c].there
  <3>1. ~IsDamaged /\ c \in Ids BY <1>1, <1>4, <1>6 DEF IndexFile
  <3> QED BY <1>9, <3>1
 <2>2. storeBoot' = "backup" => ~damaged' BY <1>3, <1>6, <1>10
 <2> QED BY <1>1, <1>3, <1>10, <2>1, <2>2 DEF IndexFile
<1>13. TitledIsThere'
 <2> SUFFICES ASSUME NEW c \in Ids PROVE (idx'[c].title => idx'[c].there) /\ (idxFile.ent[c].title => idxFile.ent[c].there)
   BY <1>3 DEF TitledIsThere
 <2>1. idxFile.ent[c].title => idxFile.ent[c].there BY <1>1 DEF TitledIsThere
 <2>2. idx'[c].title => idx'[c].there BY <1>8, <1>9, <2>1
 <2> QED BY <2>1, <2>2
<1>14. StandsRight' BY <1>1, <1>3 DEF StandsRight, Making, Made
<1>15. TitleKept'
 <2> SUFFICES ASSUME NEW c \in had, c \notin untold'
              PROVE  /\ OnFile(c) \/ idxFile.kind \in {"none", "bad"} \/ (c \in nameless /\ ~idxFile.ent[c].there)
                     /\ idx'[c].title \/ c \in idxFile.bad \/ c \in aside \cap nameless \/ Missed(c)'
   BY <1>3 DEF TitleKept, OnFile
 <2>1. OnFile(c) \/ idxFile.kind \in {"none", "bad"} \/ (c \in nameless /\ ~idxFile.ent[c].there)
   BY <1>1, <1>4 DEF TitleKept
 <2>2. c \in Ids /\ (Transcript(c) \/ c \in aside \cap nameless) BY <1>1, <1>4 DEF Forgotten
 <2>3. convLog[c] = "rotated" => idx'[c].title \/ c \in idxFile.bad BY <1>3, <2>2 DEF OnlyRotated
 <2>4. CASE convLog[c] = "prompted" /\ IsDamaged BY <1>8, <2>1, <2>2, <2>4 DEF HasEvents
 <2>5. CASE convLog[c] = "prompted" /\ ~IsDamaged
  <3>1. idxFile.kind \notin {"none", "bad"} /\ storeBoot' \in {"backup", "prune"}
    BY <1>3, <1>4, <2>2, <2>5 DEF IsDamaged, HasLogs, HasEvents
  <3>2. CASE OnFile(c) BY <1>9, <2>1, <2>2, <2>5, <3>2 DEF OnFile
  <3>3. CASE c \in nameless /\ ~idxFile.ent[c].there
   <4>1. c \in idxFile.bad \/ ~idx'[c].there BY <1>9, <2>2, <2>5, <3>3
   <4> QED BY <1>3, <2>1, <2>5, <3>1, <3>3, <4>1 DEF Missed
  <3> QED BY <2>1, <3>1, <3>2, <3>3
 <2> QED BY <2>1, <2>2, <2>3, <2>4, <2>5 DEF Transcript
<1>15a. AsideGone'
 <2> SUFFICES ASSUME NEW c \in aside PROVE ~idx'[c].there BY <1>1, <1>3 DEF AsideGone
 <2>1. c \in Ids /\ convLog[c] = "none" /\ ~idxFile.ent[c].there BY <1>1, <1>4 DEF AsideGone
 <2> QED BY <1>8, <1>9, <2>1
<1>16. TitlesAgree'
 <2> SUFFICES ASSUME storeBoot' \in Serving, NEW c \in Ids
              PROVE  /\ idx'[c].title /\ c \notin untold' => OnFile(c)
                     /\ idxFile.ent[c].title /\ c \notin idxFile.bad => idx'[c].title BY <1>3 DEF TitlesAgree, OnFile
 <2>1. ~IsDamaged BY <1>6, <1>10
 <2> QED BY <1>9, <2>1 DEF OnFile
<1>17. UntoldUnsaved'
 <2> SUFFICES ASSUME NEW c \in untold', c \notin untold, c \notin idxFile.bad PROVE ~idxFile.ent[c].title
   BY <1>1, <1>3 DEF UntoldUnsaved
 <2>1. c \in Ids /\ ~idx'[c].title BY <1>3, <1>4
 <2>2. CASE IsDamaged BY <1>1, <1>5, <1>6, <2>1, <2>2 DEF IndexFile
 <2>3. CASE ~IsDamaged BY <1>9, <2>1, <2>3
 <2> QED BY <2>2, <2>3
<1>18. Forgotten'
 <2> SUFFICES ASSUME NEW c \in had, ~Transcript(c)
              PROVE  /\ c \in untold' \/ c \in aside \cap nameless
                     /\ convLog[c] = "none" /\ storeStep[c] = "none" /\ ~idx'[c].title
                     /\ storeBoot' = "save" /\ damaged' => ~idx'[c].there BY <1>3, <1>10 DEF Forgotten, Transcript
 <2>1. /\ c \in Ids /\ convLog[c] = "none" /\ storeStep[c] = "none"
       /\ c \in untold \/ c \in aside \cap nameless BY <1>1, <1>4 DEF Forgotten
 <2>2. CASE IsDamaged BY <1>4, <1>8, <2>1, <2>2
 <2>3. CASE ~IsDamaged
  <3>1. c \in idxFile.bad \/ ~idxFile.ent[c].title BY <1>1, <2>1 DEF UntoldUnsaved, AsideGone, TitledIsThere
  <3> QED BY <1>3, <1>4, <1>9, <2>1, <2>3, <3>1
 <2> QED BY <2>1, <2>2, <2>3
<1> QED BY <1>11, <1>12, <1>13, <1>14, <1>15, <1>15a, <1>16, <1>17, <1>18 DEF StoreInv

\* The steps of a boot: migrate, prune, serve.
LEMMA StoreBoots ==
  ASSUME StoreInv,
         BackupV2 \/ SaveLoaded \/ SavePruned \/ Serve \/ \E c \in Ids : PruneUnprompted(c) \/ PruneOrphan(c)
  PROVE  StoreInv'
<1>1. StoreTypes /\ IndexFile /\ TitledIsThere /\ StandsRight /\ TitleKept /\ AsideGone /\ TitlesAgree /\ UntoldUnsaved
      /\ Forgotten BY DEF StoreInv
<1>2. /\ idx \in [Ids -> Entries] /\ storeStep \in [Ids -> {"none"} \cup Making \cup Made]
      /\ convLog \in [Ids -> Logs] /\ had \subseteq Ids /\ untold \subseteq Ids /\ aside \subseteq Ids
  BY <1>1 DEF StoreTypes
<1>3. storeBoot # "up" => \A c \in Ids : storeStep[c] = "none" BY <1>1, <1>2 DEF StandsRight
<1>4. /\ NoEntry \in Entries /\ ~NoEntry.title /\ ~NoEntry.there
      /\ \A c \in Ids : EmptyIndex[c] = NoEntry
      /\ EmptyIndex \in [Ids -> Entries] BY DEF NoEntry, Entries, EmptyIndex
\* A save that fails fails the boot.
<1>5. ASSUME storeBoot' = "down", idx' = EmptyIndex, UNCHANGED <<quar, idxFile, convLog, storeStep, damaged, had, untold, aside, nameless>>,
             storeBoot # "up"
      PROVE  StoreInv'
 <2>1. idx' \in [Ids -> Entries] /\ \A c \in Ids : ~idx'[c].title /\ ~idx'[c].there BY <1>4, <1>5
 <2>2. StoreTypes' BY <1>1, <1>5, <2>1 DEF StoreTypes
 <2>3. IndexFile' /\ TitledIsThere' /\ StandsRight'
   BY <1>1, <1>3, <1>5, <2>1 DEF IndexFile, TitledIsThere, StandsRight, Serving, Loaded, Making, Made
 <2>4. TitleKept' /\ AsideGone' /\ TitlesAgree' /\ UntoldUnsaved' /\ Forgotten'
   BY <1>1, <1>2, <1>5, <2>1 DEF TitleKept, AsideGone, TitlesAgree, UntoldUnsaved, Forgotten, OnFile, Serving,
   Transcript
 <2> QED BY <2>2, <2>3, <2>4 DEF StoreInv
<1>6. CASE BackupV2
 <2>1. /\ storeBoot = "backup" /\ storeBoot' = "save"
       /\ UNCHANGED <<idx, quar, idxFile, convLog, storeStep, damaged, had, untold, aside, nameless>>
   BY <1>6 DEF BackupV2
 <2>2. ~damaged BY <1>1, <2>1 DEF IndexFile
 <2>3. StoreTypes' BY <1>1, <2>1 DEF StoreTypes, Loaded
 <2>4. IndexFile' /\ TitledIsThere' /\ StandsRight'
   BY <1>1, <1>3, <2>1 DEF IndexFile, TitledIsThere, StandsRight, Serving, Loaded, Making, Made
 <2>5. TitleKept' /\ AsideGone' /\ TitlesAgree' /\ UntoldUnsaved' /\ Forgotten'
   BY <1>1, <1>2, <2>1, <2>2 DEF TitleKept, AsideGone, TitlesAgree, UntoldUnsaved, Forgotten, OnFile, Serving, Missed,
   Transcript
 <2> QED BY <2>3, <2>4, <2>5 DEF StoreInv
<1>7. ASSUME SaveOk(idx), storeBoot \in {"save", "prune"}, storeBoot' \in {"serve", "prune", "orphans"},
             UNCHANGED <<idx, quar, convLog, storeStep, damaged, had, aside, nameless>>, storeBoot' = "serve" => damaged,
             \A c \in had : ~Transcript(c) => storeBoot' = "prune" \/ ~idx[c].there
      PROVE  StoreInv'
 <2>1. storeBoot # "down" /\ storeBoot \in Loaded \ {"up"} /\ storeBoot' \in Serving /\ storeBoot # "up"
   BY <1>7 DEF Serving, Loaded
 <2>2. SaveOk(idx') BY <1>7
 <2>3. StandsRight' BY <1>1, <1>3, <1>7, <2>1 DEF StandsRight, Making, Made
 <2>4. \A c \in quar : ~idx[c].there BY <1>1, <2>1 DEF IndexFile
 <2>5. \A c \in Ids : idx[c].title => idx[c].there BY <1>1 DEF TitledIsThere
 <2>6. \A c \in had : ~Transcript(c) =>
           ~idx'[c].title /\ storeStep'[c] = "none" /\ (storeBoot' \in {"orphans", "serve", "up"} => ~idx'[c].there)
   BY <1>1, <1>7 DEF Forgotten
 <2>7. \A c \in had : Missed(c) => Missed(c)' BY <1>7 DEF Missed
 <2>8. \A c \in had : (Transcript(c) <=> Transcript(c)') /\ (~Transcript(c) => convLog'[c] = convLog[c])
   BY <1>7 DEF Transcript
 <2>9. \A c \in aside : convLog'[c] = "none" /\ ~idx'[c].there /\ storeStep'[c] = "none" BY <1>1, <1>7 DEF AsideGone
 <2> QED BY <1>2, <1>7, <2>1, <2>2, <2>3, <2>4, <2>5, <2>6, <2>7, <2>8, <2>9, SaveKeeps
<1>8. CASE SaveLoaded
 <2>1. storeBoot = "save" /\ UNCHANGED <<quar, convLog, storeStep, damaged, had, aside, nameless>>
   BY <1>8 DEF SaveLoaded
 <2>2. CASE SaveOk(idx) /\ storeBoot' = (IF damaged THEN "serve" ELSE "prune") /\ UNCHANGED idx
  <3>1. \A c \in had : ~Transcript(c) => storeBoot' = "prune" \/ ~idx[c].there BY <1>1, <2>1, <2>2 DEF Forgotten
  <3> QED BY <1>7, <2>1, <2>2, <3>1
 <2>3. CASE SaveFails /\ storeBoot' = "down" /\ idx' = EmptyIndex BY <1>5, <2>1, <2>3 DEF SaveFails
 <2> QED BY <1>8, <2>2, <2>3 DEF SaveLoaded
<1>9. CASE SavePruned
 <2>1. storeBoot = "prune" /\ Untitled = {} /\ UNCHANGED <<quar, convLog, storeStep, damaged, had, aside, nameless>>
   BY <1>9 DEF SavePruned
 <2>2. \A c \in had : ~Transcript(c) => ~idx[c].there BY <1>1, <1>2, <2>1 DEF Forgotten, Untitled
 <2>3. CASE SaveOk(idx) /\ storeBoot' = "orphans" /\ UNCHANGED idx BY <1>7, <2>1, <2>2, <2>3
 <2>4. CASE SaveFails /\ storeBoot' = "down" /\ idx' = EmptyIndex BY <1>5, <2>1, <2>4 DEF SaveFails
 <2>5. CASE ~SomePruned /\ storeBoot' = "orphans" /\ UNCHANGED <<idx, idxFile, untold>>
  <3>0. \A c \in Ids \ quar : idxFile.ent[c].there => idx[c].there BY <2>5 DEF SomePruned
  <3>1. StoreTypes' BY <1>1, <2>1, <2>5 DEF StoreTypes, Loaded, Serving
  <3>2. IndexFile' /\ TitledIsThere' /\ StandsRight'
    BY <1>1, <1>3, <2>1, <2>5, <3>0 DEF IndexFile, TitledIsThere, StandsRight, Serving, Loaded, Making, Made
  <3>3. TitleKept' /\ AsideGone' /\ TitlesAgree' /\ UntoldUnsaved' /\ Forgotten'
    BY <1>1, <1>2, <2>1, <2>2, <2>5 DEF TitleKept, AsideGone, TitlesAgree, UntoldUnsaved, Forgotten, OnFile, Serving,
    Missed, Transcript
  <3> QED BY <3>1, <3>2, <3>3 DEF StoreInv
 <2> QED BY <1>9, <2>3, <2>4, <2>5 DEF SavePruned
\* Nothing that was prompted and told is pruned.
<1>10. ASSUME NEW c \in Ids, PruneUnprompted(c) PROVE StoreInv'
 <2>1. /\ storeBoot = "prune" /\ idx[c].there /\ ~idx[c].title
       /\ UNCHANGED <<quar, idxFile, storeStep, storeBoot, damaged, had, untold, aside, nameless>>
   BY <1>10 DEF PruneUnprompted, Untitled
 <2>2. /\ \A x \in Ids : idx'[x] = IF x = c THEN NoEntry ELSE idx[x]
       /\ \A x \in Ids : convLog'[x] = IF x = c THEN "none" ELSE convLog[x]
       /\ idx' \in [Ids -> Entries] /\ convLog' \in [Ids -> Logs] BY <1>2, <1>4, <1>10 DEF PruneUnprompted, Logs
 <2>3. storeBoot \in Loaded \ {"up"} /\ storeBoot \in Serving BY <2>1 DEF Loaded, Serving
 <2>4. c \notin quar /\ (c \in had => c \in untold) BY <1>1, <2>1, <2>3 DEF IndexFile, TitleKept, AsideGone, Missed
 <2>5. StoreTypes' BY <1>1, <2>1, <2>2 DEF StoreTypes
 <2>6. IndexFile' /\ TitledIsThere' /\ StandsRight'
   BY <1>1, <1>3, <1>4, <2>1, <2>2 DEF IndexFile, TitledIsThere, StandsRight, StoreTypes, Making, Made
 <2>7. TitleKept' /\ UntoldUnsaved' /\ AsideGone'
   BY <1>1, <1>2, <1>4, <2>1, <2>2, <2>4 DEF TitleKept, UntoldUnsaved, AsideGone, OnFile, Missed
 <2>8. TitlesAgree' BY <1>1, <1>4, <2>1, <2>2 DEF TitlesAgree, OnFile
 <2>9. Forgotten' BY <1>1, <1>2, <1>3, <1>4, <2>1, <2>2, <2>4 DEF Forgotten, Transcript
 <2> QED BY <2>5, <2>6, <2>7, <2>8, <2>9 DEF StoreInv
<1>11. ASSUME NEW c \in Ids, PruneOrphan(c) PROVE StoreInv'
 <2>1. /\ storeBoot = "orphans" /\ ~idx[c].there /\ c \notin quar
       /\ UNCHANGED <<idx, quar, idxFile, storeStep, storeBoot, damaged, had, untold, nameless>>
       /\ aside' = IF HasEvents(c) THEN aside \cup {c} ELSE aside BY <1>11 DEF PruneOrphan, Orphans, Known
 <2>2. /\ \A x \in Ids : convLog'[x] = IF x = c THEN "none" ELSE convLog[x]
       /\ convLog' \in [Ids -> Logs] BY <1>2, <1>11 DEF PruneOrphan, Logs
 <2>3. ~idx[c].title /\ ~idxFile.ent[c].there BY <1>1, <2>1 DEF TitledIsThere, IndexFile
 <2>3a. c \in had => c \in untold \/ c \in aside' \cap nameless BY <1>1, <2>1, <2>3 DEF TitleKept, Missed, HasEvents
 <2>4. StoreTypes' BY <1>1, <2>1, <2>2 DEF StoreTypes
 <2>5. IndexFile' /\ TitledIsThere' /\ StandsRight' /\ UntoldUnsaved' /\ TitlesAgree'
   BY <1>1, <2>1 DEF IndexFile, TitledIsThere, StandsRight, UntoldUnsaved, TitlesAgree, OnFile
 <2>6. Forgotten' BY <1>1, <1>2, <1>3, <2>1, <2>2, <2>3, <2>3a DEF Forgotten, Transcript
 <2>7. AsideGone' BY <1>1, <1>2, <1>3, <2>1, <2>2, <2>3 DEF AsideGone
 <2>8. TitleKept' BY <1>1, <1>2, <2>1, <2>2, <2>3a DEF TitleKept, OnFile, Missed
 <2> QED BY <2>4, <2>5, <2>6, <2>7, <2>8 DEF StoreInv
<1>12. CASE Serve
 <2>1. /\ storeBoot \in {"serve", "orphans"} /\ storeBoot' = "up"
       /\ UNCHANGED <<idx, quar, idxFile, convLog, damaged, had, untold, aside, nameless>>
       /\ storeStep' = [c \in Ids |-> IF idx[c].there THEN "ready" ELSE "none"] BY <1>12 DEF Serve
 <2>2. storeStep' \in [Ids -> {"none"} \cup Making \cup Made] /\ \A c \in Ids : storeStep'[c] = IF idx[c].there THEN "ready" ELSE "none"
   BY <2>1 DEF Made
 <2>3. StoreTypes' BY <1>1, <2>1, <2>2 DEF StoreTypes, Loaded, Serving
 <2>4. IndexFile' /\ TitledIsThere' BY <1>1, <2>1 DEF IndexFile, TitledIsThere, Serving, Loaded
 <2>5. StandsRight' BY <2>1, <2>2 DEF StandsRight, Making, Made
 <2>6. UntoldUnsaved' /\ TitlesAgree' BY <1>1, <2>1 DEF UntoldUnsaved, TitlesAgree, OnFile, Serving
 <2>7. ASSUME NEW c \in had, Missed(c) PROVE c \in quar
  <3>1. storeBoot = "orphans" /\ Orphans = {} BY <1>12, <2>1, <2>7 DEF Serve, Missed
  <3> QED BY <1>2, <2>7, <3>1 DEF Orphans, Known, Missed
 <2>8. TitleKept' BY <1>1, <2>1, <2>7 DEF TitleKept, OnFile
 <2>9. AsideGone' BY <1>1, <1>2, <2>1, <2>2 DEF AsideGone
 <2>10. Forgotten' BY <1>1, <1>2, <2>1, <2>2 DEF Forgotten, Transcript
 <2> QED BY <2>3, <2>4, <2>5, <2>6, <2>8, <2>9, <2>10 DEF StoreInv
<1> QED BY <1>6, <1>8, <1>9, <1>10, <1>11, <1>12

\* A conversation that was prompted keeps its transcript, and every gateway that serves
\* lists it (session-index.js: load, the rebuild from the logs, the migration, both
\* prunings; session-broker.js: the title saved before the echo).
THEOREM TranscriptsAreKept == StoreSpec => []PromptedIsKept
<1>1. StoreInit => StoreInv BY StoreStarts
<1>2. StoreInv /\ [StoreNext]_storeVars => StoreInv'
  BY StoreCrashes, StoreLoads, StoreBoots, StoreServes DEF StoreNext
<1>3. StoreInv => PromptedIsKept
 <2> SUFFICES ASSUME StoreInv, NEW c \in had \ untold, c \notin aside \cap nameless
              PROVE  Transcript(c) /\ (storeBoot = "up" => Listed(c) \/ c \in quar) BY DEF PromptedIsKept
 <2>1. StoreTypes /\ TitledIsThere /\ TitleKept /\ Forgotten BY DEF StoreInv
 <2> QED BY <2>1 DEF TitledIsThere, TitleKept, Forgotten, Listed, StoreTypes, Missed
<1> QED BY <1>1, <1>2, <1>3, PTL DEF StoreSpec

--------------------
\* SessionLog: no two acknowledged events share a seq, the files stay in
\* their order, and a replay misses nothing silently, from the ring or
\* from the files; for any number of events, rotations, failed writes and
\* crashes, where no failed write leaves part of its line (a write that
\* does breaks it: a later line is lost behind the torn one).

Whole == "partial" \notin WriteFaults

Types ==
    /\ up \in BOOLEAN /\ step \in {"start", "rotated", "write", "meta"}
    /\ lastSeq \in Nat /\ size \in Nat /\ issued \in Nat
    /\ queue \in Seq(Task) /\ file \in Seq(Line) /\ oldFile \in Seq(Line)
    /\ meta.lastSeq \in Nat
    /\ acked \subseteq Event

\* The last seq whose task has left the queue.
Settled == lastSeq - Len(queue)

\* Queued seqs are the next ones, and an idle queue is between two tasks.
QueueNext ==
    /\ \A i \in 1..Len(queue) : queue[i].seq = Settled + i
    /\ Settled >= 0
    /\ queue = <<>> => step = "start"
    /\ ~up => queue = <<>> /\ step = "start"

\* Only a crash leaves a torn line, at the end of the current file.
Clean ==
    /\ \A i \in 1..Len(oldFile) : oldFile[i].form = "whole"
    /\ \A i \in 1..Len(file) : file[i].form = "whole" \/ (~up /\ i = Len(file) /\ file[i].form = "torn")
    /\ up /\ size > 0 => file # <<>>

Increasing ==
    /\ \A i \in 1..Len(oldFile) : oldFile[i].seq > 0
    /\ \A i \in 1..Len(file) : file[i].seq > 0
    /\ \A i, j \in 1..Len(oldFile) : i < j => oldFile[i].seq < oldFile[j].seq
    /\ \A i, j \in 1..Len(file) : i < j => file[i].seq < file[j].seq
    /\ \A i \in 1..Len(oldFile), j \in 1..Len(file) : oldFile[i].seq < file[j].seq

\* Nothing on disk, in meta.json or acknowledged is ahead of memory.
Behind ==
    up => /\ \A i \in 1..Len(oldFile) : oldFile[i].seq <= Settled
          /\ \A i \in 1..Len(file) : file[i].seq <= IF step = "meta" THEN Settled + 1 ELSE Settled
          /\ meta.lastSeq <= lastSeq
          /\ \A e \in acked : e.seq <= Settled

\* What was acknowledged, the next open() finds in meta.json or the files.
Recoverable == \A e \in acked : e.seq <= meta.lastSeq \/ e.seq <= OnDisk

IInv == Types /\ QueueNext /\ Clean /\ Increasing /\ Behind /\ Recoverable /\ NoSeqReuse

LEMMA LinesOf ==
  ASSUME NEW f \in Seq(Line)
  PROVE  Len(f) \in Nat /\ \A i \in 1..Len(f) : f[i] \in Line /\ f[i].seq \in Nat
<1>1. Len(f) \in Nat BY LenProperties
<1>2. \A i \in 1..Len(f) : f[i] \in Line BY ElementOfSeq
<1>3. \A l \in Line : l.seq \in Nat BY DEF Line
<1> QED BY <1>1, <1>2, <1>3

\* The lines that count, and the last seq among them.
LEMMA CompleteFile ==
  ASSUME NEW f \in Seq(Line)
  PROVE  /\ Len(f) = 0 => Complete(f) = f /\ LastSeqOf(f) = 0
         /\ Len(f) > 0 /\ f[Len(f)].form # "torn" => Complete(f) = f /\ LastSeqOf(f) = f[Len(f)].seq
         /\ Len(f) > 0 /\ f[Len(f)].form = "torn" =>
               /\ Complete(f) \in Seq(Line) /\ Len(Complete(f)) = Len(f) - 1
               /\ \A i \in 1..(Len(f) - 1) : Complete(f)[i] = f[i]
               /\ LastSeqOf(f) = IF Len(f) = 1 THEN 0 ELSE f[Len(f) - 1].seq
<1>1. Len(f) \in Nat /\ (Len(f) = 0 <=> f = <<>>) BY EmptySeq
<1>2. CASE Len(f) = 0 BY <1>1, <1>2 DEF Complete, LastSeqOf
<1>3. CASE Len(f) > 0 /\ f[Len(f)].form # "torn" BY <1>1, <1>3 DEF Complete, LastSeqOf
<1>4. CASE Len(f) > 0 /\ f[Len(f)].form = "torn"
 <2> DEFINE g == SubSeq(f, 1, Len(f) - 1)
 <2>1. Complete(f) = g BY <1>4 DEF Complete
 <2>2. g \in Seq(Line) /\ Len(g) = Len(f) - 1 /\ \A i \in 1..(Len(f) - 1) : g[i] = f[i]
  <3>1. \A i \in 1..(Len(f) - 1) : f[i] \in Line BY <1>1, ElementOfSeq
  <3>2. Len(f) - 1 \in Int /\ 1 <= Len(f) - 1 + 1 BY <1>1, <1>4
  <3>3. /\ g \in Seq(Line) /\ Len(g) = IF 1 <= Len(f) - 1 THEN Len(f) - 1 - 1 + 1 ELSE 0
        /\ \A i \in 1..(Len(f) - 1 - 1 + 1) : g[i] = f[1 + i - 1] BY <3>1, <3>2, SubSeqProperties
  <3> HIDE DEF g
  <3>4. Len(f) - 1 - 1 + 1 = Len(f) - 1 /\ \A i \in 1..(Len(f) - 1) : 1 + i - 1 = i BY <1>1
  <3>5. Len(g) = Len(f) - 1
   <4> DEFINE n == Len(f)
   <4>1. n \in Nat /\ n > 0 /\ Len(g) = IF 1 <= n - 1 THEN n - 1 - 1 + 1 ELSE 0 BY <1>1, <1>4, <3>3
   <4> HIDE DEF n
   <4>2. Len(g) = n - 1 BY <4>1
   <4> QED BY <4>2 DEF n
  <3>6. \A i \in 1..(Len(f) - 1) : g[i] = f[i] BY <3>3, <3>4
  <3> QED BY <3>3, <3>5, <3>6
 <2> HIDE DEF g
 <2>3. g = <<>> <=> Len(f) = 1 BY <1>1, <1>4, <2>2, EmptySeq
 <2>4. LastSeqOf(f) = IF Len(f) = 1 THEN 0 ELSE f[Len(f) - 1].seq BY <1>1, <1>4, <2>1, <2>2, <2>3 DEF LastSeqOf
 <2> QED BY <1>4, <2>1, <2>2, <2>4
<1> QED BY <1>1, <1>2, <1>3, <1>4

\* The seqs that are on disk: an open would find the last complete one.
LEMMA OnDiskType == Types => OnDisk \in Nat
<1> SUFFICES ASSUME Types PROVE OnDisk \in Nat OBVIOUS
<1>1. ASSUME NEW f \in Seq(Line) PROVE LastSeqOf(f) \in Nat
 <2>1. Len(f) \in Nat /\ \A i \in 1..Len(f) : f[i].seq \in Nat BY LinesOf
 <2> DEFINE n == Len(f)
 <2>2. /\ n = 0 => LastSeqOf(f) = 0
       /\ n > 0 /\ f[n].form # "torn" => LastSeqOf(f) = f[n].seq
       /\ n > 0 /\ f[n].form = "torn" => LastSeqOf(f) = IF n = 1 THEN 0 ELSE f[n - 1].seq BY CompleteFile
 <2>3. n \in Nat /\ \A i \in 1..n : f[i].seq \in Nat BY <2>1
 <2> HIDE DEF n
 <2> QED BY <2>2, <2>3
<1> QED BY <1>1 DEF OnDisk, Types

\* The head of the queue carries the next seq.
LEMMA HeadOfQueue ==
  ASSUME IInv, queue # <<>>
  PROVE  /\ Head(queue) \in Task /\ Head(queue).seq = Settled + 1
         /\ Settled \in Nat /\ up /\ Len(queue) \in Nat /\ Len(queue) > 0
<1>1. queue \in Seq(Task) /\ lastSeq \in Nat /\ up /\ QueueNext BY DEF IInv, Types, QueueNext
<1>2. Len(queue) \in Nat /\ Len(queue) > 0 BY <1>1, EmptySeq
<1>3. Head(queue) = queue[1] /\ queue[1] \in Task BY <1>1, <1>2, ElementOfSeq
<1>4. queue[1].seq = Settled + 1 /\ Settled \in Nat BY <1>1, <1>2 DEF QueueNext, Settled
<1> QED BY <1>1, <1>2, <1>3, <1>4

\* One task is done with.
LEMMA NextTaskStep ==
  ASSUME IInv, queue # <<>>, NextTask, UNCHANGED <<up, lastSeq>>
  PROVE  queue' \in Seq(Task) /\ QueueNext' /\ Settled' = Settled + 1
<1>1. queue \in Seq(Task) /\ up /\ Len(queue) \in Nat /\ Len(queue) > 0 /\ lastSeq \in Nat /\ Settled \in Nat
  BY HeadOfQueue DEF IInv, Types
<1>2. /\ Tail(queue) \in Seq(Task) /\ Len(Tail(queue)) = Len(queue) - 1
      /\ \A i \in 1..Len(Tail(queue)) : Tail(queue)[i] = queue[i + 1] BY <1>1, HeadTailProperties
<1>3. Settled' = Settled + 1 BY <1>1, <1>2 DEF NextTask, Settled
<1>4. \A i \in 1..Len(Tail(queue)) : Tail(queue)[i].seq = Settled + 1 + i
 <2>1. \A i \in 1..Len(queue) : queue[i].seq = Settled + i BY DEF IInv, QueueNext
 <2>2. ASSUME NEW i \in 1..Len(Tail(queue)) PROVE Tail(queue)[i].seq = Settled + 1 + i
  <3>1. i + 1 \in 1..Len(queue) /\ i \in Nat BY <1>1, <1>2
  <3>2. queue[i + 1].seq = Settled + (i + 1) BY <2>1, <3>1
  <3> QED BY <1>1, <1>2, <3>1, <3>2
 <2> QED BY <2>2
<1>5. queue' = Tail(queue) /\ step' = "start" /\ up' BY <1>1 DEF NextTask
<1>6. Settled' >= 0 /\ \A i \in 1..Len(queue') : queue'[i].seq = Settled' + i BY <1>1, <1>3, <1>4, <1>5
<1> QED BY <1>2, <1>3, <1>5, <1>6 DEF QueueNext

LEMMA OneMoreLine ==
  ASSUME NEW f \in Seq(Line), NEW l \in Line, NEW g, g = Append(f, l)
  PROVE  /\ g \in Seq(Line) /\ Len(g) = Len(f) + 1 /\ g[Len(f) + 1] = l
         /\ \A i \in 1..Len(f) : g[i] = f[i]
<1>1. Append(f, l) \in Seq(Line) /\ Len(Append(f, l)) = Len(f) + 1 BY AppendProperties
<1>2. Append(f, l)[Len(f) + 1] = l BY AppendProperties
<1>3. \A i \in 1..Len(f) : Append(f, l)[i] = f[i] BY AppendProperties
<1> QED BY <1>1, <1>2, <1>3

\* A line written behind whole ones is one more line, ahead of all others.
LEMMA WriteStep ==
  ASSUME IInv, AtWrite, NEW form \in {"whole", "torn"},
         file' = Written(file, Head(queue), form), UNCHANGED oldFile
  PROVE  /\ file' \in Seq(Line) /\ Len(file) \in Nat /\ Len(file') = Len(file) + 1
         /\ \A i \in 1..Len(file) : file'[i] = file[i] /\ file[i].form = "whole"
         /\ file'[Len(file')].seq = Settled + 1 /\ file'[Len(file')].form = form
         /\ Increasing'
         /\ OnDisk' = IF form = "whole" THEN Settled + 1 ELSE OnDisk
<1> DEFINE t == Head(queue)
           l == [seq |-> t.seq, id |-> t.id, form |-> form]
<1>1. queue # <<>> /\ up /\ step # "meta" BY DEF AtWrite
<1>2. t \in Task /\ t.seq = Settled + 1 /\ Settled \in Nat BY <1>1, HeadOfQueue
<1>3. l \in Line /\ l.seq = Settled + 1 /\ l.form = form BY <1>2 DEF Task, Line
<1>4. file \in Seq(Line) /\ oldFile \in Seq(Line) /\ Clean /\ Increasing /\ Behind BY DEF IInv, Types
<1>5. Len(file) \in Nat /\ Len(oldFile) \in Nat BY <1>4, LenProperties
<1>6. \A i \in 1..Len(file) : file[i].form = "whole" BY <1>1, <1>4 DEF Clean
<1>7. file' = Append(file, l) BY <1>5, <1>6 DEF Written
<1> HIDE DEF l, t
<1>8. /\ file' \in Seq(Line) /\ Len(file') = Len(file) + 1
      /\ \A i \in 1..Len(file) : file'[i] = file[i]
      /\ file'[Len(file) + 1] = l BY <1>3, <1>4, <1>7, OneMoreLine
<1>9. /\ \A i \in 1..Len(oldFile) : oldFile[i].seq \in Nat /\ oldFile[i].seq < l.seq
      /\ \A i \in 1..Len(file) : file[i].seq \in Nat /\ file[i].seq < l.seq
 <2>1. /\ \A i \in 1..Len(oldFile) : oldFile[i].seq \in Nat
       /\ \A i \in 1..Len(file) : file[i].seq \in Nat BY <1>4, LinesOf
 <2> QED BY <1>1, <1>2, <1>3, <1>4, <2>1 DEF Behind
<1>10. Increasing'
 <2>1. \A i \in 1..Len(file') : i = Len(file) + 1 \/ i \in 1..Len(file) BY <1>5, <1>8
 <2>2. Len(file) + 1 \notin 1..Len(file) /\ l.seq > 0 BY <1>2, <1>3, <1>5
 <2>3. \A i \in 1..Len(file') : file'[i].seq > 0 BY <1>4, <1>8, <2>1, <2>2 DEF Increasing
 <2>4. ASSUME NEW i \in 1..Len(file'), NEW j \in 1..Len(file'), i < j PROVE file'[i].seq < file'[j].seq
  <3>1. i \in 1..Len(file) BY <1>5, <1>8, <2>4
  <3>2. CASE j \in 1..Len(file) BY <1>4, <1>8, <2>4, <3>1, <3>2 DEF Increasing
  <3>3. CASE j = Len(file) + 1 BY <1>8, <1>9, <3>1, <3>3
  <3> QED BY <2>1, <3>2, <3>3
 <2>5. \A i \in 1..Len(oldFile), j \in 1..Len(file') : oldFile[i].seq < file'[j].seq
   BY <1>4, <1>8, <1>9, <2>1 DEF Increasing
 <2> QED BY <1>4, <2>3, <2>4, <2>5 DEF Increasing
<1>11. OnDisk' = IF form = "whole" THEN Settled + 1 ELSE OnDisk
 <2>1. Len(file') > 0 /\ file'[Len(file')] = l /\ Settled + 1 # 0 BY <1>2, <1>5, <1>8
 <2>2. CASE form = "whole"
  <3>1. LastSeqOf(file') = Settled + 1 BY <1>3, <1>8, <2>1, <2>2, CompleteFile
  <3> QED BY <2>1, <2>2, <3>1 DEF OnDisk
 <2>3. CASE form = "torn"
  <3>1. LastSeqOf(file') = IF Len(file') = 1 THEN 0 ELSE file'[Len(file') - 1].seq
    BY <1>3, <1>8, <2>1, <2>3, CompleteFile
  <3>2. LastSeqOf(file) = IF Len(file) = 0 THEN 0 ELSE file[Len(file)].seq
   <4>1. Len(file) > 0 => file[Len(file)].form # "torn" BY <1>5, <1>6
   <4> QED BY <1>4, <1>5, <4>1, CompleteFile
  <3>3. LastSeqOf(file') = LastSeqOf(file)
   <4>1. Len(file') - 1 = Len(file) /\ (Len(file') = 1 <=> Len(file) = 0)
    <5> DEFINE n == Len(file)
               m == Len(file')
    <5>1. n \in Nat /\ m \in Nat /\ m = n + 1 BY <1>5, <1>8, LinesOf
    <5> HIDE DEF n, m
    <5>2. m - 1 = n /\ (m = 1 <=> n = 0) BY <5>1
    <5> QED BY <5>2 DEF n, m
   <4>2. Len(file) > 0 => file'[Len(file)] = file[Len(file)] BY <1>5, <1>8
   <4> QED BY <1>5, <3>1, <3>2, <4>1, <4>2
  <3> QED BY <2>3, <3>3 DEF OnDisk
 <2> QED BY <2>2, <2>3
<1> QED BY <1>3, <1>5, <1>6, <1>8, <1>10, <1>11

\* What an open keeps of the current file, and that the seqs go on behind it.
LEMMA OpenedFile ==
  ASSUME IInv
  PROVE  LET g == Complete(file) IN
         /\ g \in Seq(Line) /\ Len(g) \in Nat /\ Len(g) <= Len(file)
         /\ \A i \in 1..Len(g) : g[i] = file[i] /\ g[i].form = "whole" /\ g[i].seq <= OnDisk
         /\ \A i \in 1..Len(oldFile) : oldFile[i].seq <= OnDisk
         /\ LastSeqOf(g) = LastSeqOf(file)
<1> DEFINE g == Complete(file)
           n == Len(file)
           m == Len(g)
<1>1. file \in Seq(Line) /\ oldFile \in Seq(Line) /\ Clean /\ Increasing BY DEF IInv, Types
<1>2. n \in Nat /\ \A i \in 1..n : file[i].seq \in Nat BY <1>1, LinesOf
<1>3. \A i \in 1..n : i # n => file[i].form = "whole" BY <1>1 DEF Clean
<1>4. n > 0 => file[n].form \in {"whole", "torn"} BY <1>1, <1>2 DEF Clean
<1>5. /\ g \in Seq(Line) /\ m \in Nat
      /\ m = IF n > 0 /\ file[n].form = "torn" THEN n - 1 ELSE n
      /\ \A i \in 1..m : g[i] = file[i]
      /\ LastSeqOf(file) = IF m = 0 THEN 0 ELSE file[m].seq
 <2>1. CASE n = 0 BY <1>1, <1>2, <2>1, CompleteFile
 <2>2. CASE n > 0 /\ file[n].form # "torn" BY <1>1, <1>2, <2>2, CompleteFile
 <2>3. CASE n > 0 /\ file[n].form = "torn"
  <3>1. /\ g \in Seq(Line) /\ m = n - 1 /\ \A i \in 1..(n - 1) : g[i] = file[i]
        /\ LastSeqOf(file) = IF n = 1 THEN 0 ELSE file[n - 1].seq BY <1>1, <2>3, CompleteFile
  <3> HIDE DEF n, m, g
  <3>2. m \in Nat /\ (m = 0 <=> n = 1) BY <1>2, <2>3, <3>1
  <3> QED BY <2>3, <3>1, <3>2
 <2> QED BY <1>2, <2>1, <2>2, <2>3
<1>6. \A i \in 1..m : g[i].form = "whole"
 <2> HIDE DEF n, m, g
 <2>1. \A i \in 1..m : i \in 1..n /\ (i = n => file[n].form # "torn") BY <1>2, <1>5
 <2> QED BY <1>3, <1>4, <1>5, <2>1
<1>7. LastSeqOf(g) = LastSeqOf(file)
 <2>1. /\ m = 0 => LastSeqOf(g) = 0
       /\ m > 0 /\ g[m].form # "torn" => LastSeqOf(g) = g[m].seq BY <1>5, CompleteFile
 <2> HIDE DEF n, m, g
 <2>2. m > 0 => m \in 1..m BY <1>5
 <2>3. m = 0 \/ m > 0
  <3>1. m \in Nat BY <1>5
  <3> QED BY <3>1
 <2>4. CASE m > 0
  <3>1. g[m].form = "whole" /\ g[m] = file[m] BY <1>5, <1>6, <2>2, <2>4
  <3>2. LastSeqOf(g) = g[m].seq BY <2>1, <2>4, <3>1
  <3>3. m # 0 BY <1>5, <2>4
  <3> QED BY <1>5, <3>1, <3>2, <3>3
 <2> QED BY <1>5, <2>1, <2>3, <2>4
<1>8. m <= n /\ (m > 0 => m \in 1..n)
 <2> HIDE DEF n, m, g
 <2> QED BY <1>2, <1>5
\* A file with a complete line is newer than the rotated one.
<1>9. CASE m > 0
 <2>1. OnDisk = file[m].seq BY <1>1, <1>5, <1>8, <1>9 DEF OnDisk, Increasing
 <2>2. ASSUME NEW i \in 1..m PROVE g[i].seq <= OnDisk
  <3>1. i \in 1..n /\ (i = m \/ i < m)
   <4> HIDE DEF n, m, g
   <4> QED BY <1>2, <1>5, <1>8
  <3>2. CASE i = m BY <1>2, <1>5, <2>1, <3>1, <3>2
  <3>3. CASE i < m
   <4>1. g[i] = file[i] /\ g[m] = file[m] BY <1>5, <1>8, <1>9, <3>1
   <4>2. m \in 1..n BY <1>8, <1>9 DEF n
   <4>3. \A j, k \in 1..n : j < k => file[j].seq < file[k].seq BY <1>1 DEF Increasing
   <4> HIDE DEF n, m, g
   <4>4. file[i].seq < file[m].seq BY <3>1, <3>3, <4>2, <4>3
   <4>5. file[i].seq \in Nat /\ file[m].seq \in Nat BY <1>2, <3>1, <4>2
   <4> QED BY <2>1, <4>1, <4>4, <4>5
  <3> QED BY <3>1, <3>2, <3>3
 <2>3. \A i \in 1..Len(oldFile) : oldFile[i].seq \in Nat /\ oldFile[i].seq < file[m].seq
   BY <1>1, <1>8, <1>9, LinesOf DEF Increasing
 <2>4. \A i \in 1..Len(oldFile) : oldFile[i].seq <= OnDisk BY <1>2, <1>8, <1>9, <2>1, <2>3
 <2> QED BY <1>5, <1>6, <1>7, <1>8, <2>2, <2>4
<1>10. CASE m = 0
 <2> DEFINE k == Len(oldFile)
 <2>1. OnDisk = LastSeqOf(oldFile) BY <1>5, <1>10 DEF OnDisk
 <2>2. k \in Nat /\ \A i \in 1..k : oldFile[i].seq \in Nat BY <1>1, LinesOf
 <2>3. k > 0 => LastSeqOf(oldFile) = oldFile[k].seq
  <3>1. k > 0 => oldFile[k].form # "torn" BY <1>1, <2>2 DEF Clean
  <3> QED BY <1>1, <3>1, CompleteFile
 <2>4. ASSUME NEW i \in 1..k PROVE oldFile[i].seq <= OnDisk
  <3>1. k > 0 /\ k \in 1..k /\ (i = k \/ i < k)
   <4> HIDE DEF k
   <4> QED BY <2>2
  <3>2. i < k => oldFile[i].seq < oldFile[k].seq BY <1>1, <3>1 DEF Increasing
  <3> HIDE DEF k
  <3> QED BY <2>1, <2>2, <2>3, <3>1, <3>2
 <2>5. \A i \in 1..m : g[i].seq <= OnDisk BY <1>10
 <2> QED BY <1>5, <1>6, <1>7, <1>8, <2>4, <2>5
<1>11. m = 0 \/ m > 0
 <2> HIDE DEF m
 <2>1. m \in Nat BY <1>5
 <2> QED BY <2>1
<1> QED BY <1>9, <1>10, <1>11

\* An acknowledged event is newer than all acknowledged before it.
LEMMA AckStep ==
  ASSUME IInv, queue # <<>>, Ack(Head(queue))
  PROVE  /\ acked' \subseteq Event /\ NoSeqReuse'
         /\ \A e \in acked' : e \in acked \/ e.seq = Settled + 1
         /\ \A e \in acked' : e.seq <= Settled + 1
<1> DEFINE a == [seq |-> Head(queue).seq, id |-> Head(queue).id]
<1>1. Head(queue) \in Task /\ Head(queue).seq = Settled + 1 /\ Settled \in Nat /\ up BY HeadOfQueue
<1>2. a \in Event /\ a.seq = Settled + 1 /\ acked' = acked \cup {a} BY <1>1 DEF Task, Event, Ack
<1> HIDE DEF a
<1>3. /\ acked \subseteq Event /\ NoSeqReuse
      /\ \A e \in acked : e.seq \in Nat /\ e.seq <= Settled BY <1>1 DEF IInv, Types, Event, Behind
<1>4. \A e \in acked : e.seq <= Settled + 1 /\ e.seq # Settled + 1 BY <1>1, <1>3
<1>5. NoSeqReuse' BY <1>2, <1>3, <1>4 DEF NoSeqReuse
<1> QED BY <1>1, <1>2, <1>3, <1>4, <1>5

LEMMA InvStep == Whole /\ IInv /\ [LogNext]_logVars => IInv'
<1> SUFFICES ASSUME Whole, IInv, [LogNext]_logVars PROVE IInv' OBVIOUS
<1>0. Types /\ QueueNext /\ Clean /\ Increasing /\ Behind /\ Recoverable /\ NoSeqReuse BY DEF IInv
<1>a. /\ Settled \in Nat /\ Settled <= lastSeq /\ Len(queue) \in Nat /\ lastSeq \in Nat
      /\ Len(file) \in Nat /\ Len(oldFile) \in Nat /\ OnDisk \in Nat
      /\ \A e \in acked : e.seq \in Nat BY <1>0, LenProperties, OnDiskType DEF Types, QueueNext, Settled, Event
<1>b. /\ \A i \in 1..Len(file) : file[i].seq \in Nat
      /\ \A i \in 1..Len(oldFile) : oldFile[i].seq \in Nat BY <1>0, LinesOf DEF Types
\* A task that ends with no file written: what was behind stays behind.
<1>c. ASSUME queue # <<>>, NextTask, UNCHANGED <<up, lastSeq, file, oldFile, size>>,
             meta'.lastSeq \in Nat, meta.lastSeq <= meta'.lastSeq, meta'.lastSeq <= lastSeq,
             issued' = issued,
             acked' = acked \/ (Ack(Head(queue)) /\ meta'.lastSeq = lastSeq)
      PROVE  IInv'
 <2>1. queue' \in Seq(Task) /\ QueueNext' /\ Settled' = Settled + 1 /\ step' = "start"
   BY <1>c, NextTaskStep DEF NextTask
 <2>2. up BY <1>c, HeadOfQueue
 <2>3. /\ acked' \subseteq Event /\ NoSeqReuse' /\ \A e \in acked' : e.seq <= Settled + 1
  <3>1. CASE acked' = acked BY <1>0, <1>a, <2>2, <3>1 DEF Types, NoSeqReuse, Behind
  <3>2. CASE Ack(Head(queue)) BY <1>c, <3>2, AckStep
  <3> QED BY <1>c, <3>1, <3>2
 <2>4. Types' BY <1>0, <1>c, <2>1, <2>3 DEF Types
 <2>5. Clean' /\ Increasing' BY <1>0, <1>c DEF Clean, Increasing
 <2>6. Behind'
  <3>1. /\ \A i \in 1..Len(oldFile) : oldFile[i].seq <= Settled + 1
        /\ \A i \in 1..Len(file) : file[i].seq <= Settled + 1 BY <1>0, <1>a, <1>b, <2>2 DEF Behind
  <3> QED BY <1>c, <2>1, <2>3, <3>1 DEF Behind
 <2>7. Recoverable'
  <3>1. OnDisk' = OnDisk BY <1>c DEF OnDisk, LastSeqOf, Complete
  <3>2. CASE acked' = acked BY <1>0, <1>a, <1>c, <3>1, <3>2 DEF Recoverable, Types
  <3>3. CASE Ack(Head(queue)) /\ meta'.lastSeq = lastSeq
   <4>1. Settled + 1 <= lastSeq BY <1>a, <2>1, <1>0, HeadOfQueue, <1>c DEF Settled
   <4>2. \A e \in acked' : e.seq \in Nat BY <2>3 DEF Event
   <4> QED BY <1>a, <2>3, <3>3, <4>1, <4>2 DEF Recoverable
  <3> QED BY <1>c, <3>2, <3>3
 <2> QED BY <2>1, <2>3, <2>4, <2>5, <2>6, <2>7 DEF IInv
<1>1. ASSUME NEW sync \in BOOLEAN, AppendEvent(sync) PROVE IInv'
 <2> DEFINE t == [seq |-> lastSeq + 1, id |-> issued + 1, sync |-> sync]
 <2>1. /\ up /\ queue' = Append(queue, t) /\ lastSeq' = lastSeq + 1 /\ issued' = issued + 1
       /\ UNCHANGED <<up, size, step, file, oldFile, meta, acked>> BY <1>1 DEF AppendEvent, diskVars
 <2>2. t \in Task /\ t.seq = lastSeq + 1 BY <1>0, <1>1 DEF Types, Task
 <2> HIDE DEF t
 <2>3. /\ queue' \in Seq(Task) /\ queue' # <<>> /\ Len(queue') = Len(queue) + 1
       /\ \A i \in 1..Len(queue) : queue'[i] = queue[i]
       /\ queue'[Len(queue) + 1] = t BY <1>0, <2>1, <2>2, AppendProperties DEF Types
 <2>4. Settled' = Settled BY <1>a, <2>1, <2>3 DEF Settled
 <2>5. Types'
  <3>1. lastSeq' \in Nat /\ issued' \in Nat BY <1>0, <2>1 DEF Types
  <3> QED BY <1>0, <2>1, <2>3, <3>1 DEF Types
 <2>6. QueueNext'
  <3>1. lastSeq + 1 = Settled + (Len(queue) + 1) BY <1>a DEF Settled
  <3>2. \A i \in 1..(Len(queue) + 1) : i \in 1..Len(queue) \/ i = Len(queue) + 1 BY <1>a
  <3>3. \A i \in 1..Len(queue') : queue'[i].seq = Settled + i BY <1>0, <2>2, <2>3, <3>1, <3>2 DEF QueueNext
  <3> QED BY <1>0, <2>1, <2>3, <2>4, <3>3 DEF QueueNext
 <2>7. Clean' /\ Increasing' /\ NoSeqReuse' BY <1>0, <2>1 DEF Clean, Increasing, NoSeqReuse
 <2>8. Behind'
  <3>1. meta.lastSeq <= lastSeq + 1 BY <1>0, <1>a, <2>1 DEF Behind, Types
  <3> QED BY <1>0, <2>1, <2>4, <3>1 DEF Behind
 <2>9. Recoverable' BY <1>0, <2>1 DEF Recoverable, OnDisk, LastSeqOf, Complete
 <2> QED BY <2>5, <2>6, <2>7, <2>8, <2>9 DEF IInv
\* Rotation moves the last seq from one file to the other.
<1>2. CASE Rotate
 <2>1. /\ up /\ queue # <<>> /\ step = "start" /\ size > 0 /\ size' = 0 /\ step' = "rotated"
       /\ (oldFile' = file /\ file' = <<>>) \/ UNCHANGED <<file, oldFile>>
       /\ UNCHANGED <<up, lastSeq, queue, meta, issued, acked>> BY <1>2 DEF Rotate, MustRotate
 <2>2. Settled' = Settled BY <2>1 DEF Settled
 <2>3. QueueNext' /\ NoSeqReuse' BY <1>0, <2>1, <2>2 DEF QueueNext, NoSeqReuse
 <2>4. CASE UNCHANGED <<file, oldFile>>
  <3>1. Types' /\ Clean' /\ Increasing' BY <1>0, <2>1, <2>4 DEF Types, Clean, Increasing
  <3>2. Behind' BY <1>0, <2>1, <2>2, <2>4 DEF Behind
  <3>3. Recoverable' BY <1>0, <2>1, <2>4 DEF Recoverable, OnDisk, LastSeqOf, Complete
  <3> QED BY <2>3, <3>1, <3>2, <3>3 DEF IInv
 <2>5. CASE oldFile' = file /\ file' = <<>>
  <3>1. /\ file # <<>> /\ Len(file) > 0 /\ Len(file') = 0 /\ file' \in Seq(Line)
    BY <1>0, <2>1, <2>5, EmptySeq DEF Clean, Types
  <3>2. Types' BY <1>0, <2>1, <2>5, <3>1 DEF Types
  <3>3. Clean' /\ Increasing' BY <1>0, <2>1, <2>5, <3>1 DEF Clean, Increasing
  <3>4. Behind' BY <1>0, <2>1, <2>2, <2>5, <3>1 DEF Behind
  <3>5. OnDisk' = OnDisk
   <4>1. LastSeqOf(file') = 0 BY <3>1, CompleteFile
   <4>2. Len(file) \in 1..Len(file) BY <1>a, <3>1
   <4>3. LastSeqOf(file) # 0
    <5>1. file[Len(file)].form # "torn" /\ file[Len(file)].seq > 0 BY <1>0, <2>1, <4>2 DEF Clean, Increasing
    <5>2. LastSeqOf(file) = file[Len(file)].seq BY <1>0, <3>1, <5>1, CompleteFile DEF Types
    <5> QED BY <1>b, <4>2, <5>1, <5>2
   <4>4. LastSeqOf(oldFile)' = LastSeqOf(file) BY <2>5 DEF LastSeqOf, Complete
   <4> QED BY <4>1, <4>3, <4>4 DEF OnDisk
  <3>6. Recoverable' BY <1>0, <2>1, <3>5 DEF Recoverable
  <3> QED BY <2>3, <3>2, <3>3, <3>4, <3>6 DEF IInv
 <2> QED BY <2>1, <2>4, <2>5
<1>3. CASE RotateMeta
 <2>1. /\ up /\ step = "rotated" /\ step' = "write" /\ meta'.lastSeq = lastSeq
       /\ UNCHANGED <<up, lastSeq, size, queue, file, oldFile, issued, acked>> BY <1>3 DEF RotateMeta, MetaNow
 <2>2. Settled' = Settled BY <2>1 DEF Settled
 <2>3. Types' /\ QueueNext' /\ Clean' /\ Increasing' /\ NoSeqReuse'
   BY <1>0, <2>1, <2>2 DEF Types, QueueNext, Clean, Increasing, NoSeqReuse
 <2>4. Behind' BY <1>0, <1>a, <2>1, <2>2 DEF Behind
 <2>5. \A e \in acked : e.seq <= lastSeq BY <1>0, <1>a, <2>1 DEF Behind
 <2>6. Recoverable' BY <2>1, <2>5 DEF Recoverable
 <2> QED BY <2>3, <2>4, <2>6 DEF IInv
<1>4. CASE Write
 <2>1. /\ AtWrite /\ file' = Written(file, Head(queue), "whole") /\ size' = size + 1
       /\ UNCHANGED <<up, lastSeq, oldFile, meta, issued>>
       /\ \/ step' = "meta" /\ UNCHANGED <<queue, acked>>
          \/ NextTask /\ Ack(Head(queue)) BY <1>4 DEF Write
 <2>2. /\ file' \in Seq(Line) /\ Len(file') = Len(file) + 1
       /\ \A i \in 1..Len(file) : file'[i] = file[i] /\ file[i].form = "whole"
       /\ file'[Len(file')].seq = Settled + 1 /\ file'[Len(file')].form = "whole"
       /\ Increasing' /\ OnDisk' = Settled + 1 BY <2>1, WriteStep
 <2>3. up /\ queue # <<>> /\ step # "meta" BY <2>1 DEF AtWrite
 <2>4. \A i \in 1..Len(file') : i \in 1..Len(file) \/ i = Len(file') BY <1>a, <2>2
 <2>5. Clean'
  <3>1. file' # <<>> BY <1>a, <2>2, EmptySeq
  <3> QED BY <1>0, <2>1, <2>2, <2>4, <3>1 DEF Clean
 <2>6. /\ \A i \in 1..Len(file') : file'[i].seq <= Settled + 1
       /\ \A i \in 1..Len(oldFile) : oldFile[i].seq <= Settled /\ oldFile[i].seq <= Settled + 1
  <3>1. /\ \A i \in 1..Len(file) : file[i].seq <= Settled
        /\ \A i \in 1..Len(oldFile) : oldFile[i].seq <= Settled BY <1>0, <2>3 DEF Behind
  <3>2. \A n \in Nat : n <= Settled => n <= Settled + 1 BY <1>a
  <3>3. \A i \in 1..Len(oldFile) : oldFile[i].seq <= Settled + 1 BY <1>b, <3>1, <3>2
  <3>4. ASSUME NEW i \in 1..Len(file') PROVE file'[i].seq <= Settled + 1
   <4>1. CASE i \in 1..Len(file) BY <1>b, <2>2, <3>1, <3>2, <4>1
   <4>2. CASE i = Len(file') BY <1>a, <2>2, <4>2
   <4> QED BY <2>4, <4>1, <4>2
  <3> QED BY <3>1, <3>3, <3>4
 <2>7. size' \in Nat BY <1>0, <2>1 DEF Types
 <2>8. CASE step' = "meta" /\ UNCHANGED <<queue, acked>>
  <3>1. Settled' = Settled BY <2>1, <2>8 DEF Settled
  <3>2. Types' /\ QueueNext' /\ NoSeqReuse'
    BY <1>0, <2>1, <2>2, <2>3, <2>7, <2>8, <3>1 DEF Types, QueueNext, NoSeqReuse
  <3>3. Behind' BY <1>0, <2>1, <2>6, <2>8, <3>1 DEF Behind
  <3>4. Recoverable' BY <1>0, <1>a, <2>2, <2>3, <2>8 DEF Recoverable, Behind
  <3> QED BY <2>2, <2>5, <3>2, <3>3, <3>4 DEF IInv
 <2>9. CASE NextTask /\ Ack(Head(queue))
  <3>1. queue' \in Seq(Task) /\ QueueNext' /\ Settled' = Settled + 1 /\ step' = "start"
    BY <2>1, <2>3, <2>9, NextTaskStep DEF NextTask
  <3>2. acked' \subseteq Event /\ NoSeqReuse' /\ \A e \in acked' : e.seq <= Settled + 1 BY <2>3, <2>9, AckStep
  <3>3. Types' BY <1>0, <2>1, <2>2, <2>7, <3>1, <3>2 DEF Types
  <3>4. Behind' BY <1>0, <2>1, <2>6, <3>1, <3>2 DEF Behind
  <3>5. Recoverable' BY <2>2, <3>2 DEF Recoverable
  <3> QED BY <2>2, <2>5, <3>1, <3>2, <3>3, <3>4, <3>5 DEF IInv
 <2> QED BY <2>1, <2>8, <2>9
<1>5. CASE SyncMeta
 <2>1. /\ step = "meta" /\ meta'.lastSeq = lastSeq /\ NextTask /\ Ack(Head(queue))
       /\ UNCHANGED <<up, lastSeq, file, oldFile, size, issued>> BY <1>5 DEF SyncMeta, MetaNow
 <2>2. queue # <<>> /\ meta.lastSeq <= lastSeq BY <1>0, <1>5, <2>1 DEF QueueNext, Behind, SyncMeta
 <2> QED BY <1>a, <1>c, <2>1, <2>2
\* No line is torn by it: the failed event leaves no trace on disk.
<1>6. CASE Fault
 <2>1. file' = file /\ queue # <<>> /\ up BY <1>0, <1>6 DEF Fault, Whole, AtWrite, QueueNext
 <2>2. NextTask /\ UNCHANGED <<up, lastSeq, oldFile, size, issued, meta, acked>> BY <1>6 DEF Fault
 <2>3. meta.lastSeq \in Nat /\ meta.lastSeq <= lastSeq /\ meta.lastSeq <= meta.lastSeq BY <1>0, <2>1 DEF Types, Behind
 <2> QED BY <1>c, <2>1, <2>2, <2>3
<1>7. CASE Crash
 <2>1. /\ up /\ up' = FALSE /\ queue' = <<>> /\ step' = "start"
       /\ UNCHANGED <<lastSeq, size, oldFile, meta, issued, acked>>
       /\ \/ file' = file
          \/ AtWrite /\ \E form \in {"torn", "whole"} : file' = Written(file, Head(queue), form) BY <1>7 DEF Crash
 <2>2. QueueNext' /\ queue' \in Seq(Task)
  <3>1. queue' \in Seq(Task) /\ Len(queue') = 0 BY <2>1, EmptySeq
  <3>2. Settled' = lastSeq /\ lastSeq >= 0 BY <1>a, <2>1, <3>1 DEF Settled
  <3> QED BY <2>1, <3>1, <3>2 DEF QueueNext
 <2>3. Behind' /\ NoSeqReuse' BY <1>0, <2>1 DEF Behind, NoSeqReuse
 <2>4. CASE file' = file
  <3>1. Types' /\ Clean' /\ Increasing' BY <1>0, <2>1, <2>2, <2>4 DEF Types, Clean, Increasing
  <3>2. Recoverable' BY <1>0, <2>1, <2>4 DEF Recoverable, OnDisk, LastSeqOf, Complete
  <3> QED BY <2>2, <2>3, <3>1, <3>2 DEF IInv
 <2>5. ASSUME AtWrite, NEW form \in {"torn", "whole"}, file' = Written(file, Head(queue), form)
       PROVE  IInv'
  <3>1. /\ file' \in Seq(Line) /\ Len(file') = Len(file) + 1
        /\ \A i \in 1..Len(file) : file'[i] = file[i] /\ file[i].form = "whole"
        /\ file'[Len(file')].form = form /\ Increasing'
        /\ OnDisk' = IF form = "whole" THEN Settled + 1 ELSE OnDisk BY <2>1, <2>5, WriteStep
  <3>2. \A i \in 1..Len(file') : i \in 1..Len(file) \/ i = Len(file') BY <1>a, <3>1
  <3>3. Types' /\ Clean'
   <4>1. Types' BY <1>0, <2>1, <2>2, <3>1 DEF Types
   <4>2. Clean' BY <1>0, <2>1, <3>1, <3>2 DEF Clean
   <4> QED BY <4>1, <4>2
  <3>4. Recoverable'
   <4>1. \A e \in acked : e.seq <= Settled + 1 BY <1>0, <1>a, <2>1 DEF Behind
   <4> QED BY <1>0, <2>1, <3>1, <4>1 DEF Recoverable
  <3> QED BY <2>2, <2>3, <3>1, <3>3, <3>4 DEF IInv
 <2> QED BY <2>1, <2>4, <2>5
\* The next seqs follow everything that counts: the higher of meta.json and files.
<1>8. CASE Open
 <2> DEFINE last == IF OnDisk > meta.lastSeq THEN OnDisk ELSE meta.lastSeq
            g == Complete(file)
 <2>1. /\ ~up /\ up' = TRUE /\ file' = g /\ size' = Len(g) /\ lastSeq' = last
       /\ meta'.lastSeq \in {last, meta.lastSeq} /\ (OnDisk > meta.lastSeq => meta'.lastSeq = last)
       /\ UNCHANGED <<queue, step, oldFile, issued, acked>> BY <1>8 DEF Open, Repaired
 <2>2. /\ g \in Seq(Line) /\ Len(g) \in Nat /\ Len(g) <= Len(file)
       /\ \A i \in 1..Len(g) : g[i] = file[i] /\ g[i].form = "whole" /\ g[i].seq <= OnDisk
       /\ \A i \in 1..Len(oldFile) : oldFile[i].seq <= OnDisk
       /\ LastSeqOf(g) = LastSeqOf(file) BY OpenedFile
 <2> HIDE DEF g
 <2>3. last \in Nat /\ OnDisk <= last /\ meta.lastSeq <= last /\ meta.lastSeq \in Nat BY <1>0, <1>a DEF Types
 <2> HIDE DEF last
 <2>4. queue = <<>> /\ step = "start" /\ Len(queue) = 0 BY <1>0, <2>1, EmptySeq DEF QueueNext
 <2>5. Settled' = last BY <2>1, <2>3, <2>4 DEF Settled
 <2>6. Types' /\ QueueNext' /\ NoSeqReuse'
  <3>1. Types' BY <1>0, <2>1, <2>2, <2>3 DEF Types
  <3>2. QueueNext' BY <2>1, <2>3, <2>4, <2>5 DEF QueueNext
  <3> QED BY <1>0, <2>1, <3>1, <3>2 DEF NoSeqReuse
 <2>7. \A i \in 1..Len(g) : i \in 1..Len(file) /\ g[i].seq \in Nat
  <3>1. \A i \in 1..Len(g) : i \in 1..Len(file) BY <1>a, <2>2
  <3> QED BY <1>b, <2>2, <3>1
 <2>8. Clean' BY <1>0, <2>1, <2>2, EmptySeq DEF Clean
 <2>9. Increasing' BY <1>0, <2>1, <2>2, <2>7 DEF Increasing
 <2>10. Behind'
  <3>1. \A i \in 1..Len(g) : g[i].seq <= last BY <1>a, <2>2, <2>3, <2>7
  <3>2. \A i \in 1..Len(oldFile) : oldFile[i].seq <= last BY <1>a, <1>b, <2>2, <2>3
  <3>3. \A e \in acked : e.seq <= last BY <1>0, <1>a, <2>3 DEF Recoverable
  <3>4. meta'.lastSeq <= last BY <2>1, <2>3
  <3> QED BY <2>1, <2>4, <2>5, <3>1, <3>2, <3>3, <3>4 DEF Behind
 <2>11. Recoverable'
  <3>1. OnDisk' = OnDisk BY <2>1, <2>2 DEF OnDisk, LastSeqOf, Complete
  <3>2. meta.lastSeq <= meta'.lastSeq BY <2>1, <2>3
  <3> QED BY <1>0, <1>a, <2>1, <2>3, <3>1, <3>2 DEF Recoverable
 <2> QED BY <2>6, <2>8, <2>9, <2>10, <2>11 DEF IInv
<1>9. CASE Done \/ UNCHANGED logVars
 <2>1. UNCHANGED logVars BY <1>9 DEF Done
 <2>2. UNCHANGED <<up, step, lastSeq, size, issued, queue, file, oldFile, meta, acked>>
   BY <2>1 DEF logVars, memVars, diskVars
 <2>3. Types' /\ QueueNext' /\ Clean' /\ Increasing' BY <1>0, <2>2 DEF Types, QueueNext, Clean, Increasing, Settled
 <2>4. Behind' /\ Recoverable' /\ NoSeqReuse'
   BY <1>0, <2>2 DEF Behind, Recoverable, NoSeqReuse, Settled, OnDisk, LastSeqOf, Complete
 <2> QED BY <2>3, <2>4 DEF IInv
<1> QED BY <1>1, <1>2, <1>3, <1>4, <1>5, <1>6, <1>7, <1>8, <1>9 DEF LogNext

\* Increasing over the two files is FilesOrdered.
LEMMA Ordered == Types /\ Increasing => FilesOrdered
<1> SUFFICES ASSUME Types, Increasing PROVE FilesOrdered OBVIOUS
<1> DEFINE n == Len(oldFile)
           m == Len(file)
           all == oldFile \o file
<1>1. oldFile \in Seq(Line) /\ file \in Seq(Line) BY DEF Types
<1>2. n \in Nat /\ m \in Nat BY <1>1, LinesOf
<1>3. Len(all) = n + m /\ \A i \in 1..(n + m) : all[i] = IF i <= n THEN oldFile[i] ELSE file[i - n]
  BY <1>1, ConcatProperties
<1>4. /\ \A i, j \in 1..n : i < j => oldFile[i].seq < oldFile[j].seq
      /\ \A i, j \in 1..m : i < j => file[i].seq < file[j].seq
      /\ \A i \in 1..n, j \in 1..m : oldFile[i].seq < file[j].seq BY DEF Increasing
<1> HIDE DEF n, m, all
<1>5. ASSUME NEW i \in 1..(n + m - 1) PROVE all[i].seq < all[i + 1].seq
 <2>1. i \in 1..(n + m) /\ i + 1 \in 1..(n + m) /\ i < i + 1 BY <1>2
 <2>2. CASE i + 1 <= n
  <3>1. i \in 1..n /\ i + 1 \in 1..n /\ i <= n BY <1>2, <2>2
  <3>2. all[i] = oldFile[i] /\ all[i + 1] = oldFile[i + 1] BY <1>3, <2>1, <2>2, <3>1
  <3> QED BY <1>4, <2>1, <3>1, <3>2
 <2>3. CASE i = n
  <3>1. i \in 1..n /\ 1 \in 1..m /\ ~(i + 1 <= n) /\ i + 1 - n = 1 /\ i <= n BY <1>2, <2>3
  <3>2. all[i] = oldFile[i] /\ all[i + 1] = file[1]
   <4>1. all[i] = oldFile[i] /\ all[i + 1] = file[i + 1 - n] BY <1>2, <1>3, <2>1, <3>1
   <4> QED BY <3>1, <4>1
  <3> QED BY <1>4, <3>1, <3>2
 <2>4. CASE i > n
  <3> DEFINE k == i - n
  <3>1. k \in 1..m /\ k + 1 \in 1..m /\ ~(i <= n) /\ ~(i + 1 <= n) /\ i + 1 - n = k + 1 /\ k < k + 1 BY <1>2, <2>4
  <3>2. all[i] = file[k] /\ all[i + 1] = file[k + 1]
   <4>1. all[i] = file[i - n] /\ all[i + 1] = file[i + 1 - n] BY <1>2, <1>3, <2>1, <3>1
   <4> QED BY <3>1, <4>1
  <3> HIDE DEF k
  <3> QED BY <1>4, <3>1, <3>2
 <2> QED BY <1>2, <2>2, <2>3, <2>4
<1>6. \A i \in 1..(Len(all) - 1) : all[i].seq < all[i + 1].seq BY <1>2, <1>3, <1>5
<1> QED BY <1>6 DEF FilesOrdered, all

LEMMA InitHolds == LogInit => IInv
<1> SUFFICES ASSUME LogInit PROVE IInv OBVIOUS
<1>1. /\ up = TRUE /\ step = "start" /\ lastSeq = 0 /\ size = 0 /\ issued = 0 /\ acked = {}
      /\ meta.lastSeq = 0 /\ queue = <<>> /\ file = <<>> /\ oldFile = <<>> BY DEF LogInit
<1>2. Len(queue) = 0 /\ Len(file) = 0 /\ Len(oldFile) = 0 BY <1>1, EmptySeq
<1>3. queue \in Seq(Task) /\ file \in Seq(Line) /\ oldFile \in Seq(Line) BY <1>1, EmptySeq
<1>4. Types BY <1>1, <1>3 DEF Types
<1>5. Settled = 0
 <2>1. lastSeq = 0 /\ Len(queue) = 0 BY <1>1, <1>2
 <2> QED BY <2>1 DEF Settled
<1>6. QueueNext /\ Clean /\ Increasing /\ Behind /\ Recoverable /\ NoSeqReuse
  BY <1>1, <1>2, <1>5 DEF QueueNext, Clean, Increasing, Behind, Recoverable, NoSeqReuse
<1> QED BY <1>4, <1>6 DEF IInv

\* No seq is used for two acknowledged events and the files stay in the order of
\* their seqs, across rotations, failed writes and renames, and crashes (append,
\* #rotate, #recover), as long as a failed write leaves nothing of its line.
THEOREM SeqsNeverReused == ASSUME Whole PROVE LogSpec => []SeqsHold
<1>1. LogInit => IInv BY InitHolds
<1>2. IInv /\ [LogNext]_logVars => IInv' BY InvStep
<1>3. IInv => SeqsHold BY Ordered DEF IInv, SeqsHold
<1> QED BY <1>1, <1>2, <1>3, PTL DEF LogSpec

--------------------
\* Replays: what the ring and the files hold

Lines == {file[i] : i \in 1..Len(file)} \cup {oldFile[i] : i \in 1..Len(oldFile)}
InRing == {ring[i] : i \in 1..Len(ring)}
Queued == {queue[i] : i \in 1..Len(queue)}

LineWritten(e) == \E l \in Lines : l.form = "whole" /\ EventOf(l) = e

\* Rotation has dropped e: the files begin behind it, and firstSeq says so.
Dropped(e) == (up => e.seq < firstSeq) /\ \A l \in Lines : e.seq < l.seq

RingTypes ==
    /\ ring \in Seq(Event) /\ writtenSeq \in Nat /\ firstSeq \in Nat
    /\ ~up => ring = <<>>
    /\ \A i, j \in 1..Len(ring) : i < j => ring[i].seq < ring[j].seq

\* An event is known by its seq and by its id alike.
Named ==
    /\ \A e \in InRing : e.seq <= lastSeq /\ e.id <= issued
    /\ \A t \in Queued : t.id <= issued
    /\ \A e \in InRing, t \in Queued : e.seq = t.seq <=> e.id = t.id

\* The seqs up to writtenSeq are done with, and so are those of all lines.
WrittenUpTo ==
    up => /\ IF step = "meta" THEN writtenSeq = Settled + 1 /\ LineWritten(EventOf(queue[1]))
                              ELSE writtenSeq <= Settled
          /\ \A l \in Lines : l.seq <= writtenSeq
          /\ \A e \in acked : e.seq <= writtenSeq

\* What the ring holds has been written or waits for it.
RingWritten == \A e \in InRing : e.seq <= writtenSeq \/ Settled < e.seq

\* What was acknowledged, or is in the ring and written, is on file unless it
\* was dropped.
Kept ==
    /\ \A e \in acked : LineWritten(e) \/ Dropped(e)
    /\ \A e \in InRing : e.seq <= writtenSeq => LineWritten(e) \/ Dropped(e)

\* What is on file or waits to be written is in the ring, or older than all of it.
Mirrored ==
    /\ \A l \in Lines : EventOf(l) \in InRing \/ \A e \in InRing : l.seq < e.seq
    /\ \A t \in Queued : EventOf(t) \in InRing \/ \A e \in InRing : t.seq < e.seq

ReplayInv == RingTypes /\ Named /\ WrittenUpTo /\ RingWritten /\ Kept /\ Mirrored

\* Two lists of the same events, each in the order of their seqs, are one list:
\* the place of an event is the number of those up to it.
LEMMA SameOrderedList ==
  ASSUME NEW s \in Seq(Event), NEW t \in Seq(Event),
         \A i, j \in 1..Len(s) : i < j => s[i].seq < s[j].seq,
         \A i, j \in 1..Len(t) : i < j => t[i].seq < t[j].seq,
         \A x \in Event : (\E i \in 1..Len(s) : s[i] = x) <=> (\E i \in 1..Len(t) : t[i] = x)
  PROVE  s = t
<1>0. \A x \in Event : x.seq \in Nat BY DEF Event
<1> USE <1>0
<1> DEFINE R == {s[i] : i \in 1..Len(s)}
           upTo(x) == {y \in R : y.seq <= x.seq}
<1>1. /\ Len(s) \in Nat /\ \A i \in 1..Len(s) : s[i] \in Event
      /\ Len(t) \in Nat /\ \A i \in 1..Len(t) : t[i] \in Event BY LenProperties, ElementOfSeq
\* The place of an event in either list.
<1>2. ASSUME NEW u \in Seq(Event), \A i \in 1..Len(u) : u[i] \in Event, Len(u) \in Nat,
             \A i, j \in 1..Len(u) : i < j => u[i].seq < u[j].seq,
             \A x \in Event : x \in R <=> \E i \in 1..Len(u) : u[i] = x
      PROVE  /\ \A i \in 1..Len(u) : Cardinality(upTo(u[i])) = i
             /\ Cardinality(R) = Len(u)
 <2>1. \A i, j \in 1..Len(u) : u[i].seq \in Nat /\ (u[j].seq <= u[i].seq <=> j <= i) /\ (u[i] = u[j] => i = j)
  <3>1. \A i \in 1..Len(u) : u[i].seq \in Nat BY <1>2
  <3>2. ASSUME NEW i \in 1..Len(u), NEW j \in 1..Len(u)
        PROVE  (u[j].seq <= u[i].seq <=> j <= i) /\ (u[i] = u[j] => i = j)
   <4>1. i \in Nat /\ j \in Nat /\ (i < j \/ j < i \/ i = j) BY <1>2
   <4>2. u[i].seq \in Nat /\ u[j].seq \in Nat BY <3>1
   <4>3. CASE i < j
    <5>1. u[i].seq < u[j].seq BY <1>2, <4>3
    <5> QED BY <4>1, <4>2, <4>3, <5>1
   <4>4. CASE j < i
    <5>1. u[j].seq < u[i].seq BY <1>2, <4>4
    <5> QED BY <4>1, <4>2, <4>4, <5>1
   <4>5. CASE i = j BY <4>1, <4>2, <4>5
   <4> QED BY <4>1, <4>3, <4>4, <4>5
  <3> QED BY <3>1, <3>2
 <2>2. R \subseteq Event BY <1>1
 <2>3. ASSUME NEW n \in 0..Len(u), NEW T, \A x \in Event : x \in T <=> \E j \in 1..n : u[j] = x, T \subseteq Event
       PROVE  Cardinality(T) = n
  <3> DEFINE f == [j \in 1..n |-> u[j]]
  <3>1. n \in Nat /\ \A j \in 1..n : j \in 1..Len(u) BY <1>2
  <3>2. f \in [1..n -> T] BY <1>2, <2>3, <3>1
  <3>3. \A i, j \in 1..n : f[i] = f[j] => i = j BY <2>1, <3>1
  <3>4. \A x \in T : \E j \in 1..n : f[j] = x BY <2>3
  <3>5. f \in Bijection(1..n, T) BY <3>2, <3>3, <3>4 DEF Bijection, Injection, Surjection, IsInjective
  <3>6. IsFiniteSet(1..n) /\ Cardinality(1..n) = n
   <4>1. IsFiniteSet(1..n) /\ Cardinality(1..n) = IF 1 > n THEN 0 ELSE n - 1 + 1 BY <3>1, FS_Interval
   <4> QED BY <3>1, <4>1
  <3>7. Cardinality(T) = Cardinality(1..n)
   <4>1. ExistsBijection(1..n, T) BY <3>5 DEF ExistsBijection
   <4> QED BY <3>6, <4>1, FS_Bijection
  <3> QED BY <3>6, <3>7
 <2>4. Cardinality(R) = Len(u)
  <3>1. Len(u) \in 0..Len(u) BY <1>2
  <3> HIDE DEF R
  <3> QED BY <1>2, <2>2, <2>3, <3>1
 <2>5. ASSUME NEW i \in 1..Len(u) PROVE Cardinality(upTo(u[i])) = i
  <3>1. i \in 0..Len(u) /\ i \in Nat /\ \A j \in 1..i : j \in 1..Len(u) BY <1>2
  <3>2. upTo(u[i]) \subseteq Event BY <2>2
  <3>3. ASSUME NEW x \in Event PROVE x \in upTo(u[i]) <=> \E j \in 1..i : u[j] = x
   <4>1. ASSUME x \in upTo(u[i]) PROVE \E j \in 1..i : u[j] = x
    <5>1. PICK j \in 1..Len(u) : u[j] = x BY <1>2, <4>1
    <5>2. j <= i BY <2>1, <4>1, <5>1
    <5>3. j \in 1..i BY <3>1, <5>2
    <5> QED BY <5>1, <5>3
   <4>2. ASSUME NEW j \in 1..i, u[j] = x PROVE x \in upTo(u[i])
    <5>1. j \in 1..Len(u) /\ j <= i BY <3>1
    <5>2. x \in R /\ x.seq <= u[i].seq BY <1>2, <2>1, <4>2, <5>1
    <5> QED BY <5>2
   <4> QED BY <4>1, <4>2
  <3> HIDE DEF R, upTo
  <3> QED BY <2>3, <3>1, <3>2, <3>3
 <2> QED BY <2>4, <2>5
<1>3. \A x \in Event : (x \in R <=> \E i \in 1..Len(s) : s[i] = x) /\ (x \in R <=> \E i \in 1..Len(t) : t[i] = x)
  OBVIOUS
<1> HIDE DEF R, upTo
<1>4. /\ \A i \in 1..Len(s) : Cardinality(upTo(s[i])) = i
      /\ Cardinality(R) = Len(s) BY <1>1, <1>2, <1>3
<1>5. /\ \A i \in 1..Len(t) : Cardinality(upTo(t[i])) = i
      /\ Cardinality(R) = Len(t) BY <1>1, <1>2, <1>3
<1>6. Len(s) = Len(t) BY <1>4, <1>5
<1>7. ASSUME NEW i \in 1..Len(s) PROVE s[i] = t[i]
 <2>1. PICK j \in 1..Len(t) : t[j] = s[i] BY <1>1, <1>3
 <2>2. Cardinality(upTo(s[i])) = i /\ Cardinality(upTo(t[j])) = j BY <1>4, <1>5
 <2> QED BY <2>1, <2>2
<1> QED BY <1>1, <1>6, <1>7, SeqEqual

\* The part of an ordered list at some positions is ordered, and holds what is
\* at those positions.
LEMMA OrderedPart ==
  ASSUME NEW S, \A x \in S : x.seq \in Nat, NEW s \in Seq(S), NEW I \in SUBSET (1..Len(s)),
         \A i, j \in 1..Len(s) : i < j => s[i].seq < s[j].seq
  PROVE  /\ Sublist(s, I) \in Seq(S)
         /\ \A i, j \in 1..Len(Sublist(s, I)) : i < j => Sublist(s, I)[i].seq < Sublist(s, I)[j].seq
         /\ \A x : (\E k \in 1..Len(Sublist(s, I)) : Sublist(s, I)[k] = x) <=> (\E i \in I : s[i] = x)
<1> DEFINE r == Sublist(s, I)
           n == Cardinality(I)
<1>1. /\ r \in Seq(S) /\ Len(r) = n /\ n \in Nat
      /\ \A i \in I : Rank(I, i) \in 1..n /\ r[Rank(I, i)] = s[i]
      /\ \A i, j \in I : i < j => Rank(I, i) < Rank(I, j)
      /\ \A k \in 1..n : \E i \in I : Rank(I, i) = k /\ r[k] = s[i] BY SublistProperties
<1>2. Len(s) \in Nat BY LenProperties
<1> HIDE DEF r, n
<1>3. ASSUME NEW k \in 1..n, NEW l \in 1..n, k < l PROVE r[k].seq < r[l].seq
 <2>1. PICK i \in I : Rank(I, i) = k /\ r[k] = s[i] BY <1>1
 <2>2. PICK j \in I : Rank(I, j) = l /\ r[l] = s[j] BY <1>1
 <2>3. i \in 1..Len(s) /\ j \in 1..Len(s) /\ i \in Nat /\ j \in Nat BY <1>2
 <2>4. ~(j < i) /\ i # j
  <3>1. j < i => l < k BY <1>1, <2>1, <2>2
  <3>2. k \in Nat /\ l \in Nat BY <1>1
  <3> QED BY <1>3, <2>1, <2>2, <3>1, <3>2
 <2>5. i < j BY <2>3, <2>4
 <2> QED BY <2>1, <2>2, <2>3, <2>5
<1>4. \A x : (\E k \in 1..n : r[k] = x) <=> (\E i \in I : s[i] = x) BY <1>1
<1> QED BY <1>1, <1>3, <1>4 DEF r

\* What the ring holds in the terms of InRing.
LEMMA RingEvents ==
  ASSUME RingTypes
  PROVE  /\ Len(ring) \in Nat /\ InRing \subseteq Event
         /\ \A e \in InRing : e.seq \in Nat
         /\ \A i \in 1..Len(ring) : ring[i] \in InRing /\ ring[i] \in Event
<1>1. Len(ring) \in Nat /\ \A i \in 1..Len(ring) : ring[i] \in Event BY LenProperties, ElementOfSeq DEF RingTypes
<1>2. \A e \in Event : e.seq \in Nat BY DEF Event
<1> QED BY <1>1, <1>2 DEF InRing

\* #remember: the new event is in the ring; what it pushes out is older than the rest.
LEMMA RememberRing ==
  ASSUME RingTypes, NEW e \in Event, \A x \in InRing : x.seq < e.seq, ring' = Remember(e)
  PROVE  /\ ring' \in Seq(Event)
         /\ \A i, j \in 1..Len(ring') : i < j => ring'[i].seq < ring'[j].seq
         /\ e \in InRing' /\ InRing' \subseteq InRing \cup {e}
         /\ \A x \in InRing : x \in InRing' \/ \A y \in InRing' : x.seq < y.seq
<1> DEFINE all == Append(ring, e)
           m == Len(ring)
<1>1. /\ m \in Nat /\ InRing \subseteq Event /\ e.seq \in Nat
      /\ \A i \in 1..m : ring[i] \in InRing /\ ring[i] \in Event /\ ring[i].seq \in Nat BY RingEvents DEF Event
<1>2. /\ all \in Seq(Event) /\ Len(all) = m + 1 /\ all[m + 1] = e
      /\ \A i \in 1..m : all[i] = ring[i] BY AppendProperties DEF RingTypes
<1>3. RingMax \in Nat /\ RingMax > 0 BY LogAssumption
<1> HIDE DEF all
<1>4. \A i \in 1..(m + 1) : all[i] \in Event /\ all[i].seq \in Nat /\ (i = m + 1 \/ i \in 1..m)
 <2>1. \A i \in 1..(m + 1) : i = m + 1 \/ i \in 1..m
  <3> HIDE DEF m
  <3> QED BY <1>1
 <2> QED BY <1>1, <1>2, <2>1
<1>5. \A i, j \in 1..(m + 1) : i < j => all[i].seq < all[j].seq
 <2> SUFFICES ASSUME NEW i \in 1..(m + 1), NEW j \in 1..(m + 1), i < j
              PROVE  all[i].seq < all[j].seq OBVIOUS
 <2>1. i \in 1..m
  <3> HIDE DEF m
  <3> QED BY <1>1
 <2>2. CASE j = m + 1 BY <1>1, <1>2, <2>1, <2>2
 <2>3. CASE j \in 1..m
  <3>1. ring[i].seq < ring[j].seq BY <2>1, <2>3 DEF RingTypes
  <3> QED BY <1>2, <2>1, <2>3, <3>1
 <2> QED BY <1>4, <2>2, <2>3
\* Which of them stay.
<1>6. PICK d \in 0..m : /\ ring' \in Seq(Event) /\ Len(ring') = m + 1 - d
                        /\ \A i \in 1..(m + 1 - d) : ring'[i] = all[i + d]
 <2>1. CASE m + 1 <= RingMax
  <3>1. ring' = all
   <4>1. ~(Len(all) > RingMax) BY <1>1, <1>2, <1>3, <2>1
   <4> QED BY <4>1 DEF Remember, all
  <3>2. 0 \in 0..m /\ m + 1 - 0 = m + 1 /\ \A i \in 1..(m + 1) : i + 0 = i
   <4> HIDE DEF m
   <4> QED BY <1>1
  <3> QED BY <1>2, <3>1, <3>2
 <2>2. CASE ~(m + 1 <= RingMax)
  <3> DEFINE d == m + 1 - RingMax
  <3>0. /\ d \in 0..m /\ d + 1 \in 1..(m + 1) /\ d + 1 = m + 1 - RingMax + 1 /\ d + 1 \in Int /\ m + 1 \in Int
        /\ d + 1 <= m + 1 + 1
   <4> HIDE DEF m
   <4> QED BY <1>1, <1>3, <2>2
  <3>1. ring' = SubSeq(all, d + 1, m + 1)
   <4>1. Len(all) > RingMax BY <1>1, <1>2, <1>3, <2>2
   <4>2. Remember(e) = SubSeq(all, Len(all) - RingMax + 1, Len(all)) BY <4>1 DEF Remember, all
   <4> HIDE DEF d, m
   <4>3. d + 1 = Len(all) - RingMax + 1 /\ m + 1 = Len(all) BY <1>1, <1>2, <1>3, <3>0
   <4>4. Remember(e) = SubSeq(all, d + 1, m + 1) BY <4>2, <4>3
   <4> QED BY <4>4
  <3> HIDE DEF d
  <3>2. \A i \in (d + 1)..(m + 1) : all[i] \in Event
   <4>1. \A i \in (d + 1)..(m + 1) : i \in 1..(m + 1)
    <5> HIDE DEF m
    <5> QED BY <1>1, <3>0
   <4> QED BY <1>4, <4>1
  <3>3. /\ ring' \in Seq(Event)
        /\ Len(ring') = IF d + 1 <= m + 1 THEN m + 1 - (d + 1) + 1 ELSE 0
        /\ \A i \in 1..(m + 1 - (d + 1) + 1) : ring'[i] = all[d + 1 + i - 1] BY <3>0, <3>1, <3>2, SubSeqProperties
  <3>4. /\ m + 1 - (d + 1) + 1 = m + 1 - d /\ d + 1 <= m + 1
        /\ \A i \in 1..(m + 1 - d) : d + 1 + i - 1 = i + d
   <4> HIDE DEF m
   <4> QED BY <1>1, <3>0
  <3> QED BY <3>0, <3>3, <3>4
 <2> QED BY <2>1, <2>2
<1> HIDE DEF m
<1>7. \A i \in 1..(m + 1 - d) : i + d \in 1..(m + 1) BY <1>1
<1>8. \A x : x \in InRing' <=> \E k \in (d + 1)..(m + 1) : all[k] = x
 <2>1. ASSUME NEW i \in 1..(m + 1 - d) PROVE \E k \in (d + 1)..(m + 1) : all[k] = ring'[i]
  <3>1. i + d \in (d + 1)..(m + 1) BY <1>1
  <3> QED BY <1>6, <3>1
 <2>2. ASSUME NEW k \in (d + 1)..(m + 1) PROVE all[k] \in InRing'
  <3>1. k - d \in 1..(m + 1 - d) /\ k - d + d = k BY <1>1
  <3>2. ring'[k - d] = all[k] BY <1>6, <3>1
  <3> QED BY <1>6, <3>1, <3>2 DEF InRing
 <2> QED BY <1>6, <2>1, <2>2 DEF InRing
<1>9. \A i, j \in 1..Len(ring') : i < j => ring'[i].seq < ring'[j].seq
 <2> SUFFICES ASSUME NEW i \in 1..(m + 1 - d), NEW j \in 1..(m + 1 - d), i < j
              PROVE  ring'[i].seq < ring'[j].seq BY <1>6
 <2>1. i + d < j + d BY <1>1
 <2> QED BY <1>5, <1>6, <1>7, <2>1
<1>10. e \in InRing' /\ InRing' \subseteq InRing \cup {e}
 <2>1. m + 1 \in (d + 1)..(m + 1) /\ \A k \in (d + 1)..(m + 1) : k \in 1..(m + 1) BY <1>1
 <2> QED BY <1>1, <1>2, <1>4, <1>8, <2>1
<1>11. ASSUME NEW x \in InRing, x \notin InRing' PROVE \A y \in InRing' : x.seq < y.seq
 <2>1. PICK i \in 1..m : ring[i] = x BY DEF InRing, m
 <2>2. i \in 1..(m + 1) /\ all[i] = x BY <1>1, <1>2, <2>1
 <2>3. i \notin (d + 1)..(m + 1) BY <1>8, <1>11, <2>2
 <2>4. \A k \in (d + 1)..(m + 1) : i < k /\ k \in 1..(m + 1) BY <1>1, <2>2, <2>3
 <2> QED BY <1>5, <1>8, <2>2, <2>4
<1> QED BY <1>6, <1>9, <1>10, <1>11

\* #forget takes the events with the task's id, and no other.
LEMMA ForgetRing ==
  ASSUME RingTypes, NEW t, ring' = Forget(t)
  PROVE  /\ ring' \in Seq(Event)
         /\ \A i, j \in 1..Len(ring') : i < j => ring'[i].seq < ring'[j].seq
         /\ \A x : x \in InRing' <=> x \in InRing /\ x.id # t.id
<1> DEFINE I == {i \in 1..Len(ring) : ring[i].id # t.id}
<1>1. ring' = Sublist(ring, I)
 <2>1. DOMAIN ring = 1..Len(ring) BY LenProperties DEF RingTypes
 <2> QED BY <2>1 DEF Forget
<1>2. /\ \A x \in Event : x.seq \in Nat
      /\ ring \in Seq(Event) /\ I \in SUBSET (1..Len(ring))
      /\ \A i, j \in 1..Len(ring) : i < j => ring[i].seq < ring[j].seq BY DEF RingTypes, Event
<1>3. \A x : (\E i \in I : ring[i] = x) <=> x \in InRing /\ x.id # t.id BY DEF InRing
<1> HIDE DEF I
<1>4. LET r == Sublist(ring, I) IN
      /\ r \in Seq(Event)
      /\ \A i, j \in 1..Len(r) : i < j => r[i].seq < r[j].seq
      /\ \A x : (\E k \in 1..Len(r) : r[k] = x) <=> (\E i \in I : ring[i] = x) BY <1>2, OrderedPart
<1>5. InRing' = {ring'[k] : k \in 1..Len(ring')} BY DEF InRing
<1>6. \A x : x \in InRing' <=> \E i \in I : ring[i] = x BY <1>1, <1>4, <1>5
<1> QED BY <1>1, <1>3, <1>4, <1>6

LEMMA LinesType == Types => Lines \subseteq Line /\ \A l \in Lines : l.seq \in Nat
<1> SUFFICES ASSUME Types PROVE Lines \subseteq Line /\ \A l \in Lines : l.seq \in Nat OBVIOUS
<1>1. /\ \A i \in 1..Len(file) : file[i] \in Line /\ file[i].seq \in Nat
      /\ \A i \in 1..Len(oldFile) : oldFile[i] \in Line /\ oldFile[i].seq \in Nat BY LinesOf DEF Types
<1> QED BY <1>1 DEF Lines

\* The seqs and ids of what waits to be written, its head among it.
LEMMA QueuedTasks ==
  ASSUME Types, QueueNext
  PROVE  /\ Queued \subseteq Task
         /\ \A t \in Queued : t.seq \in Nat /\ t.id \in Nat /\ Settled < t.seq /\ t.seq <= lastSeq
         /\ queue # <<>> => Head(queue) = queue[1] /\ Head(queue) \in Queued /\ Head(queue).seq = Settled + 1
                            /\ Settled + 1 <= lastSeq
         /\ Settled \in Nat /\ lastSeq \in Nat /\ Settled <= lastSeq
<1> DEFINE n == Len(queue)
<1>1. queue \in Seq(Task) /\ n \in Nat /\ lastSeq \in Nat /\ \A i \in 1..n : queue[i] \in Task
  BY LenProperties, ElementOfSeq DEF Types
<1>2. \A i \in 1..n : queue[i].seq = Settled + i BY DEF QueueNext
<1>3. Settled = lastSeq - n /\ Settled >= 0 BY DEF Settled, QueueNext
<1> HIDE DEF n
<1>4. Settled \in Nat /\ lastSeq = Settled + n BY <1>1, <1>3
<1>5. ASSUME NEW i \in 1..n PROVE queue[i].seq \in Nat /\ Settled < queue[i].seq /\ queue[i].seq <= lastSeq
  BY <1>1, <1>2, <1>4
<1>6. ASSUME NEW t \in Task PROVE t.seq \in Nat /\ t.id \in Nat BY DEF Task
<1>7. Queued = {queue[i] : i \in 1..n} BY DEF Queued, n
<1>8. queue # <<>> => n > 0 /\ Head(queue) = queue[1]
 <2>1. queue # <<>> => n # 0 BY <1>1, EmptySeq DEF n
 <2>2. queue # <<>> => n > 0 BY <1>1, <2>1
 <2>3. queue # <<>> => Head(queue) = queue[1] BY <1>1, HeadTailProperties
 <2> QED BY <2>2, <2>3
<1>9. n > 0 => 1 \in 1..n /\ Settled + 1 <= lastSeq BY <1>1, <1>4
<1> QED BY <1>1, <1>2, <1>4, <1>5, <1>6, <1>7, <1>8, <1>9

\* The task at the head leaves the queue.
LEMMA TaskLeaves ==
  ASSUME Types, QueueNext, queue # <<>>, NextTask
  PROVE  Queued' \subseteq Queued /\ \A t \in Queued' : Settled + 1 < t.seq
<1> DEFINE n == Len(queue)
<1>1. queue \in Seq(Task) /\ n \in Nat /\ n > 0 /\ Settled \in Nat
 <2>1. queue \in Seq(Task) /\ n \in Nat BY LenProperties DEF Types
 <2>2. n # 0 BY <2>1, EmptySeq
 <2> HIDE DEF n
 <2> QED BY <2>1, <2>2, QueuedTasks
<1>2. /\ Tail(queue) \in Seq(Task) /\ Len(Tail(queue)) = n - 1
      /\ \A i \in 1..Len(Tail(queue)) : Tail(queue)[i] = queue[i + 1] BY <1>1, HeadTailProperties
<1>3. queue' = Tail(queue) BY DEF NextTask
<1>4. \A i \in 1..n : queue[i].seq = Settled + i /\ queue[i] \in Queued BY DEF QueueNext, Queued
<1>5. Queued' = {queue'[i] : i \in 1..Len(queue')} BY DEF Queued
<1> HIDE DEF n
<1>6. ASSUME NEW i \in 1..(n - 1) PROVE queue[i + 1] \in Queued /\ Settled + 1 < queue[i + 1].seq
 <2>1. i + 1 \in 1..n /\ Settled + 1 < Settled + (i + 1) BY <1>1
 <2> QED BY <1>4, <2>1
<1> QED BY <1>2, <1>3, <1>5, <1>6

\* A line that is written joins the others.
LEMMA LineJoins ==
  ASSUME IInv, AtWrite, NEW form \in {"whole", "torn"},
         file' = Written(file, Head(queue), form), UNCHANGED oldFile
  PROVE  Lines' = Lines \cup {[seq |-> Head(queue).seq, id |-> Head(queue).id, form |-> form]}
<1> DEFINE l == [seq |-> Head(queue).seq, id |-> Head(queue).id, form |-> form]
<1>1. queue # <<>> /\ up /\ Types /\ Clean BY DEF AtWrite, IInv
<1>2. l \in Line
 <2>1. Head(queue) \in Task BY <1>1, HeadOfQueue
 <2> QED BY <2>1 DEF Task, Line
<1>3. file \in Seq(Line) /\ Len(file) \in Nat /\ \A i \in 1..Len(file) : file[i].form = "whole"
  BY <1>1, LenProperties DEF Types, Clean
<1>4. file' = Append(file, l) BY <1>3 DEF Written
<1> HIDE DEF l
<1>5. /\ Len(file') = Len(file) + 1 /\ file'[Len(file) + 1] = l
      /\ \A i \in 1..Len(file) : file'[i] = file[i] BY <1>2, <1>3, <1>4, OneMoreLine
<1>6. {file'[i] : i \in 1..Len(file')} = {file[i] : i \in 1..Len(file)} \cup {l}
 <2> DEFINE n == Len(file)
 <2>1. n \in Nat /\ Len(file') = n + 1 /\ file'[n + 1] = l /\ \A i \in 1..n : file'[i] = file[i] BY <1>3, <1>5
 <2> HIDE DEF n
 <2>2. \A i : i \in 1..(n + 1) <=> i \in 1..n \/ i = n + 1 BY <2>1
 <2>3. {file'[i] : i \in 1..(n + 1)} = {file[i] : i \in 1..n} \cup {l} BY <2>1, <2>2
 <2> QED BY <2>1, <2>3 DEF n
<1>7. Lines' = {file'[i] : i \in 1..Len(file')} \cup {oldFile[i] : i \in 1..Len(oldFile)} BY DEF Lines
<1> QED BY <1>6, <1>7 DEF Lines, l

\* An open keeps the whole lines, and takes the torn one away.
LEMMA LinesReopened ==
  ASSUME IInv, file' = Complete(file), UNCHANGED oldFile
  PROVE  Lines' \subseteq Lines /\ \A l \in Lines : l.form = "whole" => l \in Lines'
<1> DEFINE g == Complete(file)
           n == Len(file)
<1>1. file \in Seq(Line) /\ n \in Nat BY LenProperties DEF IInv, Types
<1>2. \/ g = file
      \/ n > 0 /\ file[n].form = "torn" /\ Len(g) = n - 1 /\ \A i \in 1..(n - 1) : g[i] = file[i]
  BY <1>1, CompleteFile
<1>3. Lines' = {g[i] : i \in 1..Len(g)} \cup {oldFile[i] : i \in 1..Len(oldFile)} BY DEF Lines
<1>4. Lines = {file[i] : i \in 1..n} \cup {oldFile[i] : i \in 1..Len(oldFile)} BY DEF Lines
<1> HIDE DEF g
<1>5. CASE g = file BY <1>3, <1>4, <1>5
<1>6. CASE n > 0 /\ file[n].form = "torn" /\ Len(g) = n - 1 /\ \A i \in 1..(n - 1) : g[i] = file[i]
 <2> HIDE DEF n
 <2>1. \A i : i \in 1..n <=> i \in 1..(n - 1) \/ i = n BY <1>1, <1>6
 <2> QED BY <1>3, <1>4, <1>6, <2>1
<1> QED BY <1>2, <1>5, <1>6

\* The first seq of a file of whole lines.
LEMMA FirstLine ==
  ASSUME NEW f \in Seq(Line), \A i \in 1..Len(f) : f[i].form = "whole", NEW d
  PROVE  FirstSeqOf(f, d) = IF Len(f) = 0 THEN d ELSE f[1].seq
<1>1. Len(f) \in Nat /\ (f = <<>> <=> Len(f) = 0) BY EmptySeq
<1>2. Complete(f) = f BY <1>1 DEF Complete
<1> QED BY <1>1, <1>2 DEF FirstSeqOf

LEMMA AppendReplays ==
  ASSUME IInv, ReplayInv, NEW sync \in BOOLEAN, AppendEvent(sync)
  PROVE  ReplayInv'
<1> DEFINE e == [seq |-> lastSeq + 1, id |-> issued + 1]
           t == [seq |-> lastSeq + 1, id |-> issued + 1, sync |-> sync]
<1>0. /\ Types /\ QueueNext
      /\ RingTypes /\ Named /\ WrittenUpTo /\ RingWritten /\ Kept /\ Mirrored BY DEF IInv, ReplayInv
<1>1. /\ up /\ issued' = issued + 1 /\ lastSeq' = lastSeq + 1 /\ ring' = Remember(e)
      /\ queue' = Append(queue, t)
      /\ UNCHANGED <<up, writtenSeq, firstSeq, step, file, oldFile, acked>> BY DEF AppendEvent, diskVars
<1>2. /\ lastSeq \in Nat /\ issued \in Nat /\ writtenSeq \in Nat /\ Settled \in Nat /\ Settled <= lastSeq
      /\ \A x \in InRing : x \in Event /\ x.seq \in Nat /\ x.id \in Nat /\ x.seq <= lastSeq /\ x.id <= issued
      /\ \A u \in Queued : u.seq \in Nat /\ u.id \in Nat /\ u.seq <= lastSeq /\ u.id <= issued
 <2>1. \A x \in Event : x.seq \in Nat /\ x.id \in Nat BY DEF Event
 <2>2. InRing \subseteq Event BY <1>0, RingEvents
 <2> QED BY <1>0, <2>1, <2>2, QueuedTasks DEF RingTypes, Named, Types
<1>3. e \in Event /\ e.seq = lastSeq + 1 /\ e.id = issued + 1 BY <1>2 DEF Event
<1>4. t \in Task /\ t.seq = lastSeq + 1 /\ t.id = issued + 1 /\ EventOf(t) = e BY <1>2 DEF Task, EventOf
<1> HIDE DEF e, t
<1>5. \A x \in InRing : x.seq < e.seq BY <1>2, <1>3
<1>6. /\ ring' \in Seq(Event)
      /\ \A i, j \in 1..Len(ring') : i < j => ring'[i].seq < ring'[j].seq
      /\ e \in InRing' /\ InRing' \subseteq InRing \cup {e}
      /\ \A x \in InRing : x \in InRing' \/ \A y \in InRing' : x.seq < y.seq BY <1>0, <1>1, <1>3, <1>5, RememberRing
<1>7. Queued' = Queued \cup {t} /\ Settled' = Settled /\ (queue # <<>> => queue'[1] = queue[1])
 <2> DEFINE n == Len(queue)
 <2>1. /\ n \in Nat /\ Len(queue') = n + 1 /\ queue'[n + 1] = t /\ \A i \in 1..n : queue'[i] = queue[i]
   BY <1>0, <1>1, <1>4, AppendProperties, LenProperties DEF Types
 <2>2. queue # <<>> => n # 0 BY <1>0, EmptySeq DEF Types
 <2>3. Queued = {queue[i] : i \in 1..n} /\ Queued' = {queue'[i] : i \in 1..Len(queue')} BY DEF Queued
 <2>4. Settled = lastSeq - n /\ Settled' = lastSeq' - Len(queue') BY DEF Settled
 <2> HIDE DEF n
 <2>5. \A i : i \in 1..(n + 1) <=> i \in 1..n \/ i = n + 1 BY <2>1
 <2>6. Queued' = Queued \cup {t} BY <2>1, <2>3, <2>5
 <2>7. Settled' = Settled BY <1>1, <1>2, <2>1, <2>4
 <2>8. queue # <<>> => 1 \in 1..n BY <2>1, <2>2
 <2> QED BY <2>1, <2>6, <2>7, <2>8
<1>8. Lines' = Lines /\ \A x : (LineWritten(x)' <=> LineWritten(x)) /\ (Dropped(x)' <=> Dropped(x))
 <2>1. Lines' = Lines BY <1>1 DEF Lines
 <2> QED BY <1>1, <2>1 DEF LineWritten, Dropped
<1>9. RingTypes' BY <1>0, <1>1, <1>6 DEF RingTypes
<1>10. Named'
 <2>1. \A x \in InRing' : x.seq <= lastSeq' /\ x.id <= issued' BY <1>1, <1>2, <1>3, <1>6
 <2>2. \A u \in Queued' : u.id <= issued' BY <1>1, <1>2, <1>4, <1>7
 <2>3. ASSUME NEW x \in InRing', NEW u \in Queued' PROVE x.seq = u.seq <=> x.id = u.id
  <3>1. CASE x \in InRing /\ u \in Queued BY <1>0, <3>1 DEF Named
  <3>2. CASE x = e /\ u = t BY <1>3, <1>4, <3>2
  <3>3. CASE x \in InRing /\ u = t BY <1>2, <1>4, <3>3
  <3>4. CASE x = e /\ u \in Queued BY <1>2, <1>3, <3>4
  <3> QED BY <1>6, <1>7, <3>1, <3>2, <3>3, <3>4
 <2> QED BY <2>1, <2>2, <2>3 DEF Named
<1>11. writtenSeq <= lastSeq /\ (step = "meta" => queue # <<>>)
 <2>1. step = "meta" => queue # <<>> BY <1>0 DEF QueueNext
 <2>2. step = "meta" => writtenSeq <= lastSeq BY <1>0, <1>1, <1>2, <2>1, QueuedTasks DEF WrittenUpTo
 <2>3. step # "meta" => writtenSeq <= lastSeq BY <1>0, <1>1, <1>2 DEF WrittenUpTo
 <2> QED BY <2>1, <2>2, <2>3
<1>12. WrittenUpTo'
 <2>1. step = "meta" => EventOf(queue'[1]) = EventOf(queue[1]) BY <1>7, <1>11
 <2>2. step = "meta" => LineWritten(EventOf(queue[1])) BY <1>0, <1>1 DEF WrittenUpTo
 <2>3. step = "meta" => LineWritten(EventOf(queue[1]))' BY <1>1, <1>8, <2>1, <2>2 DEF LineWritten
 <2> QED BY <1>0, <1>1, <1>7, <1>8, <2>3 DEF WrittenUpTo
<1>13. RingWritten' BY <1>0, <1>1, <1>2, <1>3, <1>6, <1>7 DEF RingWritten
<1>14. Kept'
 <2>1. ~(e.seq <= writtenSeq) BY <1>2, <1>3, <1>11
 <2> QED BY <1>0, <1>1, <1>6, <1>8, <2>1 DEF Kept
<1>15. Mirrored'
 <2>1. \A l \in Lines : l.seq \in Nat /\ l.seq <= writtenSeq BY <1>0, <1>1, LinesType DEF WrittenUpTo
 <2>2. ASSUME NEW x, x.seq \in Nat, x.seq <= lastSeq, EventOf(x).seq = x.seq,
              EventOf(x) \in InRing \/ \A y \in InRing : x.seq < y.seq
       PROVE  EventOf(x) \in InRing' \/ \A y \in InRing' : x.seq < y.seq
  <3>1. CASE EventOf(x) \in InRing BY <1>6, <2>2, <3>1
  <3>2. CASE \A y \in InRing : x.seq < y.seq BY <1>2, <1>3, <1>6, <2>2, <3>2
  <3> QED BY <2>2, <3>1, <3>2
 <2>3. \A x : EventOf(x).seq = x.seq BY DEF EventOf
 <2>4. \A l \in Lines : EventOf(l) \in InRing' \/ \A y \in InRing' : l.seq < y.seq
  <3>1. \A l \in Lines : l.seq <= lastSeq BY <1>2, <1>11, <2>1
  <3> QED BY <1>0, <2>1, <2>2, <2>3, <3>1 DEF Mirrored
 <2>5. \A u \in Queued : EventOf(u) \in InRing' \/ \A y \in InRing' : u.seq < y.seq
   BY <1>0, <1>2, <2>2, <2>3 DEF Mirrored
 <2> QED BY <1>4, <1>6, <1>7, <1>8, <2>4, <2>5 DEF Mirrored, EventOf
<1> QED BY <1>9, <1>10, <1>12, <1>13, <1>14, <1>15 DEF ReplayInv

\* Rotation: what the old file held is dropped, and firstSeq moves behind it.
LEMMA RotateReplays ==
  ASSUME IInv, ReplayInv, Rotate
  PROVE  ReplayInv'
<1>0. /\ Types /\ QueueNext /\ Clean /\ Increasing
      /\ RingTypes /\ Named /\ WrittenUpTo /\ RingWritten /\ Kept /\ Mirrored BY DEF IInv, ReplayInv
<1>1. /\ up /\ step = "start" /\ step' = "rotated" /\ size > 0
      /\ (oldFile' = file /\ file' = <<>>) \/ UNCHANGED <<file, oldFile>>
      /\ firstSeq' = FirstSeqOf(oldFile', writtenSeq + 1)
      /\ UNCHANGED <<up, lastSeq, writtenSeq, ring, queue, issued, acked>> BY DEF Rotate, MustRotate
<1>2. InRing' = InRing /\ Queued' = Queued /\ Settled' = Settled /\ writtenSeq \in Nat
  BY <1>0, <1>1 DEF InRing, Queued, Settled, RingTypes
<1>3. /\ file \in Seq(Line) /\ oldFile \in Seq(Line) /\ Len(file) \in Nat /\ Len(oldFile) \in Nat
      /\ \A i \in 1..Len(file) : file[i].form = "whole" /\ file[i].seq \in Nat /\ file[i] \in Lines
      /\ \A i \in 1..Len(oldFile) : oldFile[i].form = "whole" /\ oldFile[i].seq \in Nat /\ oldFile[i] \in Lines
  BY <1>0, <1>1, LinesOf DEF Clean, Lines, Types
<1>4. Lines' \subseteq Lines /\ firstSeq' \in Nat
      /\ \A e : e.seq \in Nat /\ e.seq <= writtenSeq /\ (LineWritten(e) \/ Dropped(e)) => LineWritten(e)' \/ Dropped(e)'
 <2>1. CASE UNCHANGED <<file, oldFile>>
  <3>1. Lines' = Lines BY <2>1 DEF Lines
  <3>2. firstSeq' = IF Len(oldFile) = 0 THEN writtenSeq + 1 ELSE oldFile[1].seq BY <1>1, <1>3, <2>1, FirstLine
  <3>3. Len(oldFile) # 0 => 1 \in 1..Len(oldFile) BY <1>3
  <3>4. firstSeq' \in Nat BY <1>2, <1>3, <3>2, <3>3
  <3>5. ASSUME NEW e, e.seq \in Nat, e.seq <= writtenSeq, LineWritten(e) \/ Dropped(e)
        PROVE  LineWritten(e)' \/ Dropped(e)'
   <4>1. LineWritten(e)' <=> LineWritten(e) BY <3>1 DEF LineWritten
   <4>2. CASE Dropped(e)
    <5>1. \A l \in Lines : e.seq < l.seq BY <4>2 DEF Dropped
    <5>2. e.seq < firstSeq' BY <1>2, <1>3, <3>2, <3>3, <3>5, <5>1
    <5> QED BY <3>1, <5>1, <5>2 DEF Dropped
   <4> QED BY <3>5, <4>1, <4>2
  <3> QED BY <3>1, <3>4, <3>5
 <2>2. CASE oldFile' = file /\ file' = <<>>
  <3>1. Len(file) > 0 /\ 1 \in 1..Len(file) /\ Len(file') = 0 BY <1>0, <1>1, <1>3, <2>2, EmptySeq DEF Clean
  <3>2. Lines' = {file[i] : i \in 1..Len(file)} BY <2>2, <3>1 DEF Lines
  <3>3. firstSeq' = file[1].seq BY <1>1, <1>3, <2>2, <3>1, FirstLine
  <3>4. \A i \in 1..Len(file) : file[1].seq <= file[i].seq
   <4> SUFFICES ASSUME NEW i \in 1..Len(file) PROVE file[1].seq <= file[i].seq OBVIOUS
   <4>1. i = 1 \/ 1 < i BY <1>3
   <4>2. 1 < i => file[1].seq < file[i].seq BY <1>0, <3>1 DEF Increasing
   <4> QED BY <1>3, <3>1, <4>1, <4>2
  <3>5. ASSUME NEW e, e.seq \in Nat, e.seq < file[1].seq PROVE Dropped(e)'
   <4>1. \A i \in 1..Len(file) : e.seq < file[i].seq BY <1>3, <3>1, <3>4, <3>5
   <4> QED BY <3>2, <3>3, <3>5, <4>1 DEF Dropped
  <3>6. ASSUME NEW e, e.seq \in Nat, LineWritten(e) \/ Dropped(e) PROVE LineWritten(e)' \/ Dropped(e)'
   <4>1. CASE Dropped(e) BY <1>3, <3>1, <3>5, <3>6, <4>1 DEF Dropped
   <4>2. CASE LineWritten(e)
    <5>1. PICK l \in Lines : l.form = "whole" /\ EventOf(l) = e BY <4>2 DEF LineWritten
    <5>2. CASE l \in {file[i] : i \in 1..Len(file)} BY <3>2, <5>1, <5>2 DEF LineWritten, EventOf
    <5>3. CASE l \in {oldFile[i] : i \in 1..Len(oldFile)}
     <6>1. l.seq < file[1].seq BY <1>0, <3>1, <5>3 DEF Increasing
     <6>2. e.seq = l.seq BY <5>1 DEF EventOf
     <6> QED BY <3>5, <3>6, <6>1, <6>2
    <5> QED BY <5>1, <5>2, <5>3 DEF Lines
   <4> QED BY <3>6, <4>1, <4>2
  <3> QED BY <1>3, <3>1, <3>2, <3>3, <3>6
 <2> QED BY <1>1, <2>1, <2>2
<1>5. RingTypes' /\ Named' /\ RingWritten'
 <2>1. RingTypes' BY <1>0, <1>1, <1>4 DEF RingTypes
 <2>2. Named' BY <1>0, <1>1, <1>2 DEF Named
 <2>3. RingWritten' BY <1>0, <1>1, <1>2 DEF RingWritten
 <2> QED BY <2>1, <2>2, <2>3
<1>6. WrittenUpTo' BY <1>0, <1>1, <1>2, <1>4 DEF WrittenUpTo
<1>7. Kept'
 <2>1. \A e \in acked : e.seq \in Nat /\ e.seq <= writtenSeq BY <1>0, <1>1 DEF WrittenUpTo, Types, Event
 <2>2. \A e \in InRing : e.seq \in Nat BY <1>0, RingEvents
 <2> QED BY <1>0, <1>1, <1>2, <1>4, <2>1, <2>2 DEF Kept
<1>8. Mirrored' BY <1>0, <1>2, <1>4 DEF Mirrored, EventOf
<1> QED BY <1>5, <1>6, <1>7, <1>8 DEF ReplayInv

\* The line at the head of the queue is written.
LEMMA WriteReplays ==
  ASSUME IInv, ReplayInv, Write
  PROVE  ReplayInv'
<1> DEFINE t == Head(queue)
           l == [seq |-> t.seq, id |-> t.id, form |-> "whole"]
<1>0. /\ Types /\ QueueNext
      /\ RingTypes /\ Named /\ WrittenUpTo /\ RingWritten /\ Kept /\ Mirrored BY DEF IInv, ReplayInv
<1>1. /\ AtWrite /\ file' = Written(file, t, "whole") /\ writtenSeq' = t.seq
      /\ \/ step' = "meta" /\ UNCHANGED <<queue, acked>>
         \/ NextTask /\ Ack(t)
      /\ UNCHANGED <<up, lastSeq, firstSeq, ring, oldFile, issued>> BY DEF Write
<1>2. up /\ queue # <<>> /\ step # "meta" BY <1>1 DEF AtWrite
<1>3. /\ t = queue[1] /\ t \in Queued /\ t.seq = Settled + 1 /\ Settled \in Nat /\ t.id \in Nat
      /\ writtenSeq \in Nat /\ writtenSeq <= Settled
      /\ \A x \in Lines : x.seq \in Nat /\ x.seq <= writtenSeq
      /\ \A x \in acked : x.seq \in Nat /\ x.seq <= writtenSeq
      /\ \A x \in InRing : x.seq \in Nat
 <2>1. t = queue[1] /\ t \in Queued /\ t.seq = Settled + 1 /\ Settled \in Nat /\ t.id \in Nat
   BY <1>0, <1>2, QueuedTasks
 <2>2. writtenSeq \in Nat /\ writtenSeq <= Settled BY <1>0, <1>2 DEF WrittenUpTo, RingTypes
 <2>3. /\ \A x \in Lines : x.seq \in Nat /\ x.seq <= writtenSeq
       /\ \A x \in acked : x.seq \in Nat /\ x.seq <= writtenSeq BY <1>0, <1>2, LinesType DEF WrittenUpTo, Types, Event
 <2> QED BY <1>0, <2>1, <2>2, <2>3, RingEvents
<1>4. Lines' = Lines \cup {l} BY <1>1, LineJoins
<1>5. /\ l.form = "whole" /\ l.seq = Settled + 1 /\ EventOf(l) = EventOf(t)
      /\ EventOf(t) = [seq |-> t.seq, id |-> t.id] BY <1>3 DEF EventOf
<1>6. \/ /\ step' = "meta" /\ Queued' = Queued /\ Settled' = Settled /\ acked' = acked /\ queue' = queue
      \/ /\ step' = "start" /\ Queued' \subseteq Queued /\ Settled' = Settled + 1
         /\ acked' = acked \cup {EventOf(t)}
 <2>1. CASE step' = "meta" /\ UNCHANGED <<queue, acked>> BY <1>1, <2>1 DEF Queued, Settled
 <2>2. CASE NextTask /\ Ack(t)
  <3>1. Queued' \subseteq Queued BY <1>0, <1>2, <2>2, TaskLeaves
  <3>2. Settled' = Settled + 1 BY <1>1, <1>2, <2>2, NextTaskStep
  <3> QED BY <1>5, <2>2, <3>1, <3>2 DEF NextTask, Ack
 <2> QED BY <1>1, <2>1, <2>2
<1> HIDE DEF l, t
<1>a. PICK a : a = EventOf(t) OBVIOUS
<1>7. InRing' = InRing /\ LineWritten(a)' /\ \A x : LineWritten(x) => LineWritten(x)'
 <2>1. InRing' = InRing BY <1>1 DEF InRing
 <2>2. \A x : LineWritten(x) => \E y \in Lines' : y.form = "whole" /\ EventOf(y) = x BY <1>4 DEF LineWritten
 <2>3. \E y \in Lines' : y.form = "whole" /\ EventOf(y) = a BY <1>4, <1>5, <1>a
 <2> QED BY <2>1, <2>2, <2>3 DEF LineWritten, EventOf
<1>8. \A x : x.seq \in Nat /\ x.seq <= writtenSeq /\ Dropped(x) => Dropped(x)'
 <2> SUFFICES ASSUME NEW x, x.seq \in Nat, x.seq <= writtenSeq, Dropped(x) PROVE Dropped(x)' OBVIOUS
 <2>1. \A y \in Lines' : x.seq < y.seq BY <1>3, <1>4, <1>5 DEF Dropped
 <2> QED BY <1>1, <1>2, <2>1 DEF Dropped
<1>9. RingTypes' /\ Named'
 <2>1. RingTypes' BY <1>0, <1>1, <1>3 DEF RingTypes
 <2>2. Named' BY <1>0, <1>1, <1>6, <1>7 DEF Named
 <2> QED BY <2>1, <2>2
<1>10. WrittenUpTo'
 <2>1. \A x \in Lines' : x.seq <= writtenSeq' BY <1>1, <1>3, <1>4, <1>5
 <2>2. \A x \in acked' : x.seq <= writtenSeq' BY <1>1, <1>3, <1>5, <1>6
 <2>3. step' = "meta" => writtenSeq' = Settled' + 1 /\ a = EventOf(queue'[1]) BY <1>1, <1>3, <1>6, <1>a DEF EventOf
 <2>4. step' = "meta" => LineWritten(EventOf(queue[1]))'
  <3>1. \E y \in Lines' : y.form = "whole" /\ EventOf(y) = a BY <1>7 DEF LineWritten, EventOf
  <3>2. step' = "meta" => \E y \in Lines' : y.form = "whole" /\ EventOf(y) = EventOf(queue'[1]) BY <2>3, <3>1
  <3> QED BY <3>2 DEF LineWritten, EventOf
 <2>5. step' # "meta" => writtenSeq' <= Settled' BY <1>1, <1>3, <1>6
 <2> QED BY <2>1, <2>2, <2>3, <2>4, <2>5 DEF WrittenUpTo
<1>11. RingWritten'
 <2> SUFFICES ASSUME NEW x \in InRing PROVE x.seq <= writtenSeq' \/ Settled' < x.seq BY <1>7 DEF RingWritten
 <2>1. x.seq \in Nat /\ (x.seq <= writtenSeq \/ Settled < x.seq) BY <1>0, <1>3 DEF RingWritten
 <2>2. writtenSeq' = Settled + 1 /\ (Settled' = Settled \/ Settled' = Settled + 1) BY <1>1, <1>3, <1>6
 <2> QED BY <1>3, <2>1, <2>2
<1>12. Kept'
 <2>1. ASSUME NEW x \in acked' PROVE LineWritten(x)' \/ Dropped(x)'
  <3>1. CASE x = EventOf(t) BY <1>7, <1>a, <3>1
  <3>2. CASE x \in acked BY <1>0, <1>3, <1>7, <1>8, <3>2 DEF Kept
  <3> QED BY <1>6, <3>1, <3>2
 <2>2. ASSUME NEW x \in InRing, x.seq <= writtenSeq' PROVE LineWritten(x)' \/ Dropped(x)'
  <3>1. CASE x.seq <= writtenSeq BY <1>0, <1>3, <1>7, <1>8, <3>1 DEF Kept
  <3>2. CASE ~(x.seq <= writtenSeq)
   <4>1. x.seq = t.seq
    <5>1. Settled < x.seq /\ x.seq <= Settled + 1 BY <1>0, <1>1, <1>3, <2>2, <3>2 DEF RingWritten
    <5> QED BY <1>3, <5>1
   <4>2. x.id = t.id BY <1>0, <1>3, <4>1 DEF Named
   <4>3. x = EventOf(t)
    <5>1. x \in Event BY <1>0, RingEvents
    <5> QED BY <1>5, <4>1, <4>2, <5>1 DEF Event
   <4> QED BY <1>7, <1>a, <4>3
  <3> QED BY <3>1, <3>2
 <2> QED BY <1>7, <2>1, <2>2 DEF Kept
<1>13. Mirrored'
 <2>1. EventOf(t) \in InRing \/ \A y \in InRing : t.seq < y.seq BY <1>0, <1>3 DEF Mirrored
 <2>2. \A x \in Lines' : EventOf(x) \in InRing \/ \A y \in InRing : x.seq < y.seq
   BY <1>0, <1>3, <1>4, <1>5, <2>1 DEF Mirrored
 <2>3. \A x \in Queued' : EventOf(x) \in InRing \/ \A y \in InRing : x.seq < y.seq BY <1>0, <1>6 DEF Mirrored
 <2> QED BY <1>7, <2>2, <2>3 DEF Mirrored, EventOf
<1> QED BY <1>9, <1>10, <1>11, <1>12, <1>13 DEF ReplayInv

\* A task whose line is on disk ends, acknowledged or not.
LEMMA MetaEndReplays ==
  ASSUME IInv, ReplayInv, up, step = "meta", queue # <<>>, NextTask, acked' = acked \/ Ack(Head(queue)),
         UNCHANGED <<up, lastSeq, writtenSeq, firstSeq, ring, file, oldFile, issued>>
  PROVE  ReplayInv'
<1>0. /\ Types /\ QueueNext
      /\ RingTypes /\ Named /\ WrittenUpTo /\ RingWritten /\ Kept /\ Mirrored BY DEF IInv, ReplayInv
<1>1. /\ Queued' \subseteq Queued /\ Settled' = Settled + 1 /\ Settled \in Nat /\ step' = "start"
      /\ InRing' = InRing /\ Lines' = Lines /\ Head(queue) = queue[1] /\ Head(queue).seq = Settled + 1
  BY <1>0, TaskLeaves, NextTaskStep, QueuedTasks DEF NextTask, InRing, Lines
<1>2. writtenSeq = Settled + 1 /\ LineWritten(EventOf(queue[1])) /\ \A e \in acked : e.seq <= writtenSeq
  BY <1>0 DEF WrittenUpTo
<1>3. \A e : (LineWritten(e)' <=> LineWritten(e)) /\ (Dropped(e)' <=> Dropped(e)) BY <1>1 DEF LineWritten, Dropped
<1>4. acked' = acked \/ acked' = acked \cup {EventOf(queue[1])} BY <1>1 DEF Ack, EventOf
<1>5. RingTypes' /\ Named'
 <2>1. RingTypes' BY <1>0 DEF RingTypes
 <2>2. Named' BY <1>0, <1>1 DEF Named
 <2> QED BY <2>1, <2>2
<1>6. WrittenUpTo'
 <2>1. writtenSeq' <= Settled' BY <1>1, <1>2
 <2>2. \A e \in acked' : e.seq <= writtenSeq' BY <1>1, <1>2, <1>4 DEF EventOf
 <2> QED BY <1>0, <1>1, <2>1, <2>2 DEF WrittenUpTo
<1>7. RingWritten'
 <2>1. \A e \in InRing : e.seq \in Nat BY <1>0, RingEvents
 <2> QED BY <1>0, <1>1, <1>2, <2>1 DEF RingWritten
<1>8. Kept' BY <1>0, <1>1, <1>2, <1>3, <1>4 DEF Kept
<1>9. Mirrored' BY <1>0, <1>1 DEF Mirrored, EventOf
<1> QED BY <1>5, <1>6, <1>7, <1>8, <1>9 DEF ReplayInv

\* A failed append leaves no event in the ring and nothing on disk.
LEMMA CleanFaultReplays ==
  ASSUME IInv, ReplayInv, up, step # "meta", queue # <<>>, NextTask, ring' = Forget(Head(queue)),
         UNCHANGED <<up, lastSeq, writtenSeq, firstSeq, file, oldFile, issued, acked>>
  PROVE  ReplayInv'
<1> DEFINE t == Head(queue)
<1>0. /\ Types /\ QueueNext
      /\ RingTypes /\ Named /\ WrittenUpTo /\ RingWritten /\ Kept /\ Mirrored BY DEF IInv, ReplayInv
<1>1. /\ Queued' \subseteq Queued /\ \A u \in Queued' : Settled + 1 < u.seq
      /\ Settled' = Settled + 1 /\ Settled \in Nat /\ step' = "start"
      /\ t \in Queued /\ t.seq = Settled + 1 /\ Lines' = Lines
  BY <1>0, TaskLeaves, NextTaskStep, QueuedTasks DEF NextTask, Lines
<1> HIDE DEF t
<1>2. /\ ring' \in Seq(Event)
      /\ \A i, j \in 1..Len(ring') : i < j => ring'[i].seq < ring'[j].seq
      /\ \A x : x \in InRing' <=> x \in InRing /\ x.id # t.id BY <1>0, ForgetRing DEF t
<1>3. /\ writtenSeq \in Nat /\ writtenSeq <= Settled
      /\ \A l \in Lines : l.seq \in Nat /\ l.seq <= writtenSeq BY <1>0, LinesType DEF WrittenUpTo, RingTypes
<1>4. \A x \in InRing : x.seq \in Nat /\ (x.id = t.id <=> x.seq = Settled + 1) BY <1>0, <1>1, RingEvents DEF Named
<1>5. \A e : (LineWritten(e)' <=> LineWritten(e)) /\ (Dropped(e)' <=> Dropped(e)) BY <1>1 DEF LineWritten, Dropped
<1>6. RingTypes' /\ Named'
 <2>1. RingTypes' BY <1>0, <1>2 DEF RingTypes
 <2>2. Named' BY <1>0, <1>1, <1>2 DEF Named
 <2> QED BY <2>1, <2>2
<1>7. WrittenUpTo' BY <1>0, <1>1, <1>3 DEF WrittenUpTo
<1>8. RingWritten' BY <1>0, <1>1, <1>2, <1>3, <1>4 DEF RingWritten
<1>9. Kept' BY <1>0, <1>2, <1>5 DEF Kept
<1>10. Mirrored'
 <2>1. ASSUME NEW x, x.seq \in Nat, x.seq # Settled + 1,
              EventOf(x) \in InRing \/ \A y \in InRing : x.seq < y.seq
       PROVE  EventOf(x) \in InRing' \/ \A y \in InRing' : x.seq < y.seq
  <3>1. EventOf(x).seq = x.seq BY DEF EventOf
  <3>2. CASE EventOf(x) \in InRing BY <1>2, <1>4, <2>1, <3>1, <3>2
  <3>3. CASE \A y \in InRing : x.seq < y.seq BY <1>2, <3>3
  <3> QED BY <2>1, <3>2, <3>3
 <2>2. \A l \in Lines : EventOf(l) \in InRing' \/ \A y \in InRing' : l.seq < y.seq
  <3>1. \A l \in Lines : l.seq # Settled + 1 BY <1>1, <1>3
  <3> QED BY <1>0, <1>3, <2>1, <3>1 DEF Mirrored
 <2>3. \A u \in Queued' : EventOf(u) \in InRing' \/ \A y \in InRing' : u.seq < y.seq
  <3>1. \A u \in Queued' : u.seq \in Nat /\ u.seq # Settled + 1 BY <1>0, <1>1, QueuedTasks
  <3> QED BY <1>0, <1>1, <2>1, <3>1 DEF Mirrored
 <2> QED BY <1>1, <2>2, <2>3 DEF Mirrored, EventOf
<1> QED BY <1>6, <1>7, <1>8, <1>9, <1>10 DEF ReplayInv

\* The memory is gone; at most one line more is on disk.
LEMMA CrashReplays ==
  ASSUME IInv, ReplayInv, Crash
  PROVE  ReplayInv'
<1>0. /\ Types /\ QueueNext
      /\ RingTypes /\ Named /\ WrittenUpTo /\ RingWritten /\ Kept /\ Mirrored BY DEF IInv, ReplayInv
<1>1. /\ up /\ up' = FALSE /\ ring' = <<>> /\ queue' = <<>> /\ step' = "start"
      /\ UNCHANGED <<lastSeq, writtenSeq, firstSeq, oldFile, issued, acked>>
      /\ \/ file' = file
         \/ AtWrite /\ \E form \in {"torn", "whole"} : file' = Written(file, Head(queue), form) BY DEF Crash
<1>2. ring' \in Seq(Event) /\ Len(ring') = 0 /\ Len(queue') = 0 BY <1>1, EmptySeq
<1>3. InRing' = {} /\ Queued' = {} BY <1>2 DEF InRing, Queued
<1>4. Lines \subseteq Lines' /\ \A l \in Lines' : l \in Lines \/ \A e \in acked : e.seq < l.seq
 <2>1. CASE file' = file BY <1>1, <2>1 DEF Lines
 <2>2. ASSUME AtWrite, NEW form \in {"torn", "whole"}, file' = Written(file, Head(queue), form)
       PROVE  Lines \subseteq Lines' /\ \A l \in Lines' : l \in Lines \/ \A e \in acked : e.seq < l.seq
  <3>1. Lines' = Lines \cup {[seq |-> Head(queue).seq, id |-> Head(queue).id, form |-> form]} BY <1>1, <2>2, LineJoins
  <3>2. queue # <<>> /\ step # "meta" BY <2>2 DEF AtWrite
  <3>3. Head(queue).seq = Settled + 1 /\ Settled \in Nat BY <1>0, <3>2, QueuedTasks
  <3>4. \A e \in acked : e.seq \in Nat /\ e.seq <= writtenSeq BY <1>0, <1>1 DEF WrittenUpTo, Types, Event
  <3>5. writtenSeq \in Nat /\ writtenSeq <= Settled BY <1>0, <1>1, <3>2 DEF WrittenUpTo, RingTypes
  <3>6. \A e \in acked : e.seq < Head(queue).seq BY <3>3, <3>4, <3>5
  <3> QED BY <3>1, <3>6
 <2> QED BY <1>1, <2>1, <2>2
<1>5. RingTypes' /\ Named' /\ WrittenUpTo' /\ RingWritten'
 <2>1. \A i \in 1..Len(ring') : FALSE BY <1>2
 <2>2. RingTypes' BY <1>0, <1>1, <1>2, <2>1 DEF RingTypes
 <2>3. Named' /\ WrittenUpTo' /\ RingWritten' BY <1>1, <1>3 DEF Named, WrittenUpTo, RingWritten
 <2> QED BY <2>2, <2>3
<1>6. Kept'
 <2>1. \A e \in acked : LineWritten(e) \/ Dropped(e) BY <1>0 DEF Kept
 <2>2. \A e : LineWritten(e) => LineWritten(e)' BY <1>4 DEF LineWritten
 <2>3. \A e \in acked : Dropped(e) => Dropped(e)' BY <1>1, <1>4 DEF Dropped
 <2> QED BY <1>1, <1>3, <2>1, <2>2, <2>3 DEF Kept
<1>7. Mirrored' BY <1>3 DEF Mirrored
<1> QED BY <1>5, <1>6, <1>7 DEF ReplayInv

\* An open starts with an empty ring, behind everything on disk.
LEMMA OpenReplays ==
  ASSUME IInv, ReplayInv, Open
  PROVE  ReplayInv'
<1> DEFINE last == IF OnDisk > meta.lastSeq THEN OnDisk ELSE meta.lastSeq
           g == Complete(file)
<1>0. /\ Types /\ QueueNext /\ Clean /\ Recoverable
      /\ RingTypes /\ Named /\ WrittenUpTo /\ RingWritten /\ Kept /\ Mirrored BY DEF IInv, ReplayInv
<1>1. /\ ~up /\ up' = TRUE /\ file' = g /\ lastSeq' = last /\ writtenSeq' = last
      /\ firstSeq' = FirstSeqOf(oldFile, FirstSeqOf(file, last + 1))
      /\ UNCHANGED <<ring, queue, step, oldFile, issued, acked>> BY DEF Open, Repaired
<1>2. ring = <<>> /\ queue = <<>> /\ step = "start" /\ Len(ring) = 0 /\ Len(queue) = 0
 <2>1. ring = <<>> /\ queue = <<>> /\ step = "start" BY <1>0, <1>1 DEF RingTypes, QueueNext
 <2> QED BY <2>1, EmptySeq
<1>3. InRing' = {} /\ Queued' = {} BY <1>1, <1>2 DEF InRing, Queued
<1>4. last \in Nat /\ OnDisk <= last /\ meta.lastSeq <= last /\ OnDisk \in Nat /\ meta.lastSeq \in Nat
  BY <1>0, OnDiskType DEF Types
<1>5. /\ g \in Seq(Line) /\ Len(g) \in Nat
      /\ \A i \in 1..Len(g) : g[i].form = "whole" /\ g[i].seq \in Nat /\ g[i].seq <= OnDisk
      /\ \A i \in 1..Len(oldFile) : oldFile[i].form = "whole" /\ oldFile[i].seq \in Nat /\ oldFile[i].seq <= OnDisk
      /\ oldFile \in Seq(Line) /\ Len(oldFile) \in Nat
 <2>1. /\ g \in Seq(Line) /\ Len(g) \in Nat
       /\ \A i \in 1..Len(g) : g[i].form = "whole" /\ g[i].seq <= OnDisk
       /\ \A i \in 1..Len(oldFile) : oldFile[i].seq <= OnDisk BY OpenedFile
 <2> HIDE DEF g
 <2>2. \A i \in 1..Len(g) : g[i].seq \in Nat BY <2>1, LinesOf
 <2>3. /\ oldFile \in Seq(Line) /\ Len(oldFile) \in Nat
       /\ \A i \in 1..Len(oldFile) : oldFile[i].seq \in Nat /\ oldFile[i].form = "whole"
   BY <1>0, LinesOf DEF Types, Clean
 <2> QED BY <2>1, <2>2, <2>3
<1>6. Lines' \subseteq Lines /\ \A l \in Lines : l.form = "whole" => l \in Lines' BY <1>1, LinesReopened
<1>7. Lines' = {g[i] : i \in 1..Len(g)} \cup {oldFile[i] : i \in 1..Len(oldFile)} BY <1>1 DEF Lines
\* Where the files begin.
<1>8. firstSeq' = IF Len(oldFile) # 0 THEN oldFile[1].seq ELSE IF Len(g) # 0 THEN g[1].seq ELSE last + 1
 <2>1. Complete(g) = g
  <3>1. Len(g) > 0 => g[Len(g)].form # "torn"
   <4> DEFINE m == Len(g)
   <4>1. m \in Nat /\ \A i \in 1..m : g[i].form = "whole" BY <1>5
   <4> HIDE DEF m, g
   <4>2. m > 0 => m \in 1..m BY <4>1
   <4> QED BY <4>1, <4>2 DEF m
  <3> HIDE DEF g
  <3> QED BY <3>1 DEF Complete
 <2>2. FirstSeqOf(file, last + 1) = FirstSeqOf(g, last + 1) BY <2>1 DEF FirstSeqOf
 <2> HIDE DEF g
 <2>3. FirstSeqOf(g, last + 1) = IF Len(g) = 0 THEN last + 1 ELSE g[1].seq BY <1>5, FirstLine
 <2> HIDE DEF last
 <2>4. \A d : FirstSeqOf(oldFile, d) = IF Len(oldFile) = 0 THEN d ELSE oldFile[1].seq BY <1>5, FirstLine
 <2> QED BY <1>1, <2>2, <2>3, <2>4
<1> HIDE DEF g, last
<1>9. /\ Len(oldFile) # 0 => 1 \in 1..Len(oldFile) /\ oldFile[1] \in Lines'
      /\ Len(g) # 0 => 1 \in 1..Len(g) /\ g[1] \in Lines' BY <1>5, <1>7
<1>10. firstSeq' \in Nat BY <1>4, <1>5, <1>8, <1>9
<1>11. \A e \in acked : e.seq \in Nat /\ e.seq <= last
 <2>1. \A e \in acked : e.seq \in Nat BY <1>0 DEF Types, Event
 <2> QED BY <1>0, <1>4, <2>1 DEF Recoverable
<1>12. RingTypes' /\ Named' /\ RingWritten' /\ Mirrored'
 <2>1. \A i \in 1..Len(ring') : FALSE BY <1>1, <1>2
 <2>2. RingTypes' BY <1>0, <1>1, <1>2, <1>4, <1>10, <2>1 DEF RingTypes
 <2>3. Named' /\ RingWritten' BY <1>3 DEF Named, RingWritten
 <2>4. Mirrored' BY <1>3 DEF Mirrored
 <2> QED BY <2>2, <2>3, <2>4
<1>13. WrittenUpTo'
 <2>1. Settled' = last BY <1>1, <1>2, <1>4 DEF Settled
 <2>2. \A l \in Lines' : l.seq <= last BY <1>4, <1>5, <1>7
 <2> QED BY <1>1, <1>2, <1>4, <1>11, <2>1, <2>2 DEF WrittenUpTo
<1>14. Kept'
 <2>1. \A e : LineWritten(e) => LineWritten(e)' BY <1>6 DEF LineWritten
 <2>2. ASSUME NEW e \in acked, Dropped(e) PROVE Dropped(e)'
  <3>1. \A l \in Lines' : e.seq < l.seq BY <1>6, <2>2 DEF Dropped
  <3>2. e.seq < firstSeq'
   <4>1. e.seq < last + 1 BY <1>4, <1>11
   <4> QED BY <1>8, <1>9, <3>1, <4>1
  <3> QED BY <3>1, <3>2 DEF Dropped
 <2> QED BY <1>0, <1>1, <1>3, <2>1, <2>2 DEF Kept
<1> QED BY <1>12, <1>13, <1>14 DEF ReplayInv

LEMMA ReplayStep ==
  ASSUME Whole, IInv, ReplayInv, [LogNext]_logVars
  PROVE  ReplayInv'
<1>0. /\ Types /\ QueueNext
      /\ RingTypes /\ Named /\ WrittenUpTo /\ RingWritten /\ Kept /\ Mirrored BY DEF IInv, ReplayInv
<1>1. CASE \E sync \in BOOLEAN : AppendEvent(sync) BY <1>1, AppendReplays
<1>2. CASE Rotate BY <1>2, RotateReplays
<1>3. CASE RotateMeta \/ Done \/ UNCHANGED logVars
 <2>1. /\ UNCHANGED <<up, lastSeq, writtenSeq, firstSeq, ring, queue, file, oldFile, issued, acked>>
       /\ step' = step \/ (step = "rotated" /\ step' = "write")
   BY <1>3 DEF RotateMeta, Done, logVars, memVars, diskVars
 <2>2. InRing' = InRing /\ Lines' = Lines /\ Queued' = Queued /\ Settled' = Settled
   BY <2>1 DEF InRing, Lines, Queued, Settled
 <2>3. \A e : (LineWritten(e)' <=> LineWritten(e)) /\ (Dropped(e)' <=> Dropped(e))
   BY <2>1, <2>2 DEF LineWritten, Dropped
 <2>4. RingTypes' /\ Named' /\ RingWritten' BY <1>0, <2>1, <2>2 DEF RingTypes, Named, RingWritten
 <2>5. WrittenUpTo' BY <1>0, <2>1, <2>2 DEF WrittenUpTo, LineWritten, EventOf
 <2>6. Kept' BY <1>0, <2>1, <2>2, <2>3 DEF Kept
 <2>7. Mirrored' BY <1>0, <2>2 DEF Mirrored, EventOf
 <2> QED BY <2>4, <2>5, <2>6, <2>7 DEF ReplayInv
<1>4. CASE Write BY <1>4, WriteReplays
<1>5. CASE SyncMeta
 <2>1. /\ up /\ step = "meta" /\ NextTask /\ Ack(Head(queue))
       /\ UNCHANGED <<up, lastSeq, writtenSeq, firstSeq, ring, file, oldFile, issued>> BY <1>5 DEF SyncMeta
 <2>2. queue # <<>> BY <1>0, <2>1 DEF QueueNext
 <2> QED BY <2>1, <2>2, MetaEndReplays
<1>6. CASE Fault
 <2>1. /\ NextTask /\ UNCHANGED <<up, lastSeq, writtenSeq, firstSeq, file, oldFile, issued, acked>>
       /\ \/ (AtWrite \/ (up /\ step = "rotated")) /\ ring' = Forget(Head(queue))
          \/ up /\ step = "meta" /\ ring' = ring BY <1>6 DEF Fault, Whole
 <2>2. up /\ queue # <<>> /\ (step = "meta" => ~AtWrite) BY <1>0, <2>1 DEF QueueNext, AtWrite
 <2>3. CASE up /\ step = "meta" /\ ring' = ring BY <2>1, <2>2, <2>3, MetaEndReplays
 <2>4. CASE (AtWrite \/ (up /\ step = "rotated")) /\ ring' = Forget(Head(queue))
   BY <2>1, <2>2, <2>4, CleanFaultReplays
 <2> QED BY <2>1, <2>3, <2>4
<1>7. CASE Crash BY <1>7, CrashReplays
<1>8. CASE Open BY <1>8, OpenReplays
<1> QED BY <1>1, <1>2, <1>3, <1>4, <1>5, <1>6, <1>7, <1>8 DEF LogNext


\* The two files as one list.
LEMMA BothFiles ==
  ASSUME Types, Increasing
  PROVE  LET all == oldFile \o file IN
         /\ all \in Seq(Line)
         /\ \A i, j \in 1..Len(all) : i < j => all[i].seq < all[j].seq
         /\ \A x : (\E i \in 1..Len(all) : all[i] = x) <=> x \in Lines
<1> DEFINE n == Len(oldFile)
           m == Len(file)
           all == oldFile \o file
<1>1. oldFile \in Seq(Line) /\ file \in Seq(Line) /\ n \in Nat /\ m \in Nat BY LinesOf DEF Types
<1>2. all \in Seq(Line) /\ Len(all) = n + m /\ \A i \in 1..(n + m) : all[i] = IF i <= n THEN oldFile[i] ELSE file[i - n]
  BY <1>1, ConcatProperties
<1>3. /\ \A i, j \in 1..n : i < j => oldFile[i].seq < oldFile[j].seq
      /\ \A i, j \in 1..m : i < j => file[i].seq < file[j].seq
      /\ \A i \in 1..n, j \in 1..m : oldFile[i].seq < file[j].seq BY DEF Increasing
<1>4. \A x : x \in Lines <=> (\E i \in 1..n : oldFile[i] = x) \/ (\E j \in 1..m : file[j] = x) BY DEF Lines
<1> HIDE DEF n, m, all
<1>5. \A i \in 1..(n + m) : \/ i \in 1..n /\ all[i] = oldFile[i]
                            \/ i > n /\ i - n \in 1..m /\ all[i] = file[i - n]
 <2>1. \A i \in 1..(n + m) : (i <= n /\ i \in 1..n) \/ (~(i <= n) /\ i > n /\ i - n \in 1..m) BY <1>1
 <2> QED BY <1>2, <2>1
<1>6. \A i \in 1..n : i \in 1..(n + m) /\ all[i] = oldFile[i]
 <2>1. \A i \in 1..n : i \in 1..(n + m) /\ i <= n BY <1>1
 <2> QED BY <1>2, <2>1
<1>7. \A j \in 1..m : j + n \in 1..(n + m) /\ all[j + n] = file[j]
 <2>1. \A j \in 1..m : j + n \in 1..(n + m) /\ ~(j + n <= n) /\ j + n - n = j BY <1>1
 <2>2. ASSUME NEW j \in 1..m PROVE all[j + n] = file[j]
  <3> DEFINE k == j + n
  <3>1. k \in 1..(n + m) /\ ~(k <= n) /\ k - n = j BY <1>1
  <3> HIDE DEF k
  <3>2. all[k] = file[k - n] BY <1>2, <3>1
  <3> QED BY <3>1, <3>2 DEF k
 <2> QED BY <2>1, <2>2
<1>8. ASSUME NEW i \in 1..(n + m), NEW j \in 1..(n + m), i < j PROVE all[i].seq < all[j].seq
 <2>1. i > n => j > n /\ i - n < j - n BY <1>1, <1>8
 <2>2. j \in 1..n => ~(j > n) BY <1>1
 <2>3. CASE i \in 1..n /\ all[i] = oldFile[i] BY <1>3, <1>5, <1>8, <2>3
 <2>4. CASE i > n /\ i - n \in 1..m /\ all[i] = file[i - n]
  <3>1. j - n \in 1..m /\ all[j] = file[j - n] BY <1>5, <2>1, <2>2, <2>4
  <3> QED BY <1>3, <2>1, <2>4, <3>1
 <2> QED BY <1>5, <2>3, <2>4
<1>9. \A x : (\E i \in 1..(n + m) : all[i] = x) <=> x \in Lines BY <1>4, <1>5, <1>6, <1>7
<1> QED BY <1>2, <1>8, <1>9 DEF all

\* What replay reads from the files, in the order of the seqs.
LEMMA StreamedEvents ==
  ASSUME Types, Increasing, NEW after
  PROVE  /\ Streamed(after) \in Seq(Event)
         /\ \A i, j \in 1..Len(Streamed(after)) : i < j => Streamed(after)[i].seq < Streamed(after)[j].seq
         /\ \A x : (\E k \in 1..Len(Streamed(after)) : Streamed(after)[k] = x)
                   <=> \E l \in Lines : /\ l.form = "whole" /\ EventOf(l) = x
                                        /\ l.seq > after /\ l.seq <= writtenSeq
<1> DEFINE all == oldFile \o file
           I == {i \in 1..Len(all) : all[i].form = "whole" /\ all[i].seq > after /\ all[i].seq <= writtenSeq}
           r == Sublist(all, I)
           str == Events(r)
<1>1. /\ all \in Seq(Line)
      /\ \A i, j \in 1..Len(all) : i < j => all[i].seq < all[j].seq
      /\ \A x : (\E i \in 1..Len(all) : all[i] = x) <=> x \in Lines BY BothFiles
<1>2. Streamed(after) = str
 <2>1. DOMAIN all = 1..Len(all) BY <1>1, LenProperties
 <2> QED BY <2>1 DEF Streamed
<1>3. I \in SUBSET (1..Len(all)) OBVIOUS
<1>4. \A x : (\E i \in I : all[i] = x) <=> /\ \E i \in 1..Len(all) : all[i] = x
                                           /\ x.form = "whole" /\ x.seq > after /\ x.seq <= writtenSeq OBVIOUS
<1>5. \A x \in Line : x.seq \in Nat BY DEF Line
<1> HIDE DEF all
<1>a. /\ all \in Seq(Line) /\ \A i, j \in 1..Len(all) : i < j => all[i].seq < all[j].seq BY <1>1
<1> HIDE DEF I
<1>6. /\ r \in Seq(Line)
      /\ \A i, j \in 1..Len(r) : i < j => r[i].seq < r[j].seq
      /\ \A x : (\E k \in 1..Len(r) : r[k] = x) <=> (\E i \in I : all[i] = x) BY <1>a, <1>3, <1>5, OrderedPart
<1> HIDE DEF r
<1>7. Len(r) \in Nat /\ DOMAIN r = 1..Len(r) /\ \A k \in 1..Len(r) : r[k] \in Line
  BY <1>6, LenProperties, ElementOfSeq
<1>8. \A l \in Line : EventOf(l) \in Event /\ EventOf(l).seq = l.seq BY DEF Line, Event, EventOf
<1>9. str = [k \in 1..Len(r) |-> EventOf(r[k])] BY <1>7 DEF Events
<1>10. str \in Seq(Event) /\ Len(str) = Len(r) /\ \A k \in 1..Len(r) : str[k] = EventOf(r[k])
 <2>1. \A k \in 1..Len(r) : EventOf(r[k]) \in Event BY <1>7, <1>8
 <2>2. str \in [1..Len(r) -> Event] /\ Len(r) \in Nat BY <1>7, <1>9, <2>1
 <2> HIDE DEF str
 <2>3. str \in Seq(Event) BY <2>2, SeqDef
 <2>4. DOMAIN str = 1..Len(r) /\ \A k \in 1..Len(r) : str[k] = EventOf(r[k]) BY <1>9
 <2>5. Len(str) = Len(r) BY <2>2, <2>3, <2>4, LenProperties
 <2> QED BY <2>3, <2>4, <2>5
<1> HIDE DEF str
<1>11. \A i, j \in 1..Len(str) : i < j => str[i].seq < str[j].seq
 <2>1. \A k \in 1..Len(r) : str[k].seq = r[k].seq BY <1>7, <1>8, <1>10
 <2> QED BY <1>6, <1>10, <2>1
<1>12. \A l : (\E k \in 1..Len(r) : r[k] = l) <=> /\ l \in Lines /\ l.form = "whole"
                                                  /\ l.seq > after /\ l.seq <= writtenSeq BY <1>1, <1>4, <1>6
<1>13. \A x : (\E k \in 1..Len(str) : str[k] = x)
              <=> \E l \in Lines : /\ l.form = "whole" /\ EventOf(l) = x
                                   /\ l.seq > after /\ l.seq <= writtenSeq BY <1>10, <1>12
<1> QED BY <1>2, <1>10, <1>11, <1>13

\* #snapshot's ring and what of it is newer than the client's last event.
LEMMA SnapRingEvents ==
  ASSUME RingTypes
  PROVE  /\ SnapRing \in Seq(Event)
         /\ \A i, j \in 1..Len(SnapRing) : i < j => SnapRing[i].seq < SnapRing[j].seq
         /\ \A x : (\E k \in 1..Len(SnapRing) : SnapRing[k] = x)
                   <=> x \in InRing /\ x.seq >= firstSeq /\ x.seq <= writtenSeq
<1> DEFINE I == {i \in 1..Len(ring) : ring[i].seq >= firstSeq /\ ring[i].seq <= writtenSeq}
<1>1. /\ \A x \in Event : x.seq \in Nat
      /\ ring \in Seq(Event) /\ I \in SUBSET (1..Len(ring))
      /\ \A i, j \in 1..Len(ring) : i < j => ring[i].seq < ring[j].seq BY DEF RingTypes, Event
<1>2. SnapRing = Sublist(ring, I)
 <2>1. DOMAIN ring = 1..Len(ring) BY <1>1, LenProperties
 <2> QED BY <2>1 DEF SnapRing
<1>3. \A x : (\E i \in I : ring[i] = x) <=> x \in InRing /\ x.seq >= firstSeq /\ x.seq <= writtenSeq BY DEF InRing
<1> HIDE DEF I
<1>4. LET p == Sublist(ring, I) IN
      /\ p \in Seq(Event)
      /\ \A i, j \in 1..Len(p) : i < j => p[i].seq < p[j].seq
      /\ \A x : (\E k \in 1..Len(p) : p[k] = x) <=> (\E i \in I : ring[i] = x) BY <1>1, OrderedPart
<1> QED BY <1>2, <1>3, <1>4

LEMMA NewerEvents ==
  ASSUME NEW snap \in Seq(Event), NEW after,
         \A i, j \in 1..Len(snap) : i < j => snap[i].seq < snap[j].seq
  PROVE  /\ Newer(snap, after) \in Seq(Event)
         /\ \A i, j \in 1..Len(Newer(snap, after)) : i < j => Newer(snap, after)[i].seq < Newer(snap, after)[j].seq
         /\ \A x : (\E k \in 1..Len(Newer(snap, after)) : Newer(snap, after)[k] = x)
                   <=> (\E k \in 1..Len(snap) : snap[k] = x) /\ x.seq > after
<1> DEFINE I == {i \in 1..Len(snap) : snap[i].seq > after}
<1>1. \A x \in Event : x.seq \in Nat BY DEF Event
<1>2. Newer(snap, after) = Sublist(snap, I)
 <2>1. DOMAIN snap = 1..Len(snap) BY LenProperties
 <2> QED BY <2>1 DEF Newer
<1>3. I \in SUBSET (1..Len(snap)) OBVIOUS
<1>4. \A x : (\E i \in I : snap[i] = x) <=> (\E k \in 1..Len(snap) : snap[k] = x) /\ x.seq > after OBVIOUS
<1> HIDE DEF I
<1>5. LET p == Sublist(snap, I) IN
      /\ p \in Seq(Event)
      /\ \A i, j \in 1..Len(p) : i < j => p[i].seq < p[j].seq
      /\ \A x : (\E k \in 1..Len(p) : p[k] = x) <=> (\E i \in I : snap[i] = x) BY <1>1, <1>3, OrderedPart
<1> QED BY <1>2, <1>4, <1>5

\* Where the ring goes back far enough, it holds what the files hold.
LEMMA RingServesFiles ==
  ASSUME IInv, ReplayInv, up, step = "start", NEW after \in Nat, RingCovers(after)
  PROVE  Newer(SnapRing, after) = Streamed(after)
<1> DEFINE snap == SnapRing
           served == Newer(snap, after)
           read == Streamed(after)
<1>1. /\ Types /\ Increasing /\ RingTypes /\ Kept /\ Mirrored
      /\ writtenSeq \in Nat /\ firstSeq \in Nat BY DEF IInv, ReplayInv, RingTypes
<1>2. /\ snap \in Seq(Event)
      /\ \A i, j \in 1..Len(snap) : i < j => snap[i].seq < snap[j].seq
      /\ \A x : (\E k \in 1..Len(snap) : snap[k] = x) <=> x \in InRing /\ x.seq >= firstSeq /\ x.seq <= writtenSeq
  BY <1>1, SnapRingEvents
<1>3. snap[1] \in InRing /\ snap[1].seq >= firstSeq /\ snap[1].seq <= after + 1
 <2>1. snap # <<>> /\ snap[1].seq <= after + 1 BY DEF RingCovers
 <2>2. 1 \in 1..Len(snap)
  <3>1. Len(snap) \in Nat /\ Len(snap) # 0 BY <1>2, <2>1, EmptySeq
  <3> DEFINE n == Len(snap)
  <3>2. n \in Nat /\ n # 0 BY <3>1
  <3> HIDE DEF n
  <3>3. 1 \in 1..n BY <3>2
  <3> QED BY <3>3 DEF n
 <2> QED BY <1>2, <2>1, <2>2
<1> HIDE DEF snap
<1>4. /\ served \in Seq(Event)
      /\ \A i, j \in 1..Len(served) : i < j => served[i].seq < served[j].seq
      /\ \A x : (\E k \in 1..Len(served) : served[k] = x) <=> (\E k \in 1..Len(snap) : snap[k] = x) /\ x.seq > after
  BY <1>2, NewerEvents
<1>5. /\ read \in Seq(Event)
      /\ \A i, j \in 1..Len(read) : i < j => read[i].seq < read[j].seq
      /\ \A x : (\E k \in 1..Len(read) : read[k] = x)
                <=> \E l \in Lines : /\ l.form = "whole" /\ EventOf(l) = x
                                     /\ l.seq > after /\ l.seq <= writtenSeq BY <1>1, StreamedEvents
<1> HIDE DEF served, read
<1>6. \A e \in InRing : e.seq \in Nat BY <1>1, RingEvents
<1>7. \A l \in Lines : l.seq \in Nat /\ EventOf(l).seq = l.seq
 <2>1. \A l \in Lines : l.seq \in Nat BY <1>1, LinesType
 <2> QED BY <2>1 DEF EventOf
\* A written event of the ring is on file.
<1>8. ASSUME NEW x \in InRing, x.seq >= firstSeq, x.seq <= writtenSeq, x.seq > after
      PROVE  \E l \in Lines : /\ l.form = "whole" /\ EventOf(l) = x
                              /\ l.seq > after /\ l.seq <= writtenSeq
 <2>1. LineWritten(x) \/ Dropped(x) BY <1>1, <1>8 DEF Kept
 <2>2. ~Dropped(x)
  <3>1. ~(x.seq < firstSeq) BY <1>1, <1>6, <1>8
  <3> QED BY <3>1 DEF Dropped
 <2>3. PICK l \in Lines : l.form = "whole" /\ EventOf(l) = x BY <2>1, <2>2 DEF LineWritten
 <2>4. l.seq = x.seq BY <1>7, <2>3
 <2> QED BY <1>8, <2>3, <2>4
\* A line that the client is behind of is in the ring.
<1>9. ASSUME NEW l \in Lines, l.seq > after, l.seq <= writtenSeq
      PROVE  EventOf(l) \in InRing /\ EventOf(l).seq >= firstSeq /\ EventOf(l).seq <= writtenSeq /\ EventOf(l).seq > after
 <2>1. l.seq \in Nat /\ EventOf(l).seq = l.seq /\ snap[1].seq \in Nat BY <1>3, <1>6, <1>7
 <2>2. ~(l.seq < snap[1].seq) /\ l.seq >= firstSeq BY <1>1, <1>3, <1>9, <2>1
 <2>3. EventOf(l) \in InRing BY <1>1, <1>3, <2>2 DEF Mirrored
 <2> QED BY <1>9, <2>1, <2>2, <2>3
<1>10. \A x : (\E k \in 1..Len(served) : served[k] = x) <=> (\E k \in 1..Len(read) : read[k] = x)
 <2>1. \A x : (\E k \in 1..Len(served) : served[k] = x)
              <=> x \in InRing /\ x.seq >= firstSeq /\ x.seq <= writtenSeq /\ x.seq > after BY <1>2, <1>4
 <2>2. \A x : (\E k \in 1..Len(read) : read[k] = x) => x \in InRing /\ x.seq >= firstSeq /\ x.seq <= writtenSeq /\ x.seq > after
   BY <1>5, <1>9
 <2>3. \A x : x \in InRing /\ x.seq >= firstSeq /\ x.seq <= writtenSeq /\ x.seq > after => \E k \in 1..Len(read) : read[k] = x
   BY <1>5, <1>8
 <2> QED BY <2>1, <2>2, <2>3
<1>11. served = read
 <2>1. served \in Seq(Event) /\ read \in Seq(Event) BY <1>4, <1>5
 <2>2. \A i, j \in 1..Len(served) : i < j => served[i].seq < served[j].seq BY <1>4
 <2>3. \A i, j \in 1..Len(read) : i < j => read[i].seq < read[j].seq BY <1>5
 <2>4. \A x \in Event : (\E k \in 1..Len(served) : served[k] = x) <=> (\E k \in 1..Len(read) : read[k] = x) BY <1>10
 <2> QED BY <2>1, <2>2, <2>3, <2>4, SameOrderedList
<1> QED BY <1>11 DEF served, read, snap

LEMMA RingIsMirror == IInv /\ ReplayInv => RingMirrorsFiles
<1> SUFFICES ASSUME IInv, ReplayInv, up, step = "start", NEW after \in 0..lastSeq, after < writtenSeq
             PROVE  Replay(after) = Streamed(after) BY DEF RingMirrorsFiles, BetweenTasks
<1>1. after \in Nat /\ writtenSeq \in Nat BY DEF IInv, Types, ReplayInv, RingTypes
<1>2. ~(after >= writtenSeq) BY <1>1
<1>3. CASE RingCovers(after)
 <2>1. Replay(after) = Newer(SnapRing, after) BY <1>2, <1>3 DEF Replay
 <2> QED BY <1>1, <1>3, <2>1, RingServesFiles
<1>4. CASE ~RingCovers(after) BY <1>2, <1>4 DEF Replay
<1> QED BY <1>3, <1>4

LEMMA LossesAreSaid == IInv /\ ReplayInv => NothingLostSilently
<1> SUFFICES ASSUME IInv, ReplayInv, up, step = "start", NEW e \in acked, NEW after \in 0..(e.seq - 1)
             PROVE  \/ \E i \in DOMAIN Replay(after) : Replay(after)[i] = e
                    \/ e.seq < firstSeq /\ ReplayTruncated(after) BY DEF NothingLostSilently, BetweenTasks
<1>1. /\ Types /\ Increasing /\ Kept /\ WrittenUpTo /\ QueueNext /\ RingTypes
      /\ writtenSeq \in Nat /\ firstSeq \in Nat /\ lastSeq \in Nat BY DEF IInv, Types, ReplayInv, RingTypes
<1>2. e.seq \in Nat BY DEF IInv, Types, Event
<1>3. after \in Nat /\ after < e.seq BY <1>2
<1>4. e.seq <= writtenSeq /\ writtenSeq <= Settled /\ Settled <= lastSeq /\ Settled \in Nat
 <2>1. e.seq <= writtenSeq /\ writtenSeq <= Settled BY <1>1 DEF WrittenUpTo
 <2>2. Settled <= lastSeq /\ Settled \in Nat BY <1>1, QueuedTasks
 <2> QED BY <2>1, <2>2
<1>5. after < writtenSeq /\ after \in 0..lastSeq BY <1>1, <1>2, <1>3, <1>4
<1>6. CASE LineWritten(e)
 <2>1. PICK l \in Lines : l.form = "whole" /\ EventOf(l) = e BY <1>6 DEF LineWritten
 <2>2. l.seq = e.seq BY <2>1 DEF EventOf
 <2>3. l.seq > after /\ l.seq <= writtenSeq BY <1>2, <1>3, <1>4, <2>2
 <2>4. Replay(after) = Streamed(after) BY <1>5, RingIsMirror DEF RingMirrorsFiles, BetweenTasks
 <2>5. \E k \in 1..Len(Streamed(after)) : Streamed(after)[k] = e BY <1>1, <2>1, <2>3, StreamedEvents
 <2>6. DOMAIN Streamed(after) = 1..Len(Streamed(after))
  <3>1. Streamed(after) \in Seq(Event) BY <1>1, StreamedEvents
  <3> QED BY <3>1, LenProperties
 <2> QED BY <2>4, <2>5, <2>6
<1>7. CASE Dropped(e)
 <2>1. e.seq < firstSeq BY <1>7 DEF Dropped
 <2>2. after + 1 < firstSeq BY <1>1, <1>2, <1>3, <2>1
 <2> QED BY <1>5, <2>1, <2>2 DEF ReplayTruncated
<1> QED BY <1>1, <1>6, <1>7 DEF Kept

\* Between two tasks of the queue a replay sends the same from the ring as from
\* the files, and every acknowledged event after the client's last one, unless
\* rotation dropped it and the replay says that it is truncated (#snapshot,
\* #streamHandle, #rotate, #remember, #forget, #recover), as long as a failed
\* write leaves nothing of its line.
THEOREM ReplaysAreComplete == ASSUME Whole PROVE LogSpec => []ReplaysHold
<1>1. LogInit => IInv /\ ReplayInv
 <2> SUFFICES ASSUME LogInit PROVE ReplayInv BY InitHolds
 <2>1. /\ up = TRUE /\ step = "start" /\ lastSeq = 0 /\ writtenSeq = 0 /\ firstSeq = 1 /\ issued = 0
       /\ ring = <<>> /\ queue = <<>> /\ file = <<>> /\ oldFile = <<>> /\ acked = {} BY DEF LogInit
 <2>2. Len(ring) = 0 /\ ring \in Seq(Event) BY <2>1, EmptySeq
 <2>3. Len(queue) = 0 /\ Len(file) = 0 /\ Len(oldFile) = 0 BY <2>1, EmptySeq
 <2>4. InRing = {} /\ Queued = {} /\ Lines = {} /\ Settled = 0
  <3>1. InRing = {} /\ Queued = {} /\ Lines = {} BY <2>2, <2>3 DEF InRing, Queued, Lines
  <3>2. lastSeq = 0 /\ Len(queue) = 0 BY <2>1, <2>3
  <3> QED BY <3>1, <3>2 DEF Settled
 <2>5. RingTypes BY <2>1, <2>2 DEF RingTypes
 <2>6. Named /\ WrittenUpTo /\ RingWritten /\ Kept /\ Mirrored
   BY <2>1, <2>4 DEF Named, WrittenUpTo, RingWritten, Kept, Mirrored
 <2> QED BY <2>5, <2>6 DEF ReplayInv
<1>2. IInv /\ ReplayInv /\ [LogNext]_logVars => (IInv /\ ReplayInv)' BY InvStep, ReplayStep
<1>3. IInv /\ ReplayInv => ReplaysHold BY RingIsMirror, LossesAreSaid DEF ReplaysHold
<1> QED BY <1>1, <1>2, <1>3, PTL DEF LogSpec
================================================================================
