------------------------------ MODULE ChildLinks ------------------------------
(***************************************************************************)
(* Which tool call spawned which specialist (session-broker.js).  Nothing  *)
(* in the engine's frames says so before the call completes: the broker    *)
(* guesses by order and description when the child appears, believes a     *)
(* call that names the child it resumes, and corrects a wrong guess, both  *)
(* ways, when the call's completion names its child.  Every correction is  *)
(* sent again to the sockets, which draw the child under the call.         *)
(***************************************************************************)
EXTENDS Naturals, FiniteSets

CONSTANTS Calls, Kids,   \* subagent calls of one session and its specialists
          NoCall, NoKid  \* null

ASSUME LinksAssumption == NoCall \notin Calls /\ NoKid \notin Kids

VARIABLES truth,         \* call -> the child the engine runs for it
          told,          \* calls that name the child they resume
          described,     \* calls whose description is their child's title
          call,          \* conv.subagentCalls
          kid,           \* conv.children
          card,          \* child -> the toolCallId of the last frame sent of it
          callOrder
linkVars == <<truth, told, described, call, kid, card, callOrder>>

NewCall == [st |-> "none", child |-> NoKid, order |-> 0]
NewKid == [there |-> FALSE, link |-> NoCall, status |-> "none"]
LiveCalls(cl) == {c \in Calls : cl[c].st \in {"known", "progress"}}

LinksInit ==
    /\ truth \in [Calls -> Kids] /\ told \in SUBSET Calls /\ described \in SUBSET Calls
    /\ \A c, d \in Calls : c # d /\ truth[c] = truth[d] => c \in told \/ d \in told
    /\ call = [c \in Calls |-> NewCall] /\ kid = [k \in Kids |-> NewKid]
    /\ card = [k \in Kids |-> NoCall] /\ callOrder = 0

-------------------------------------------------------------------------------
\* #linkChild: the call that claims the child, else the oldest free call
\* under way, a matching description first.
Oldest(cl, cs) == CHOOSE c \in cs : \A d \in cs : cl[c].order <= cl[d].order

Guess(cl, k) ==
    LET claimed == {c \in LiveCalls(cl) : cl[c].child = k}
        free == {c \in LiveCalls(cl) : cl[c].st = "progress" /\ cl[c].child = NoKid}
        titled == {c \in free : c \in described /\ truth[c] = k}
    IN  IF claimed # {} THEN Oldest(cl, claimed)
        ELSE IF titled # {} THEN Oldest(cl, titled)
        ELSE IF free # {} THEN Oldest(cl, free) ELSE NoCall

LinkChild(cl, kd, k) ==   \* both tables after the guess
    LET c == Guess(cl, k)
    IN  [call |-> IF c = NoCall THEN cl ELSE [cl EXCEPT ![c].child = k],
         kid |-> [kd EXCEPT ![k].link = c]]

\* #setLink: frees the call the child was guessed onto, guesses again for
\* the child that was guessed onto this call.
FreedNot(cl, c, k) == cl

Freed(cl, c, k) == [d \in Calls |-> IF d # c /\ cl[d].st \in {"known", "progress"} /\ cl[d].child = k
                                    THEN [cl[d] EXCEPT !.child = NoKid] ELSE cl[d]]

DisplacedKids(c, k) == {d \in Kids : call[c].child = d /\ d # k /\ kid[d].there /\ kid[d].link = c}

SetLink(c, k, resume) ==
    LET moved == [Freed(call, c, k) EXCEPT ![c].child = k]
        first == IF call[c].child = k THEN [call |-> call, kid |-> kid]
                 ELSE IF DisplacedKids(c, k) = {} THEN [call |-> moved, kid |-> kid]
                 ELSE LinkChild(moved, kid, call[c].child)
        over == resume /\ kid[k].status \in {"completed", "interrupted", "failed"}
    IN  [call |-> first.call,
         kid |-> IF kid[k].there /\ first.kid[k].link # c
                 THEN [first.kid EXCEPT ![k].link = c, ![k].status = IF over THEN "none" ELSE @]
                 ELSE first.kid]

\* The frames of the children whose link a step changed
Sent(kd) == [k \in Kids |-> IF kd[k].there /\ kd[k].link # kid[k].link THEN kd[k].link ELSE card[k]]

-------------------------------------------------------------------------------
\* #trackSubagentCall
CallAppears(c) ==
    /\ call[c].st = "none"
    /\ call' = [call EXCEPT ![c] = [NewCall EXCEPT !.st = "known", !.order = callOrder]]
    /\ callOrder' = callOrder + 1
    /\ UNCHANGED <<truth, told, described, kid, card>>

InProgress(c) ==
    /\ call[c].st = "known"
    /\ LET marked == [call EXCEPT ![c].st = "progress"]
           linked == SetLink(c, truth[c], TRUE)
       IN  IF c \in told /\ call[c].child = NoKid
           THEN /\ call' = [linked.call EXCEPT ![c].st = "progress"]
                /\ kid' = linked.kid /\ card' = Sent(linked.kid)
           ELSE call' = marked /\ UNCHANGED <<kid, card>>
    /\ UNCHANGED <<truth, told, described, callOrder>>

Completes(c) ==   \* rawOutput names the child, unless the call failed before it had one
    /\ call[c].st = "progress"
    /\ \/ LET linked == SetLink(c, truth[c], FALSE)
          IN  /\ call' = [linked.call EXCEPT ![c].st = "confirmed"]
              /\ kid' = linked.kid /\ card' = Sent(linked.kid)
       \/ call' = [call EXCEPT ![c].st = "failed"] /\ UNCHANGED <<kid, card>>
    /\ UNCHANGED <<truth, told, described, callOrder>>

\* #childFrame: a child's first frame links it, every frame carries the
\* link; its call is under way when the child appears.
ChildFrame(k) ==
    /\ \E c \in Calls : truth[c] = k /\ call[c].st = "progress"
    /\ LET linked == IF kid[k].there THEN [call |-> call, kid |-> kid] ELSE LinkChild(call, kid, k)
       IN  \E status \in {"running", "completed"} :
              /\ call' = linked.call
              /\ kid' = [linked.kid EXCEPT ![k].there = TRUE, ![k].status = status]
              /\ card' = [card EXCEPT ![k] = linked.kid[k].link]
    /\ UNCHANGED <<truth, told, described, callOrder>>

LinksCleared ==   \* the calls and the tree are cleared
    /\ \E c \in Calls : call[c].st # "none"
    /\ call' = [c \in Calls |-> IF call[c].st = "none" THEN NewCall ELSE [NewCall EXCEPT !.st = "over"]]
    /\ kid' = [k \in Kids |-> NewKid]
    /\ UNCHANGED <<truth, told, described, card, callOrder>>

LinksNext == LinksCleared \/ \E c \in Calls : CallAppears(c) \/ InProgress(c) \/ Completes(c)
                 \/ \E k \in Kids : ChildFrame(k)

LinksSpec == LinksInit /\ [][LinksNext]_linkVars

-------------------------------------------------------------------------------
\* The two tables agree with each other and with what the sockets were
\* sent: a live call's child is drawn under that call, no child under two,
\* and a child whose only call has completed is under that call, however
\* wrong the guess was.
LinksAgree ==
    /\ \A k \in Kids : kid[k].there => card[k] = kid[k].link
    /\ \A c \in LiveCalls(call) : LET k == call[c].child IN
          k # NoKid /\ kid[k].there => kid[k].link = c
    /\ \A c \in Calls : LET k == truth[c] IN
          call[c].st = "confirmed" /\ kid[k].there /\ (\A d \in Calls \ {c} : truth[d] # k)
             => kid[k].link = c
================================================================================
