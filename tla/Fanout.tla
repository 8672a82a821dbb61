------------------------------- MODULE Fanout -------------------------------
(***************************************************************************)
(* How the events of one conversation reach the sockets                    *)
(* (runtime/lib/session-broker.js, "logs and fan-out"): the broker's map   *)
(* of open logs with its shared opening and its eviction, the write queue  *)
(* of a log instance, the live fan-out, and the replays that attach starts, *)
(* which hold back live events until they are done (API-06).               *)
(*                                                                         *)
(* The gateway is one event loop.  Promise continuations run to completion *)
(* before the next I/O callback: `ready` holds them, in order, and every   *)
(* action that stands for an I/O callback or a new request waits for it to *)
(* be empty.                                                               *)
(*                                                                         *)
(* An event is its seq: the log assigns 1, 2, ... and its files, rotation  *)
(* and failures are the subject of SessionLog.                             *)
(***************************************************************************)
EXTENDS Integers, Sequences, FiniteSets, Sublists

CONSTANTS
    Ports,       \* sockets
    MaxEvents,   \* bound on engine frames
    MaxRequests, \* bound on the requests of a socket that attach it
    MaxOpens     \* bound on openings of the log

ASSUME FanoutAssumption ==
    MaxEvents \in Nat /\ MaxRequests \in Nat /\ MaxOpens \in Nat

\* The requests that attach a socket.
Ops == Ports \X (1..MaxRequests)
NoOp == <<>>
Frame == <<"frame">>               \* as a caller of #logFor: an engine frame

PortOf(o) == o[1]

VARIABLES
    \* --- disk and log instances
    disk,       \* the seqs of events.ndjson, in file order
    insts,      \* every SessionLog instance that was opened
    cur,        \* logs.get(id): the index of an instance, 0 when there is none
    opening,    \* opening.has(id)
    closing,    \* closing.get(id): the evicted instance being flushed, or 0
    waiters,    \* callers of #logFor that await the opening, in order
    ready,      \* continuations to run before anything else happens
    frames,     \* engine frames so far
    \* --- sockets
    conn,       \* port -> "new" | "attached" | "closed"
    replaying,  \* port -> the replay that holds back its live events, or NoOp
    held,       \* port -> the events held back
    ops,        \* op -> the progress of that attach
    \* --- history
    base,       \* port -> the seq its client had seen when it attached
    got         \* port -> the seqs sent to it, in order

logVars == <<disk, insts, cur, opening, closing, waiters>>
portVars == <<conn, replaying, held, base, got>>
fanoutVars == <<logVars, ready, frames, portVars, ops>>

Callers == Ops \cup {Frame}
Task == [kind : {"write"}, seq : Nat] \cup [kind : {"snap"}, op : Ops]
Instance == [closed : BOOLEAN, lastSeq : Nat, writtenSeq : Nat, queue : Seq(Task)]
OpState ==
    [pc : {"none", "bind", "log", "wait", "snap", "stream", "done"},
     load : BOOLEAN, after : Nat, inst : Nat, until : Nat]

FanoutTypes ==
    /\ disk \in Seq(Nat)
    /\ insts \in Seq(Instance)
    /\ cur \in 0..Len(insts) /\ closing \in 0..Len(insts)
    /\ opening \in BOOLEAN
    /\ waiters \in Seq(Callers)
    /\ ready \in Seq(Callers)
    /\ frames \in 0..MaxEvents
    /\ conn \in [Ports -> {"new", "attached", "closed"}]
    /\ replaying \in [Ports -> Ops \cup {NoOp}]
    /\ held \in [Ports -> Seq(Nat)]
    /\ ops \in [Ops -> OpState]
    /\ base \in [Ports -> Nat]
    /\ got \in [Ports -> Seq(Nat)]

FanoutInit ==
    /\ disk = <<>> /\ insts = <<>> /\ cur = 0
    /\ opening = FALSE /\ closing = 0
    /\ waiters = <<>> /\ ready = <<>> /\ frames = 0
    /\ conn = [p \in Ports |-> "new"]
    /\ replaying = [p \in Ports |-> NoOp]
    /\ held = [p \in Ports |-> <<>>]
    /\ ops = [o \in Ops |-> [pc |-> "none", load |-> FALSE, after |-> 0, inst |-> 0, until |-> 0]]
    /\ base = [p \in Ports |-> 0]
    /\ got = [p \in Ports |-> <<>>]

LastOf(s) == IF s = <<>> THEN 0 ELSE s[Len(s)]
RangeOf(s) == {s[i] : i \in DOMAIN s}
Busy(i) == insts[i].queue # <<>>
Idle == ready = <<>>
Seen(p) == {base[p]} \cup RangeOf(got[p])

-----------------------------------------------------------------------------
\* The map of logs

\* #logFor: the open instance, or a share in the opening.
LogFor(caller) ==
    IF cur # 0
    THEN ready' = Append(ready, caller) /\ UNCHANGED <<waiters, opening>>
    ELSE /\ waiters' = Append(waiters, caller)
         /\ opening' = TRUE
         /\ UNCHANGED ready

\* The opening ends: the first caller to resume sets logs, all go on in order.
\* An evicted instance finishes its writes before the file is opened again.
OpenDone ==
    /\ Idle /\ opening /\ closing = 0
    /\ opening' = FALSE
    /\ insts' = Append(insts, [closed |-> FALSE, lastSeq |-> LastOf(disk),
                               writtenSeq |-> LastOf(disk), queue |-> <<>>])
    /\ cur' = Len(insts) + 1
    /\ ready' = waiters /\ waiters' = <<>>
    /\ UNCHANGED <<disk, closing, frames, portVars, ops>>

\* A slip: neither the queue nor the flush of the old instance is looked at.
EvictNow ==
    /\ Idle /\ cur # 0 /\ Len(insts) < MaxOpens
    /\ insts' = [insts EXCEPT ![cur].closed = TRUE]
    /\ cur' = 0
    /\ UNCHANGED <<disk, opening, closing, waiters, ready, frames, portVars, ops>>

\* #evictLogs, run when some other conversation's log was opened and the map is
\* over its limit.  The conversation is idle: no turn, permission or admission
\* (a conversation in a turn is never evicted: fewer behaviours).
Evict ==
    /\ Idle /\ cur # 0 /\ Len(insts) < MaxOpens
    /\ ~Busy(cur)
    /\ insts' = [insts EXCEPT ![cur].closed = TRUE]
    /\ closing' = cur
    /\ cur' = 0
    /\ UNCHANGED <<disk, opening, waiters, ready, frames, portVars, ops>>

FlushDone ==
    /\ Idle /\ closing # 0 /\ ~Busy(closing)
    /\ closing' = 0
    /\ UNCHANGED <<disk, insts, cur, opening, waiters, ready, frames, portVars, ops>>

-----------------------------------------------------------------------------
\* Recording and fan-out

\* An engine frame (or the echo of a prompt, or a turn end): #record.
EngineFrame ==
    /\ Idle /\ frames < MaxEvents
    /\ frames' = frames + 1
    /\ LogFor(Frame)
    /\ UNCHANGED <<disk, insts, cur, closing, portVars, ops>>

\* append: a closed instance refuses (the frame is lost, and logged as such).
AppendFrame ==
    /\ ~Idle /\ Head(ready) = Frame
    /\ ready' = Tail(ready)
    /\ insts' = IF insts[cur].closed THEN insts
                ELSE LET seq == insts[cur].lastSeq + 1 IN
                     [insts EXCEPT ![cur].lastSeq = seq,
                                   ![cur].queue = Append(@, [kind |-> "write", seq |-> seq])]
    /\ UNCHANGED <<disk, cur, opening, closing, waiters, frames, portVars, ops>>

\* #fanout: a port being replayed this conversation queues the event.
Held(p) == replaying[p] # NoOp

\* A write ends; its append resolves and the event is fanned out, before the
\* next task of the queue can finish any I/O of its own.
WriteDone(i) ==
    /\ Idle /\ Busy(i) /\ Head(insts[i].queue).kind = "write"
    /\ LET seq == Head(insts[i].queue).seq IN
       /\ disk' = Append(disk, seq)
       /\ insts' = [insts EXCEPT ![i].writtenSeq = seq, ![i].queue = Tail(@)]
       /\ held' = [p \in Ports |-> IF conn[p] = "attached" /\ Held(p)
                                   THEN Append(held[p], seq) ELSE held[p]]
       /\ got' = [p \in Ports |-> IF conn[p] = "attached" /\ ~Held(p)
                                  THEN Append(got[p], seq) ELSE got[p]]
    /\ UNCHANGED <<cur, opening, closing, waiters, ready, frames, conn, replaying, base, ops>>

-----------------------------------------------------------------------------
\* Attaching and replays

\* The next request of a port.
NextOp(p, o) ==
    /\ PortOf(o) = p /\ ops[o].pc = "none"
    /\ \A k \in 1..(o[2] - 1) : ops[<<p, k>>].pc # "none"

AttachPort(p, after) ==
    /\ conn[p] # "closed"
    /\ conn' = [conn EXCEPT ![p] = "attached"]
    /\ base' = IF conn[p] = "new" THEN [base EXCEPT ![p] = after] ELSE base

\* _gc/attach with the last seq its client has (or an older one).
Attach(o, after) ==
    LET p == PortOf(o) IN
    /\ Idle /\ NextOp(p, o)
    /\ IF conn[p] = "new" THEN after <= LastOf(disk)
       ELSE \E s \in Seen(p) : after <= s
    /\ AttachPort(p, after)
    /\ ops' = [ops EXCEPT ![o].pc = "log", ![o].after = after]
    /\ LogFor(o)
    /\ UNCHANGED <<disk, insts, cur, closing, frames, replaying, held, got>>

\* session/load: the port is attached, then the conversation is bound to the
\* engine (a round trip unless it is bound), then the whole log is replayed.
Load(o) ==
    LET p == PortOf(o) IN
    /\ Idle /\ NextOp(p, o)
    /\ AttachPort(p, 0)
    /\ ops' = [ops EXCEPT ![o].pc = "bind", ![o].load = TRUE]
    /\ UNCHANGED <<logVars, ready, frames, replaying, held, got>>

LoadBound(o) ==
    /\ Idle /\ ops[o].pc = "bind"
    /\ ops' = [ops EXCEPT ![o].pc = "log"]
    /\ LogFor(o)
    /\ UNCHANGED <<disk, insts, cur, closing, frames, portVars>>

\* session/resume, or a prompt: attached without a replay.
AttachLive(o) ==
    LET p == PortOf(o) IN
    /\ Idle /\ NextOp(p, o)
    /\ AttachPort(p, LastOf(disk))
    /\ ops' = [ops EXCEPT ![o].pc = "done"]
    /\ UNCHANGED <<logVars, ready, frames, replaying, held, got>>

\* A slip: a second replay of the port does not wait for the first.
MayReplayAlways(p) == TRUE

MayReplay(p) == replaying[p] = NoOp

\* #replayTo from its start, or from the end of the replay it waited for: the
\* queue is installed and the snapshot goes into the write queue of the log.
\* The instance is the one #logFor gave, even if it was evicted since.
StartReplay ==
    /\ ~Idle /\ Head(ready) # Frame
    /\ ready' = Tail(ready)
    /\ LET o == Head(ready)
           p == PortOf(o)
           i == IF ops[o].pc = "log" THEN cur ELSE ops[o].inst
       IN IF MayReplay(p)
          THEN /\ replaying' = [replaying EXCEPT ![p] = o]
               /\ held' = [held EXCEPT ![p] = <<>>]
               /\ insts' = [insts EXCEPT ![i].queue = Append(@, [kind |-> "snap", op |-> o])]
               /\ ops' = [ops EXCEPT ![o].pc = "snap", ![o].inst = i]
          ELSE /\ ops' = [ops EXCEPT ![o].pc = "wait", ![o].inst = i]
               /\ UNCHANGED <<replaying, held, insts>>
    /\ UNCHANGED <<disk, cur, opening, closing, waiters, frames, conn, base, got>>

\* #snapshot: the last seq written by this instance.
Until(i) == insts[i].writtenSeq

Snapshot(i) ==
    /\ Idle /\ Busy(i) /\ Head(insts[i].queue).kind = "snap"
    /\ LET o == Head(insts[i].queue).op IN
       ops' = [ops EXCEPT ![o].pc = "stream", ![o].until = Until(i)]
    /\ insts' = [insts EXCEPT ![i].queue = Tail(@)]
    /\ UNCHANGED <<disk, cur, opening, closing, waiters, ready, frames, portVars>>

\* What is left to send: `after` advances with every event sent.
Todo(o) == Sublist(disk, {i \in DOMAIN disk : disk[i] > ops[o].after /\ disk[i] <= ops[o].until})

\* One event of the replay is sent, and its sending awaited.
ReplaySend(o) ==
    LET p == PortOf(o) IN
    /\ Idle /\ ops[o].pc = "stream" /\ Todo(o) # <<>>
    /\ ops' = [ops EXCEPT ![o].after = Head(Todo(o))]
    /\ got' = IF conn[p] = "attached" THEN [got EXCEPT ![p] = Append(@, Head(Todo(o)))] ELSE got
    /\ UNCHANGED <<logVars, ready, frames, conn, replaying, held, base>>

\* A slip: the queue loses the event behind the last one replayed.
NewerSkips(o) ==
    LET queued == held[PortOf(o)] IN
    Sublist(queued, {i \in DOMAIN queued : queued[i] > ops[o].until + 1})

\* The held events the replay did not send.
Newer(o) ==
    LET queued == held[PortOf(o)] IN
    Sublist(queued, {i \in DOMAIN queued : queued[i] > ops[o].until})

\* The replays of the port that wait for this one, in the order they came.
WaitingOps(p) ==
    Sublist([k \in 1..MaxRequests |-> <<p, k>>], {k \in 1..MaxRequests : ops[<<p, k>>].pc = "wait"})

\* The replay is over: its held events follow at once, then whoever waited.
ReplayDone(o) ==
    LET p == PortOf(o) IN
    /\ Idle /\ ops[o].pc = "stream" /\ Todo(o) = <<>>
    /\ replaying' = [replaying EXCEPT ![p] = NoOp]
    /\ held' = [held EXCEPT ![p] = <<>>]
    /\ got' = IF conn[p] = "attached" THEN [got EXCEPT ![p] = @ \o Newer(o)] ELSE got
    /\ ops' = [ops EXCEPT ![o].pc = "done"]
    /\ ready' = ready \o WaitingOps(p)
    /\ UNCHANGED <<logVars, frames, conn, base>>

\* The socket closes: removePort.  Its replays run on to nobody.
ClosePort(p) ==
    /\ Idle /\ conn[p] = "attached"
    /\ conn' = [conn EXCEPT ![p] = "closed"]
    /\ UNCHANGED <<logVars, ready, frames, replaying, held, base, got, ops>>

Done ==
    /\ Idle /\ frames = MaxEvents /\ waiters = <<>> /\ closing = 0
    /\ \A i \in DOMAIN insts : ~Busy(i)
    /\ \A o \in Ops : ops[o].pc \in {"none", "done"}
    /\ UNCHANGED fanoutVars

FanoutNext ==
    \/ OpenDone \/ Evict \/ FlushDone
    \/ EngineFrame \/ AppendFrame
    \/ \E i \in DOMAIN insts : WriteDone(i) \/ Snapshot(i)
    \/ StartReplay
    \/ \E o \in Ops :
         \/ \E after \in 0..MaxEvents : Attach(o, after)
         \/ AttachLive(o) \/ Load(o) \/ LoadBound(o)
         \/ ReplaySend(o) \/ ReplayDone(o)
    \/ \E p \in Ports : ClosePort(p)
    \/ Done

FanoutSpec == FanoutInit /\ [][FanoutNext]_fanoutVars

-----------------------------------------------------------------------------
\* Properties

\* No two log instances hand out the same seq, whatever is evicted, opened and
\* replayed in between ("two writers would hand out the same seqs").
SeqsUnique == \A i \in 1..(Len(disk) - 1) : disk[i] < disk[i + 1]

\* No frame overtakes an event its client lacks: a client that keeps only the
\* seqs newer than all it has seen keeps every event.
InOrder(p) ==
    \A i \in DOMAIN got[p] :
        \E s \in {base[p]} \cup {got[p][j] : j \in 1..(i - 1)} : got[p][i] <= s + 1

\* The socket never used session/load.
NoLoad(p) == \A o \in Ops : PortOf(o) = p => ~ops[o].load

\* API-06 for _gc/attach, however attaches overlap on one socket and whatever
\* is evicted meanwhile: "a client keeping only newer seqs sees every frame
\* once, in order".
AttachedInOrder == \A p \in Ports : NoLoad(p) => InOrder(p)

\* The same with session/load: "sockets attach and load while engine frames
\* stream [...]: every seq exactly once, in order".
LoadedInOrder == \A p \in Ports : InOrder(p)

\* A socket that attached once gets no event twice: what the replay sends is
\* not sent again from the queue of held events.
SentOnce ==
    \A p \in Ports :
        NoLoad(p) /\ (\A k \in 2..MaxRequests : ops[<<p, k>>].pc = "none")
        => \A i, j \in DOMAIN got[p] : i # j => got[p][i] # got[p][j]

\* Both: every frame once, in order.
AttachedOnceInOrder == AttachedInOrder /\ SentOnce

Quiet ==
    /\ Idle /\ waiters = <<>>
    /\ \A i \in DOMAIN insts : ~Busy(i)
    /\ \A o \in Ops : ops[o].pc \in {"none", "done"}

\* When nothing is in flight, every attached client has every event newer than
\* the one it started from: none is left in a held queue or in a closed log.
CaughtUp ==
    Quiet => \A p \in Ports :
        conn[p] = "attached" => \A s \in RangeOf(disk) : s > base[p] => s \in RangeOf(got[p])
=============================================================================
