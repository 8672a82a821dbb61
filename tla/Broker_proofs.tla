---------------------------- MODULE Broker_proofs ----------------------------
(***************************************************************************)
(* Proofs about the session broker, for every value of the constants.      *)
(* Fanout: one conversation's events get the seqs 1, 2, ... whatever is    *)
(* evicted and opened again; a socket that attaches misses no event and    *)
(* gets none before its turn, whatever overlaps. BrokerTurns: type         *)
(* correctness, the safety invariants of turns, cancels and transcripts,   *)
(* the engine calls that are left behind, and that the broker keeps the    *)
(* contract of TurnContract.                                               *)
(***************************************************************************)
EXTENDS BrokerTurns, Fanout, Sublists_proofs, FiniteSetTheorems, SequenceTheorems, TLAPS

\* Fanout
Types ==
    /\ disk \in Seq(Nat) /\ insts \in Seq(Instance)
    /\ cur \in Nat /\ cur <= Len(insts) /\ closing \in Nat /\ closing <= Len(insts)
    /\ opening \in BOOLEAN
    /\ waiters \in Seq(Callers) /\ ready \in Seq(Callers)
    /\ conn \in [Ports -> {"new", "attached", "closed"}]
    /\ replaying \in [Ports -> Ops \cup {NoOp}]
    /\ held \in [Ports -> Seq(Nat)]
    /\ ops \in [Ops -> OpState]
    /\ base \in [Ports -> Nat] /\ got \in [Ports -> Seq(Nat)]

--------------------
\* The log: one instance writes, and numbers what it writes

\* The disk holds the seqs 1, 2, ...
DiskCounts == \A i \in 1..Len(disk) : disk[i] = i

Writes(inst) == {k \in 1..Len(inst.queue) : inst.queue[k].kind = "write"}

\* The writes in the queue of the open instance are the next seqs, in order.
Numbered(inst) ==
    /\ inst.writtenSeq <= inst.lastSeq
    /\ \A k \in Writes(inst) : inst.writtenSeq < inst.queue[k].seq /\ inst.queue[k].seq <= inst.lastSeq
    /\ \A j, k \in Writes(inst) : j < k => inst.queue[j].seq < inst.queue[k].seq
    /\ \A s \in (inst.writtenSeq + 1)..inst.lastSeq : \E k \in Writes(inst) : inst.queue[k].seq = s

\* Only the instance in the map writes; it alone knows the end of the disk.
OneWriter ==
    /\ \A i \in 1..Len(insts) : insts[i].writtenSeq <= Len(disk) /\ (i # cur => Writes(insts[i]) = {})
    /\ cur # 0 => /\ ~insts[cur].closed /\ insts[cur].writtenSeq = Len(disk)
                  /\ Numbered(insts[cur])
    /\ opening \/ waiters # <<>> => cur = 0
    /\ \A k \in 1..Len(ready) : ready[k] = Frame \/ ops[ready[k]].pc = "log" => cur # 0

--------------------
\* The attaches: where each one is, and who holds back the live events

\* An attach is in one place of one list.
Listed ==
    /\ \A k \in 1..Len(ready) : ready[k] # Frame => ops[ready[k]].pc \in {"log", "wait"}
    /\ \A j, k \in 1..Len(ready) : j # k /\ ready[j] # Frame => ready[j] # ready[k]
    /\ \A k \in 1..Len(waiters) : waiters[k] # Frame => ops[waiters[k]].pc = "log"
    /\ \A j, k \in 1..Len(waiters) : j # k /\ waiters[j] # Frame => waiters[j] # waiters[k]
    /\ \A o \in Ops : ops[o].pc = "log" => \/ \E k \in 1..Len(ready) : ready[k] = o
                                           \/ \E k \in 1..Len(waiters) : waiters[k] = o

Snaps(inst) == {k \in 1..Len(inst.queue) : inst.queue[k].kind = "snap"}

\* The snapshots in the queue of instance i are those of replays that wait for
\* it; `at` is the progress of the attaches.
Snapped(inst, i, at) ==
    /\ \A k \in Snaps(inst) : at[inst.queue[k].op].pc = "snap" /\ at[inst.queue[k].op].inst = i
    /\ \A j, k \in Snaps(inst) : j # k => inst.queue[j].op # inst.queue[k].op

Snapping ==
    /\ \A o \in Ops : ops[o].pc \in {"wait", "snap", "stream"} => ops[o].inst \in 1..Len(insts)
    /\ \A i \in 1..Len(insts) : Snapped(insts[i], i, ops)

\* The replay that holds back the events of p is its only one under way.
Holding(p) ==
    /\ replaying[p] # NoOp => PortOf(replaying[p]) = p /\ ops[replaying[p]].pc \in {"snap", "stream"}
    /\ \A o \in Ops : PortOf(o) = p /\ ops[o].pc \in {"snap", "stream"} => replaying[p] = o
    /\ replaying[p] = NoOp => held[p] = <<>>

\* Nothing is known of seqs the disk does not have yet.
Bounded(p) ==
    /\ \A o \in Ops : PortOf(o) = p =>
          /\ ops[o].pc \in {"log", "wait", "snap", "stream"} => ops[o].after <= Len(disk)
          /\ ops[o].pc = "stream" => ops[o].until <= Len(disk)
          /\ ops[o].pc = "bind" => ops[o].after = 0 /\ ops[o].load
    /\ base[p] <= Len(disk)
    /\ \A i \in 1..Len(got[p]) : got[p][i] <= Len(disk)

\* A port that has done nothing, and an attach not yet asked for.
Fresh(p) ==
    /\ conn[p] = "new" => got[p] = <<>> /\ \A o \in Ops : PortOf(o) = p => ops[o].pc = "none"
    /\ conn[p] # "new" => <<p, 1>> \in Ops /\ ops[<<p, 1>>].pc # "none"
    /\ \A o \in Ops : PortOf(o) = p /\ ops[o].pc = "none" => ~ops[o].load /\ ops[o].after = 0

\* The end of the disk when the replay under way began.
Start(p) == Len(disk) - Len(held[p])

\* The events held back are those written since.
HeldCounts(p) ==
    conn[p] = "attached" =>
        /\ Len(held[p]) <= Len(disk)
        /\ \A j \in 1..Len(held[p]) : held[p][j] = Start(p) + j

PortAt(p) == Holding(p) /\ Bounded(p) /\ Fresh(p) /\ HeldCounts(p)

--------------------
\* What a socket has got

\* Who started from b and got the seqs g has seen n or more.
Reaches(b, g, n) == n <= b \/ \E i \in 1..Len(g) : n <= g[i]

Reached(p, n) == Reaches(base[p], got[p], n)

\* What is sent next is never more than one ahead of what the client has seen.
InReach(p) ==
    conn[p] = "attached" /\ NoLoad(p) =>
        /\ \A o \in Ops : PortOf(o) = p =>
              /\ ops[o].pc \in {"log", "wait", "snap", "stream"} => Reached(p, ops[o].after)
              /\ ops[o].pc = "snap" => Reached(p, Start(p)) \/ Start(p) <= insts[ops[o].inst].writtenSeq
              /\ ops[o].pc = "stream" => Reached(p, Start(p)) \/ Start(p) <= ops[o].until
              /\ ops[o].pc = "wait" /\ replaying[p] = NoOp => Reached(p, Len(disk))
        /\ replaying[p] = NoOp /\ (\A o \in Ops : PortOf(o) = p => ops[o].pc # "log") =>
              Reached(p, Len(disk))

\* InOrder, by positions.
Ordered(p) ==
    NoLoad(p) =>
        \A i \in 1..Len(got[p]) : \/ got[p][i] <= base[p] + 1
                                  \/ \E j \in 1..(i - 1) : got[p][i] <= got[p][j] + 1

Single(p) == NoLoad(p) /\ \A k \in 2..MaxRequests : ops[<<p, k>>].pc = "none"

\* A port with one attach gets its events in increasing order.
Increasing(p) ==
    Single(p) =>
        /\ \A i, j \in 1..Len(got[p]) : i < j => got[p][i] < got[p][j]
        /\ conn[p] = "attached" =>
              /\ ops[<<p, 1>>].pc \in {"log", "snap"} => got[p] = <<>>
              /\ ops[<<p, 1>>].pc = "stream" =>
                    \A i \in 1..Len(got[p]) : got[p][i] <= ops[<<p, 1>>].after
                                              /\ got[p][i] <= ops[<<p, 1>>].until
              /\ ops[<<p, 1>>].pc # "wait"

IsHeld(p, s) == \E j \in 1..Len(held[p]) : held[p][j] = s

\* The attach o will send s.
Covers(o, s) ==
    \/ ops[o].pc = "bind"
    \/ ops[o].pc = "log" /\ ops[o].after < s
    \/ ops[o].pc = "wait" /\ ops[o].after < s /\ s <= insts[ops[o].inst].writtenSeq
    \/ /\ ops[o].pc = "snap" /\ ops[o].after < s
       /\ s <= insts[ops[o].inst].writtenSeq \/ IsHeld(PortOf(o), s)
    \/ ops[o].pc = "stream" /\ ops[o].after < s /\ s <= ops[o].until
    \/ ops[o].pc = "stream" /\ ops[o].until < s /\ IsHeld(PortOf(o), s)

\* An event the client lacks is on its way.
OnTheWay(p) ==
    conn[p] = "attached" =>
        \A s \in 1..Len(disk) :
            \/ s <= base[p]
            \/ \E i \in 1..Len(got[p]) : got[p][i] = s
            \/ \E o \in Ops : PortOf(o) = p /\ Covers(o, s)

SentAt(p) == InReach(p) /\ Ordered(p) /\ Increasing(p) /\ OnTheWay(p)

LogInv == Types /\ DiskCounts /\ OneWriter /\ Listed /\ Snapping

FanoutInv == LogInv /\ \A p \in Ports : PortAt(p) /\ SentAt(p)

--------------------
\* Lemmas about queues and instances

LEMMA TaskKinds ==
  /\ \A t \in Task : t.kind \in {"write", "snap"}
  /\ \A t \in Task : t.kind = "write" => t.seq \in Nat
  /\ \A t \in Task : t.kind = "snap" => t.op \in Ops BY DEF Task

LEMMA Requests ==
  /\ \A o \in Ops : o # NoOp /\ o # Frame /\ PortOf(o) \in Ports /\ o[2] \in 1..MaxRequests
                    /\ o = <<PortOf(o), o[2]>>
  /\ \A p \in Ports, k \in 1..MaxRequests : <<p, k>> \in Ops /\ PortOf(<<p, k>>) = p BY DEF Ops, NoOp, Frame, PortOf

\* The parts of an instance, and the changes the actions make to one.
LEMMA InstanceParts ==
  ASSUME NEW inst \in Instance
  PROVE  /\ inst.queue \in Seq(Task) /\ inst.lastSeq \in Nat /\ inst.writtenSeq \in Nat
         /\ inst.closed \in BOOLEAN /\ Len(inst.queue) \in Nat
         /\ \A k \in 1..Len(inst.queue) : inst.queue[k] \in Task
         /\ Writes(inst) \in SUBSET (1..Len(inst.queue)) /\ Snaps(inst) \in SUBSET (1..Len(inst.queue))
<1>1. inst.queue \in Seq(Task) /\ inst.lastSeq \in Nat /\ inst.writtenSeq \in Nat /\ inst.closed \in BOOLEAN
  BY DEF Instance
<1> QED BY <1>1, LenProperties, ElementOfSeq DEF Writes, Snaps

\* A task joins the queue, a caller the list of those to go on.
LEMMA Joined ==
  ASSUME NEW S, NEW q \in Seq(S), NEW t \in S
  PROVE  /\ Append(q, t) \in Seq(S) /\ Len(Append(q, t)) = Len(q) + 1 /\ Len(q) \in Nat
         /\ Append(q, t)[Len(q) + 1] = t
         /\ \A k \in 1..Len(q) : Append(q, t)[k] = q[k]
         /\ \A k \in 1..(Len(q) + 1) : k \in 1..Len(q) \/ k = Len(q) + 1
<1>1. Len(q) \in Nat BY LenProperties
<1> QED BY <1>1, AppendProperties

\* The head of the queue, or of that list, leaves it.
LEMMA Served ==
  ASSUME NEW S, NEW q \in Seq(S), q # <<>>
  PROVE  /\ Head(q) \in S /\ Head(q) = q[1] /\ 1 \in 1..Len(q)
         /\ Tail(q) \in Seq(S) /\ Len(Tail(q)) = Len(q) - 1 /\ Len(q) \in Nat /\ Len(q) > 0
         /\ \A k \in 1..Len(Tail(q)) : k + 1 \in 1..Len(q) /\ k + 1 # 1 /\ Tail(q)[k] = q[k + 1]
         /\ \A k \in 1..Len(q) : k = 1 \/ (k - 1 \in 1..Len(Tail(q)) /\ Tail(q)[k - 1] = q[k])
<1>1. Len(q) \in Nat /\ Len(q) > 0 BY EmptySeq, LenProperties
<1>2. Head(q) = q[1] /\ q[1] \in S BY <1>1, ElementOfSeq
<1>3. /\ Tail(q) \in Seq(S) /\ Len(Tail(q)) = Len(q) - 1
      /\ \A k \in 1..Len(Tail(q)) : Tail(q)[k] = q[k + 1] BY HeadTailProperties
<1>4. \A k \in 1..Len(Tail(q)) : k + 1 \in 1..Len(q) /\ k + 1 # 1 BY <1>1, <1>3
<1>5. ASSUME NEW k \in 1..Len(q), k # 1 PROVE k - 1 \in 1..Len(Tail(q)) /\ Tail(q)[k - 1] = q[k]
 <2>1. k - 1 \in 1..Len(Tail(q)) /\ (k - 1) + 1 = k BY <1>1, <1>3, <1>5
 <2> QED BY <1>3, <2>1
<1> QED BY <1>1, <1>2, <1>3, <1>4, <1>5

\* Appending an event: the next seq, written last.
LEMMA NumberedAppend ==
  ASSUME NEW inst \in Instance, Numbered(inst), NEW v \in Instance,
         v.writtenSeq = inst.writtenSeq, v.lastSeq = inst.lastSeq + 1,
         NEW t \in Task, t.kind = "write", t.seq = inst.lastSeq + 1, v.queue = Append(inst.queue, t)
  PROVE  Numbered(v)
<1> DEFINE q == inst.queue
           n == Len(q)
<1>1. /\ q \in Seq(Task) /\ n \in Nat /\ inst.lastSeq \in Nat /\ inst.writtenSeq \in Nat
      /\ \A k \in 1..n : q[k] \in Task BY InstanceParts
<1>2. /\ Len(v.queue) = n + 1 /\ v.queue[n + 1] = t
      /\ \A k \in 1..n : v.queue[k] = q[k]
      /\ \A k \in 1..(n + 1) : k \in 1..n \/ k = n + 1 BY <1>1, Joined
<1>3. \A k \in Writes(v) : k = n + 1 \/ k \in Writes(inst) BY <1>2 DEF Writes
<1>4. n + 1 \in Writes(v) /\ \A k \in Writes(inst) : k \in Writes(v) /\ v.queue[k] = q[k] /\ k \in 1..n
  BY <1>1, <1>2 DEF Writes
<1>5. \A k \in Writes(inst) : q[k].seq \in Nat /\ inst.writtenSeq < q[k].seq /\ q[k].seq <= inst.lastSeq
  BY <1>1, TaskKinds DEF Writes, Numbered
<1>6. \A j, k \in Writes(inst) : j < k => q[j].seq < q[k].seq BY DEF Numbered
<1>7. \A s \in (inst.writtenSeq + 1)..inst.lastSeq : \E k \in Writes(inst) : q[k].seq = s BY DEF Numbered
<1>8. inst.writtenSeq <= inst.lastSeq BY DEF Numbered
<1> HIDE DEF n, q
<1>9. v.writtenSeq <= v.lastSeq BY <1>1, <1>8
<1>10. \A k \in Writes(v) : v.writtenSeq < v.queue[k].seq /\ v.queue[k].seq <= v.lastSeq
 <2> SUFFICES ASSUME NEW k \in Writes(v)
              PROVE  v.writtenSeq < v.queue[k].seq /\ v.queue[k].seq <= v.lastSeq OBVIOUS
 <2>1. CASE k = n + 1
  <3>1. v.queue[k].seq = inst.lastSeq + 1 BY <1>2, <2>1
  <3> QED BY <1>1, <1>8, <3>1
 <2>2. CASE k \in Writes(inst)
  <3>1. v.queue[k].seq = q[k].seq BY <1>4, <2>2
  <3>2. q[k].seq \in Nat /\ inst.writtenSeq < q[k].seq /\ q[k].seq <= inst.lastSeq BY <1>5, <2>2
  <3> QED BY <1>1, <3>1, <3>2
 <2> QED BY <1>3, <2>1, <2>2
<1>11. ASSUME NEW j \in Writes(v), NEW k \in Writes(v), j < k
       PROVE  v.queue[j].seq < v.queue[k].seq
 <2>1. j \in Writes(inst)
  <3>1. k \in 1..(n + 1) /\ (j = n + 1 \/ j \in Writes(inst)) BY <1>1, <1>3, <1>4
  <3> QED BY <1>1, <1>11, <3>1
 <2>2. CASE k = n + 1
  <3>1. v.queue[k].seq = inst.lastSeq + 1 /\ v.queue[j].seq = q[j].seq BY <1>2, <1>4, <2>1, <2>2
  <3>2. q[j].seq \in Nat /\ q[j].seq <= inst.lastSeq BY <1>5, <2>1
  <3> QED BY <1>1, <3>1, <3>2
 <2>3. CASE k \in Writes(inst) BY <1>4, <1>6, <1>11, <2>1, <2>3
 <2> QED BY <1>3, <2>2, <2>3
<1>12. ASSUME NEW s \in (v.writtenSeq + 1)..v.lastSeq PROVE \E k \in Writes(v) : v.queue[k].seq = s
 <2>1. CASE s = inst.lastSeq + 1 BY <1>2, <1>4, <2>1
 <2>2. CASE s # inst.lastSeq + 1
  <3>1. s \in (inst.writtenSeq + 1)..inst.lastSeq BY <1>1, <2>2
  <3> QED BY <1>4, <1>7, <3>1
 <2> QED BY <2>1, <2>2
<1> QED BY <1>9, <1>10, <1>11, <1>12 DEF Numbered

\* A snapshot joins the queue: what is written stays as it is.
LEMMA NumberedSnap ==
  ASSUME NEW inst \in Instance, NEW v \in Instance,
         v.writtenSeq = inst.writtenSeq, v.lastSeq = inst.lastSeq,
         NEW t \in Task, t.kind = "snap", v.queue = Append(inst.queue, t)
  PROVE  /\ Writes(v) = Writes(inst) /\ Snaps(v) = Snaps(inst) \cup {Len(inst.queue) + 1}
         /\ \A k \in 1..Len(inst.queue) : v.queue[k] = inst.queue[k]
         /\ v.queue[Len(inst.queue) + 1] = t /\ Len(v.queue) = Len(inst.queue) + 1
         /\ Numbered(inst) => Numbered(v)
<1> DEFINE q == inst.queue
           n == Len(q)
<1>1. q \in Seq(Task) /\ n \in Nat BY InstanceParts
<1>2. /\ Len(v.queue) = n + 1 /\ v.queue[n + 1] = t
      /\ \A k \in 1..n : v.queue[k] = q[k]
      /\ \A k \in 1..(n + 1) : k \in 1..n \/ k = n + 1
      /\ \A k \in 1..n : k \in 1..(n + 1)
      /\ n + 1 \in 1..(n + 1) /\ t.kind # "write" BY <1>1, Joined
<1>3. Writes(v) = Writes(inst) BY <1>2 DEF Writes
<1>4. Snaps(v) = Snaps(inst) \cup {n + 1} BY <1>2 DEF Snaps
<1>5. \A k \in Writes(inst) : v.queue[k] = q[k] BY <1>2 DEF Writes
<1>6. Numbered(inst) => Numbered(v) BY <1>3, <1>5 DEF Numbered
<1> QED BY <1>2, <1>3, <1>4, <1>6

\* The head of the queue is served; a write is the next seq.
LEMMA NumberedServed ==
  ASSUME NEW inst \in Instance, inst.queue # <<>>, NEW v \in Instance,
         v.lastSeq = inst.lastSeq, v.queue = Tail(inst.queue),
         v.writtenSeq = IF Head(inst.queue).kind = "write" THEN Head(inst.queue).seq ELSE inst.writtenSeq
  PROVE  /\ \A k \in Writes(v) : k + 1 \in Writes(inst) /\ v.queue[k] = inst.queue[k + 1]
         /\ \A k \in Snaps(v) : k + 1 \in Snaps(inst) /\ v.queue[k] = inst.queue[k + 1]
         /\ \A k \in 1..Len(v.queue) : k \in Nat
         /\ Numbered(inst) => Numbered(v)
         /\ Numbered(inst) /\ Head(inst.queue).kind = "write" => Head(inst.queue).seq = inst.writtenSeq + 1
<1> DEFINE q == inst.queue
           h == Head(q)
<1>1. /\ q \in Seq(Task) /\ Len(q) \in Nat /\ inst.lastSeq \in Nat /\ inst.writtenSeq \in Nat
      /\ \A k \in 1..Len(q) : q[k] \in Task BY InstanceParts
<1>2. /\ h \in Task /\ h = q[1] /\ 1 \in 1..Len(q) /\ Len(v.queue) \in Nat
      /\ \A k \in 1..Len(v.queue) : k + 1 \in 1..Len(q) /\ k + 1 # 1 /\ v.queue[k] = q[k + 1]
      /\ \A k \in 1..Len(q) : k = 1 \/ (k - 1 \in 1..Len(v.queue) /\ v.queue[k - 1] = q[k]) BY <1>1, Served
<1>3. \A k \in Writes(v) : k + 1 \in Writes(inst) /\ k + 1 # 1 /\ v.queue[k] = q[k + 1] /\ k \in 1..Len(v.queue)
  BY <1>2 DEF Writes
<1>4. \A k \in Snaps(v) : k + 1 \in Snaps(inst) /\ v.queue[k] = q[k + 1] BY <1>2 DEF Snaps
<1>5. \A k \in Writes(inst) : k # 1 => k - 1 \in Writes(v) /\ v.queue[k - 1] = q[k] BY <1>2 DEF Writes
<1>6. \A k \in Writes(inst) : k \in 1..Len(q) /\ k \in Nat /\ q[k].seq \in Nat /\ q[k] \in Task
  BY <1>1, TaskKinds DEF Writes
<1> HIDE DEF h, q
<1>7. ASSUME Numbered(inst), h.kind = "write" PROVE h.seq = inst.writtenSeq + 1
 <2>1. 1 \in Writes(inst) BY <1>2, <1>7 DEF Writes, h, q
 <2>2. inst.writtenSeq < h.seq /\ h.seq <= inst.lastSeq /\ h.seq \in Nat BY <1>2, <1>6, <1>7, <2>1 DEF Numbered, q
 <2>3. inst.writtenSeq + 1 \in (inst.writtenSeq + 1)..inst.lastSeq BY <1>1, <2>2
 <2>4. PICK k \in Writes(inst) : q[k].seq = inst.writtenSeq + 1 BY <1>7, <2>3 DEF Numbered, q
 <2>5. CASE k = 1 BY <1>2, <2>4, <2>5
 <2>6. CASE k # 1
  <3>1. 1 < k BY <1>6, <2>4, <2>6
  <3>2. q[1].seq < q[k].seq BY <1>7, <2>1, <2>4, <3>1 DEF Numbered, q
  <3> QED BY <1>1, <1>2, <2>2, <2>4, <3>2
 <2> QED BY <2>5, <2>6
<1>8. ASSUME Numbered(inst) PROVE Numbered(v)
 <2>1. /\ inst.writtenSeq <= inst.lastSeq
       /\ \A k \in Writes(inst) : inst.writtenSeq < q[k].seq /\ q[k].seq <= inst.lastSeq
       /\ \A j, k \in Writes(inst) : j < k => q[j].seq < q[k].seq
       /\ \A s \in (inst.writtenSeq + 1)..inst.lastSeq : \E k \in Writes(inst) : q[k].seq = s BY <1>8 DEF Numbered, q
 <2>2. \A j, k \in Writes(v) : j < k => v.queue[j].seq < v.queue[k].seq
  <3>1. \A j, k \in Writes(v) : j \in Int /\ k \in Int /\ (j < k => j + 1 < k + 1) BY <1>3
  <3> QED BY <1>3, <2>1, <3>1
 <2>3. CASE h.kind = "write"
  <3>1. v.writtenSeq = h.seq /\ h.seq = inst.writtenSeq + 1 /\ 1 \in Writes(inst) /\ h.seq <= inst.lastSeq
    BY <1>2, <1>7, <1>8, <2>1, <2>3 DEF Writes, h, q
  <3>2. ASSUME NEW k \in Writes(v) PROVE v.writtenSeq < v.queue[k].seq /\ v.queue[k].seq <= v.lastSeq
   <4>1. v.queue[k] = q[k + 1] /\ k + 1 \in Writes(inst) /\ 1 < k + 1 BY <1>3
   <4>2. q[1].seq < q[k + 1].seq /\ q[k + 1].seq <= inst.lastSeq BY <2>1, <3>1, <4>1
   <4> QED BY <1>2, <3>1, <4>1, <4>2
  <3>3. ASSUME NEW s \in (v.writtenSeq + 1)..v.lastSeq PROVE \E k \in Writes(v) : v.queue[k].seq = s
   <4>1. s \in (inst.writtenSeq + 1)..inst.lastSeq /\ s # h.seq BY <1>1, <3>1
   <4>2. PICK k \in Writes(inst) : q[k].seq = s BY <2>1, <4>1
   <4>3. k # 1 BY <1>2, <4>1, <4>2
   <4> QED BY <1>5, <4>2, <4>3
  <3>4. v.writtenSeq <= v.lastSeq BY <3>1
  <3> QED BY <2>2, <3>2, <3>3, <3>4 DEF Numbered
 <2>4. CASE h.kind # "write"
  <3>1. v.writtenSeq = inst.writtenSeq /\ 1 \notin Writes(inst) BY <1>2, <2>4 DEF Writes, h, q
  <3>2. ASSUME NEW k \in Writes(v) PROVE v.writtenSeq < v.queue[k].seq /\ v.queue[k].seq <= v.lastSeq
   <4>1. k + 1 \in Writes(inst) /\ v.queue[k] = q[k + 1] BY <1>3
   <4>2. inst.writtenSeq < q[k + 1].seq /\ q[k + 1].seq <= inst.lastSeq BY <2>1, <4>1
   <4> QED BY <3>1, <4>1, <4>2
  <3>3. ASSUME NEW s \in (v.writtenSeq + 1)..v.lastSeq PROVE \E k \in Writes(v) : v.queue[k].seq = s
   <4>1. s \in (inst.writtenSeq + 1)..inst.lastSeq BY <3>1
   <4>2. PICK k \in Writes(inst) : q[k].seq = s BY <2>1, <4>1
   <4>3. k # 1 BY <3>1, <4>2
   <4>4. k - 1 \in Writes(v) /\ v.queue[k - 1] = q[k] BY <1>5, <4>2, <4>3
   <4> QED BY <4>2, <4>4
  <3> QED BY <2>1, <2>2, <3>1, <3>2, <3>3 DEF Numbered
 <2> QED BY <2>3, <2>4
<1>9. h = Head(inst.queue) /\ q = inst.queue BY DEF h, q
<1>10. \A k \in 1..Len(v.queue) : k \in Nat BY <1>2
<1>11. /\ \A k \in Writes(v) : k + 1 \in Writes(inst) /\ v.queue[k] = inst.queue[k + 1]
       /\ \A k \in Snaps(v) : k + 1 \in Snaps(inst) /\ v.queue[k] = inst.queue[k + 1] BY <1>3, <1>4, <1>9
<1>12. Numbered(inst) /\ Head(inst.queue).kind = "write" => Head(inst.queue).seq = inst.writtenSeq + 1 BY <1>7, <1>9
<1> QED BY <1>8, <1>10, <1>11, <1>12

\* One instance changes.
LEMMA OneInstance ==
  ASSUME NEW s \in Seq(Instance), NEW i \in 1..Len(s), NEW v \in Instance
  PROVE  /\ [s EXCEPT ![i] = v] \in Seq(Instance) /\ Len([s EXCEPT ![i] = v]) = Len(s)
         /\ [s EXCEPT ![i] = v][i] = v
         /\ \A j \in 1..Len(s) : j # i => [s EXCEPT ![i] = v][j] = s[j] BY ExceptSeq, LenProperties

\* Parts of an instance change.
LEMMA QueueChanged ==
  ASSUME NEW r \in Instance, NEW y \in Seq(Task), NEW v, v = [r EXCEPT !.queue = y]
  PROVE  /\ v \in Instance /\ v.lastSeq = r.lastSeq /\ v.queue = y
         /\ v.writtenSeq = r.writtenSeq /\ v.closed = r.closed BY DEF Instance

LEMMA ClosedChanged ==
  ASSUME NEW r \in Instance, NEW v, v = [r EXCEPT !.closed = TRUE]
  PROVE  /\ v \in Instance /\ v.lastSeq = r.lastSeq /\ v.queue = r.queue
         /\ v.writtenSeq = r.writtenSeq /\ v.closed BY DEF Instance

LEMMA ChangedAt ==
  ASSUME NEW s \in Seq(Instance), NEW i \in 1..Len(s), NEW x, NEW y
  PROVE  /\ [s EXCEPT ![i].lastSeq = x, ![i].queue = y] =
              [s EXCEPT ![i] = [[s[i] EXCEPT !.lastSeq = x] EXCEPT !.queue = y]]
         /\ [s EXCEPT ![i].writtenSeq = x, ![i].queue = y] =
              [s EXCEPT ![i] = [[s[i] EXCEPT !.writtenSeq = x] EXCEPT !.queue = y]] OBVIOUS

\* The instances after one of them, i, became v.
Turned(i, v) ==
    /\ i \in 1..Len(insts) /\ v \in Instance
    /\ insts' \in Seq(Instance) /\ Len(insts') = Len(insts) /\ insts'[i] = v
    /\ \A j \in 1..Len(insts) : j # i => insts'[j] = insts[j]

\* What each action makes of the instances.
LEMMA InstSteps ==
  ASSUME Types
  PROVE  /\ Evict => \E v \in Instance : Turned(cur, v) /\ v.closed /\ v.queue = insts[cur].queue
                        /\ v.lastSeq = insts[cur].lastSeq /\ v.writtenSeq = insts[cur].writtenSeq
         /\ AppendFrame /\ cur # 0 /\ ~insts[cur].closed =>
               \E v \in Instance : Turned(cur, v) /\ ~v.closed /\ v.writtenSeq = insts[cur].writtenSeq
                        /\ v.lastSeq = insts[cur].lastSeq + 1
                        /\ v.queue = Append(insts[cur].queue, [kind |-> "write", seq |-> insts[cur].lastSeq + 1])
         /\ \A i \in 1..Len(insts) : WriteDone(i) =>
               \E v \in Instance : Turned(i, v) /\ v.closed = insts[i].closed /\ v.lastSeq = insts[i].lastSeq
                        /\ v.writtenSeq = Head(insts[i].queue).seq /\ v.queue = Tail(insts[i].queue)
         /\ \A i \in 1..Len(insts) : Snapshot(i) =>
               \E v \in Instance : Turned(i, v) /\ v.closed = insts[i].closed /\ v.lastSeq = insts[i].lastSeq
                        /\ v.writtenSeq = insts[i].writtenSeq /\ v.queue = Tail(insts[i].queue)
<1>1. insts \in Seq(Instance) /\ \A i \in 1..Len(insts) : insts[i] \in Instance BY ElementOfSeq DEF Types
<1>2. cur # 0 => cur \in 1..Len(insts) BY <1>1, LenProperties DEF Types
<1>3. ASSUME NEW i \in 1..Len(insts), NEW v \in Instance, insts' = [insts EXCEPT ![i] = v] PROVE Turned(i, v)
  BY <1>1, <1>3, OneInstance DEF Turned
<1>4. \A i \in 1..Len(insts) :
         /\ insts[i].queue \in Seq(Task) /\ insts[i].lastSeq \in Nat
         /\ insts[i].queue # <<>> => /\ Tail(insts[i].queue) \in Seq(Task)
                                     /\ Head(insts[i].queue) \in Task BY <1>1, InstanceParts, Served
<1>5. ASSUME Evict
      PROVE  \E v \in Instance : Turned(cur, v) /\ v.closed /\ v.queue = insts[cur].queue
                        /\ v.lastSeq = insts[cur].lastSeq /\ v.writtenSeq = insts[cur].writtenSeq
 <2> DEFINE v == [insts[cur] EXCEPT !.closed = TRUE]
 <2>1. cur \in 1..Len(insts) /\ insts' = [insts EXCEPT ![cur] = v] BY <1>2, <1>5 DEF Evict
 <2>9. v = [insts[cur] EXCEPT !.closed = TRUE] OBVIOUS
 <2> HIDE DEF v
 <2>2. v \in Instance /\ v.closed /\ v.queue = insts[cur].queue
       /\ v.lastSeq = insts[cur].lastSeq /\ v.writtenSeq = insts[cur].writtenSeq BY <1>1, <2>1, <2>9, ClosedChanged
 <2>3. Turned(cur, v) BY <1>3, <2>1, <2>2
 <2> QED BY <2>2, <2>3
<1>6. ASSUME AppendFrame, cur # 0, ~insts[cur].closed
      PROVE  \E v \in Instance : Turned(cur, v) /\ ~v.closed /\ v.writtenSeq = insts[cur].writtenSeq
                        /\ v.lastSeq = insts[cur].lastSeq + 1
                        /\ v.queue = Append(insts[cur].queue, [kind |-> "write", seq |-> insts[cur].lastSeq + 1])
 <2> DEFINE n == insts[cur].lastSeq + 1
            t == [kind |-> "write", seq |-> n]
            y == Append(insts[cur].queue, t)
            v == [[insts[cur] EXCEPT !.lastSeq = n] EXCEPT !.queue = y]
 <2>1. cur \in 1..Len(insts) /\ n \in Nat /\ t \in Task /\ insts[cur] \in Instance
  <3>1. cur \in 1..Len(insts) BY <1>2, <1>6
  <3>2. n \in Nat BY <1>4, <3>1
  <3> HIDE DEF n
  <3>3. t \in Task BY <3>2 DEF Task
  <3> QED BY <1>1, <3>1, <3>2, <3>3
 <2>2. insts' = [insts EXCEPT ![cur] = v]
  <3>1. insts' = [insts EXCEPT ![cur].lastSeq = n, ![cur].queue = Append(@, t)] BY <1>6 DEF AppendFrame
  <3> QED BY <1>1, <2>1, <3>1
 <2>3. y \in Seq(Task) BY <1>4, <2>1, Joined
 <2> HIDE DEF n, t
 <2>9. v = [[insts[cur] EXCEPT !.lastSeq = n] EXCEPT !.queue = y] OBVIOUS
 <2> HIDE DEF v, y
 <2>4. v \in Instance /\ v.lastSeq = n /\ v.queue = y
       /\ v.writtenSeq = insts[cur].writtenSeq /\ ~v.closed BY <1>6, <2>1, <2>3, <2>9 DEF Instance
 <2>5. Turned(cur, v) BY <1>3, <2>1, <2>2, <2>4
 <2> QED BY <2>4, <2>5 DEF n, t, y
<1>7. ASSUME NEW i \in 1..Len(insts), WriteDone(i)
      PROVE  \E v \in Instance : Turned(i, v) /\ v.closed = insts[i].closed /\ v.lastSeq = insts[i].lastSeq
                        /\ v.writtenSeq = Head(insts[i].queue).seq /\ v.queue = Tail(insts[i].queue)
 <2> DEFINE n == Head(insts[i].queue).seq
            y == Tail(insts[i].queue)
            v == [[insts[i] EXCEPT !.writtenSeq = n] EXCEPT !.queue = y]
 <2>1. insts[i].queue # <<>> /\ Head(insts[i].queue).kind = "write" BY <1>7 DEF WriteDone, Busy
 <2>2. insts' = [insts EXCEPT ![i] = v]
  <3>1. insts' = [insts EXCEPT ![i].writtenSeq = n, ![i].queue = Tail(@)] BY <1>7 DEF WriteDone
  <3> QED BY <1>1, <3>1
 <2>3. n \in Nat /\ y \in Seq(Task) /\ insts[i] \in Instance BY <1>1, <1>4, <2>1, TaskKinds
 <2> HIDE DEF n
 <2>9. v = [[insts[i] EXCEPT !.writtenSeq = n] EXCEPT !.queue = y] OBVIOUS
 <2> HIDE DEF v, y
 <2>4. v \in Instance /\ v.lastSeq = insts[i].lastSeq /\ v.queue = y
       /\ v.writtenSeq = n /\ v.closed = insts[i].closed BY <2>3, <2>9 DEF Instance
 <2>5. Turned(i, v) BY <1>3, <2>2, <2>4
 <2> QED BY <2>4, <2>5 DEF n, y
<1>8. ASSUME NEW i \in 1..Len(insts), Snapshot(i)
      PROVE  \E v \in Instance : Turned(i, v) /\ v.closed = insts[i].closed /\ v.lastSeq = insts[i].lastSeq
                        /\ v.writtenSeq = insts[i].writtenSeq /\ v.queue = Tail(insts[i].queue)
 <2> DEFINE y == Tail(insts[i].queue)
            v == [insts[i] EXCEPT !.queue = y]
 <2>1. insts[i].queue # <<>> /\ insts' = [insts EXCEPT ![i] = v] BY <1>8 DEF Snapshot, Busy
 <2>2. y \in Seq(Task) /\ insts[i] \in Instance BY <1>1, <1>4, <2>1
 <2>9. v = [insts[i] EXCEPT !.queue = y] OBVIOUS
 <2> HIDE DEF v, y
 <2>3. v \in Instance /\ v.lastSeq = insts[i].lastSeq /\ v.queue = y
       /\ v.writtenSeq = insts[i].writtenSeq /\ v.closed = insts[i].closed BY <2>2, <2>9, QueueChanged
 <2>4. Turned(i, v) BY <1>3, <2>1, <2>3
 <2> QED BY <2>3, <2>4 DEF y
<1> QED BY <1>5, <1>6, <1>7, <1>8

--------------------
\* The steps of the log

\* Sizes and members, from the types.
LEMMA Sizes ==
  ASSUME Types
  PROVE  /\ Len(disk) \in Nat /\ Len(insts) \in Nat /\ Len(ready) \in Nat /\ Len(waiters) \in Nat
         /\ \A i \in 1..Len(disk) : disk[i] \in Nat
         /\ \A i \in 1..Len(insts) : insts[i] \in Instance /\ insts[i].queue \in Seq(Task)
                                     /\ insts[i].writtenSeq \in Nat /\ insts[i].lastSeq \in Nat
         /\ \A k \in 1..Len(ready) : ready[k] \in Callers
         /\ \A k \in 1..Len(waiters) : waiters[k] \in Callers
         /\ cur # 0 => cur \in 1..Len(insts)
<1>1. insts \in Seq(Instance) /\ disk \in Seq(Nat) /\ ready \in Seq(Callers) /\ waiters \in Seq(Callers) BY DEF Types
<1>2. Len(disk) \in Nat /\ Len(insts) \in Nat /\ Len(ready) \in Nat /\ Len(waiters) \in Nat BY <1>1, LenProperties
<1>3. /\ \A i \in 1..Len(disk) : disk[i] \in Nat
      /\ \A i \in 1..Len(insts) : insts[i] \in Instance
      /\ \A k \in 1..Len(ready) : ready[k] \in Callers
      /\ \A k \in 1..Len(waiters) : waiters[k] \in Callers BY <1>1, ElementOfSeq
<1>4. cur # 0 => cur \in 1..Len(insts) BY <1>2 DEF Types
<1> QED BY <1>2, <1>3, <1>4, InstanceParts

LEMMA LastIsLen == Types /\ DiskCounts => LastOf(disk) = Len(disk)
<1> SUFFICES ASSUME Types, DiskCounts PROVE LastOf(disk) = Len(disk) OBVIOUS
<1>1. Len(disk) \in Nat /\ disk \in Seq(Nat) /\ (disk = <<>> <=> Len(disk) = 0) BY Sizes, EmptySeq DEF Types
<1> QED BY <1>1 DEF LastOf, DiskCounts

LEMMA OpenDoneLog == LogInv /\ OpenDone => LogInv'
<1> SUFFICES ASSUME LogInv, OpenDone PROVE LogInv' OBVIOUS
<1> DEFINE v == [closed |-> FALSE, lastSeq |-> Len(disk), writtenSeq |-> Len(disk), queue |-> <<>>]
           n == Len(insts)
<1>0. Types /\ DiskCounts /\ OneWriter /\ Listed /\ Snapping BY DEF LogInv
<1>1. /\ opening /\ insts' = Append(insts, v) /\ cur' = n + 1 /\ ready' = waiters /\ waiters' = <<>>
      /\ opening' = FALSE /\ cur = 0 /\ UNCHANGED <<disk, closing, conn, replaying, held, base, got, ops>>
  BY <1>0, LastIsLen DEF OpenDone, OneWriter, portVars
<1>2. Len(disk) \in Nat /\ n \in Nat BY <1>0, Sizes
<1>3. v \in Instance BY <1>2, EmptySeq DEF Instance
<1>4. Len(v.queue) = 0 /\ v.writtenSeq = Len(disk) /\ v.lastSeq = Len(disk) /\ ~v.closed BY EmptySeq
<1>5. Writes(v) = {} /\ Snaps(v) = {} BY <1>4 DEF Writes, Snaps
<1>6. Numbered(v)
 <2>1. \A s \in (Len(disk) + 1)..Len(disk) : FALSE BY <1>2
 <2> HIDE DEF v
 <2> QED BY <1>2, <1>4, <1>5, <2>1 DEF Numbered
<1> HIDE DEF v
<1>7. /\ insts' \in Seq(Instance) /\ Len(insts') = n + 1 /\ insts'[n + 1] = v
      /\ \A i \in 1..n : insts'[i] = insts[i]
      /\ \A i \in 1..(n + 1) : i \in 1..n \/ i = n + 1
 <2>1. insts \in Seq(Instance) BY <1>0 DEF Types
 <2> QED BY <1>1, <1>2, <1>3, <2>1, AppendProperties
<1>8. Len(waiters') = 0 /\ waiters' \in Seq(Callers) BY <1>1, EmptySeq
<1> HIDE DEF n
<1>9. n + 1 # 0 /\ \A i \in 1..n : i \in 1..(n + 1) /\ i # 0 BY <1>2
<1>10. Types'
 <2>1. cur' \in Nat /\ cur' <= Len(insts') /\ closing' \in Nat /\ closing' <= Len(insts')
   BY <1>0, <1>1, <1>2, <1>7 DEF Types, n
 <2> QED BY <1>0, <1>1, <1>7, <1>8, <2>1 DEF Types
<1>11. DiskCounts' BY <1>0, <1>1 DEF DiskCounts
<1>12. OneWriter'
 <2>1. \A i \in 1..n : insts[i].writtenSeq <= Len(disk) /\ Writes(insts[i]) = {} BY <1>0, <1>1, <1>9 DEF OneWriter, n
 <2>2. v.writtenSeq <= Len(disk) BY <1>2, <1>4
 <2>3. \A i \in 1..Len(insts') : insts'[i].writtenSeq <= Len(disk') /\ (i # cur' => Writes(insts'[i]) = {})
   BY <1>1, <1>7, <2>1, <2>2
 <2> QED BY <1>1, <1>4, <1>6, <1>7, <1>9, <2>3 DEF OneWriter
<1>13. Listed'
 <2>1. Len(ready) = 0 BY EmptySeq DEF OpenDone, Idle
 <2>2. \A k \in 1..Len(ready) : FALSE BY <2>1
 <2>3. \A k \in 1..Len(waiters') : FALSE BY <1>8
 <2> QED BY <1>0, <1>1, <2>2, <2>3 DEF Listed
<1>14. Snapping'
 <2>1. Snapped(v, n + 1, ops') BY <1>5 DEF Snapped
 <2>2. ASSUME NEW i \in 1..n PROVE Snapped(insts'[i], i, ops')
  <3>1. Snapped(insts[i], i, ops) BY <1>0, <2>2 DEF Snapping, n
  <3>2. insts'[i] = insts[i] /\ ops' = ops BY <1>1, <1>7, <2>2
  <3> QED BY <3>1, <3>2
 <2>3. \A i \in 1..Len(insts') : Snapped(insts'[i], i, ops') BY <1>7, <2>1, <2>2
 <2>4. \A o \in Ops : ops'[o].pc \in {"wait", "snap", "stream"} => ops'[o].inst \in 1..Len(insts')
   BY <1>0, <1>1, <1>7, <1>9 DEF Snapping, n
 <2> QED BY <2>3, <2>4 DEF Snapping
<1> QED BY <1>10, <1>11, <1>12, <1>13, <1>14 DEF LogInv

LEMMA EvictLog == LogInv /\ Evict => LogInv'
<1> SUFFICES ASSUME LogInv, Evict PROVE LogInv' OBVIOUS
<1>0. Types /\ DiskCounts /\ OneWriter /\ Listed /\ Snapping BY DEF LogInv
<1>1. PICK v \in Instance : /\ Turned(cur, v) /\ v.queue = insts[cur].queue
                            /\ v.writtenSeq = insts[cur].writtenSeq BY <1>0, InstSteps
<1>2. /\ insts[cur].queue = <<>> /\ cur \in 1..Len(insts) /\ ready = <<>> /\ cur # 0
      /\ closing' = cur /\ cur' = 0
      /\ UNCHANGED <<disk, opening, waiters, ready, conn, replaying, held, base, got, ops>>
  BY <1>0, Sizes DEF Evict, Busy, Idle, portVars
<1>3. Writes(v) = {} /\ Snaps(v) = {} /\ Writes(insts[cur]) = {} /\ Snaps(insts[cur]) = {}
 <2>1. Len(v.queue) = 0 /\ Len(insts[cur].queue) = 0 BY <1>1, <1>2, EmptySeq
 <2> QED BY <2>1 DEF Writes, Snaps
<1>4. /\ insts' \in Seq(Instance) /\ Len(insts') = Len(insts) /\ insts'[cur] = v
      /\ \A j \in 1..Len(insts) : j # cur => insts'[j] = insts[j] BY <1>1 DEF Turned
<1>5. Types' BY <1>0, <1>2, <1>4 DEF Types
<1>6. DiskCounts' /\ Listed' BY <1>0, <1>2 DEF DiskCounts, Listed
<1>7. OneWriter'
 <2>1. ~opening' /\ Len(ready') = 0 /\ cur' = 0 BY <1>0, <1>2, EmptySeq DEF OneWriter
 <2>2. \A i \in 1..Len(insts) : insts'[i].writtenSeq <= Len(disk') /\ Writes(insts'[i]) = {}
   BY <1>0, <1>1, <1>2, <1>3, <1>4 DEF OneWriter
 <2>3. \A k \in 1..Len(ready') : FALSE BY <2>1
 <2> QED BY <1>2, <1>4, <2>1, <2>2, <2>3 DEF OneWriter
<1>8. Snapping'
 <2>1. \A i \in 1..Len(insts) : Snapped(insts'[i], i, ops') BY <1>0, <1>2, <1>3, <1>4 DEF Snapping, Snapped
 <2> QED BY <1>0, <1>2, <1>4, <2>1 DEF Snapping
<1> QED BY <1>5, <1>6, <1>7, <1>8 DEF LogInv

LEMMA AppendFrameLog == LogInv /\ AppendFrame => LogInv'
<1> SUFFICES ASSUME LogInv, AppendFrame PROVE LogInv' OBVIOUS
<1> DEFINE t == [kind |-> "write", seq |-> insts[cur].lastSeq + 1]
<1>0. Types /\ DiskCounts /\ OneWriter /\ Listed /\ Snapping BY DEF LogInv
<1>1. /\ ready # <<>> /\ Head(ready) = Frame /\ ready' = Tail(ready)
      /\ UNCHANGED <<disk, cur, opening, closing, waiters, conn, replaying, held, base, got, ops>>
  BY DEF AppendFrame, Idle, portVars
<1>2. /\ 1 \in 1..Len(ready) /\ Head(ready) = ready[1] /\ Tail(ready) \in Seq(Callers)
      /\ \A k \in 1..Len(ready') : k + 1 \in 1..Len(ready) /\ ready'[k] = ready[k + 1]
      /\ \A k \in 1..Len(ready) : k = 1 \/ (k - 1 \in 1..Len(ready') /\ ready'[k - 1] = ready[k])
 <2>1. ready \in Seq(Callers) BY <1>0 DEF Types
 <2> QED BY <1>1, <2>1, Served
<1>3. cur # 0 /\ cur \in 1..Len(insts) /\ ~insts[cur].closed /\ insts[cur] \in Instance /\ Numbered(insts[cur])
  BY <1>0, <1>1, <1>2, Sizes DEF OneWriter
<1>4. PICK v \in Instance : /\ Turned(cur, v) /\ ~v.closed /\ v.writtenSeq = insts[cur].writtenSeq
                            /\ v.lastSeq = insts[cur].lastSeq + 1 /\ v.queue = Append(insts[cur].queue, t)
  BY <1>0, <1>3, InstSteps
<1>5. t \in Task /\ t.kind = "write" /\ t.seq = insts[cur].lastSeq + 1 BY <1>0, <1>3, Sizes DEF Task
<1> HIDE DEF t
<1>6. Numbered(v) BY <1>3, <1>4, <1>5, NumberedAppend
<1>7. /\ Snaps(v) = Snaps(insts[cur]) /\ \A k \in Snaps(v) : v.queue[k] = insts[cur].queue[k]
 <2>1. insts[cur].queue \in Seq(Task) BY <1>0, <1>3, Sizes
 <2>2. /\ Len(v.queue) = Len(insts[cur].queue) + 1 /\ v.queue[Len(insts[cur].queue) + 1] = t
       /\ \A k \in 1..Len(insts[cur].queue) : v.queue[k] = insts[cur].queue[k] /\ k \in 1..Len(v.queue)
       /\ \A k \in 1..Len(v.queue) : k \in 1..Len(insts[cur].queue) \/ k = Len(insts[cur].queue) + 1
   BY <1>4, <1>5, <2>1, Joined
 <2>3. t.kind # "snap" BY <1>5
 <2> QED BY <2>2, <2>3 DEF Snaps
<1>8. /\ insts' \in Seq(Instance) /\ Len(insts') = Len(insts) /\ insts'[cur] = v
      /\ \A j \in 1..Len(insts) : j # cur => insts'[j] = insts[j] BY <1>4 DEF Turned
<1>9. Types' BY <1>0, <1>1, <1>2, <1>8 DEF Types
<1>10. OneWriter' BY <1>0, <1>1, <1>2, <1>3, <1>4, <1>6, <1>8 DEF OneWriter
<1>11. Listed'
 <2>1. \A j, k \in 1..Len(ready') : j # k => j + 1 # k + 1 OBVIOUS
 <2>2. \A o \in Ops : o # ready[1] BY <1>1, <1>2, Requests
 <2>3. ASSUME NEW o \in Ops, NEW k \in 1..Len(ready), ready[k] = o PROVE \E j \in 1..Len(ready') : ready'[j] = o
   BY <1>2, <2>2, <2>3
 <2>4. \A o \in Ops : ops'[o].pc = "log" => \/ \E k \in 1..Len(ready') : ready'[k] = o
                                            \/ \E k \in 1..Len(waiters') : waiters'[k] = o
   BY <1>0, <1>1, <2>3 DEF Listed
 <2>5. \A j, k \in 1..Len(ready') : j # k /\ ready'[j] # Frame => ready'[j] # ready'[k] BY <1>0, <1>2, <2>1 DEF Listed
 <2>6. \A k \in 1..Len(ready') : ready'[k] # Frame => ops'[ready'[k]].pc \in {"log", "wait"}
   BY <1>0, <1>1, <1>2 DEF Listed
 <2> QED BY <1>0, <1>1, <2>4, <2>5, <2>6 DEF Listed
<1>12. Snapping'
 <2>1. \A i \in 1..Len(insts) : Snapped(insts[i], i, ops) BY <1>0 DEF Snapping
 <2>2. Snapped(v, cur, ops')
  <3>1. Snapped(insts[cur], cur, ops) BY <1>3, <2>1
  <3> QED BY <1>1, <1>7, <3>1 DEF Snapped
 <2>3. ASSUME NEW i \in 1..Len(insts), i # cur PROVE Snapped(insts'[i], i, ops')
  <3>1. Snapped(insts[i], i, ops) /\ insts'[i] = insts[i] BY <1>8, <2>1, <2>3
  <3> QED BY <1>1, <3>1 DEF Snapped
 <2>4. \A i \in 1..Len(insts') : Snapped(insts'[i], i, ops') BY <1>8, <2>2, <2>3
 <2> QED BY <1>0, <1>1, <1>8, <2>4 DEF Snapping
<1> QED BY <1>0, <1>1, <1>9, <1>10, <1>11, <1>12 DEF LogInv, DiskCounts

\* Who is in no list of the log may change otherwise.
Apart == {"none", "bind", "done"}

LEMMA LogKept ==
  ASSUME LogInv, UNCHANGED <<disk, insts, cur, opening, waiters, ready>>, Types',
         \A o \in Ops : \/ ops'[o] = ops[o]
                        \/ ops[o].pc \in Apart /\ ops'[o].pc \in Apart
                        \/ ops'[o].pc = ops[o].pc /\ ops'[o].inst = ops[o].inst
  PROVE  LogInv'
<1>0. Types /\ DiskCounts /\ OneWriter /\ Listed /\ Snapping BY DEF LogInv
<1>1. /\ \A o \in Ops : (ops[o].pc \notin Apart \/ ops'[o].pc \notin Apart)
                           => ops'[o].pc = ops[o].pc /\ ops'[o].inst = ops[o].inst OBVIOUS
<1>2. /\ \A k \in 1..Len(ready) : ready[k] = Frame \/ ready[k] \in Ops
      /\ \A k \in 1..Len(waiters) : waiters[k] = Frame \/ waiters[k] \in Ops BY <1>0, Sizes DEF Callers
<1>3. OneWriter'
 <2>1. \A k \in 1..Len(ready') : ready'[k] = Frame \/ ops'[ready'[k]].pc = "log" => cur' # 0
   BY <1>0, <1>1, <1>2 DEF OneWriter, Apart
 <2> QED BY <1>0, <2>1 DEF OneWriter
<1>4. Listed'
 <2>1. \A k \in 1..Len(ready') : ready'[k] # Frame => ops'[ready'[k]].pc \in {"log", "wait"}
   BY <1>0, <1>1, <1>2 DEF Listed, Apart
 <2>2. \A k \in 1..Len(waiters') : waiters'[k] # Frame => ops'[waiters'[k]].pc = "log"
   BY <1>0, <1>1, <1>2 DEF Listed, Apart
 <2>3. \A o \in Ops : ops'[o].pc = "log" => \/ \E k \in 1..Len(ready') : ready'[k] = o
                                            \/ \E k \in 1..Len(waiters') : waiters'[k] = o
   BY <1>0, <1>1 DEF Listed, Apart
 <2> QED BY <1>0, <2>1, <2>2, <2>3 DEF Listed
<1>5. Snapping'
 <2>1. ASSUME NEW i \in 1..Len(insts) PROVE Snapped(insts[i], i, ops')
  <3>1. \A k \in Snaps(insts[i]) : insts[i].queue[k].op \in Ops
   <4>1. insts[i] \in Instance BY <1>0, Sizes
   <4> QED BY <4>1, InstanceParts, TaskKinds DEF Snaps
  <3>2. Snapped(insts[i], i, ops) BY <1>0 DEF Snapping
  <3> QED BY <1>1, <3>1, <3>2 DEF Snapped, Apart
 <2>2. \A o \in Ops : ops'[o].pc \in {"wait", "snap", "stream"} => ops'[o].inst \in 1..Len(insts)
   BY <1>0, <1>1 DEF Snapping, Apart
 <2> QED BY <2>1, <2>2 DEF Snapping
<1> QED BY <1>0, <1>3, <1>4, <1>5 DEF LogInv, DiskCounts

\* A caller asks for the log: c is in the one list or in the other.
LEMMA LogForTypes ==
  ASSUME Types, NEW c \in Callers, LogFor(c), cur' = cur
  PROVE  ready' \in Seq(Callers) /\ waiters' \in Seq(Callers) /\ opening' \in BOOLEAN
<1>1. ready \in Seq(Callers) /\ waiters \in Seq(Callers) /\ opening \in BOOLEAN BY DEF Types
<1>2. Append(ready, c) \in Seq(Callers) /\ Append(waiters, c) \in Seq(Callers) BY <1>1, Joined
<1> QED BY <1>1, <1>2 DEF LogFor

LEMMA LogForKept ==
  ASSUME LogInv, NEW c \in Callers, LogFor(c), UNCHANGED <<disk, insts, cur>>, Types',
         \A o \in Ops : o # c => ops'[o] = ops[o],
         c # Frame => ops[c].pc \in Apart /\ ops'[c].pc = "log"
  PROVE  LogInv'
<1>0. Types /\ DiskCounts /\ OneWriter /\ Listed /\ Snapping BY DEF LogInv
<1>1. /\ \A k \in 1..Len(ready) : ready[k] = Frame \/ ready[k] \in Ops
      /\ \A k \in 1..Len(waiters) : waiters[k] = Frame \/ waiters[k] \in Ops
      /\ c = Frame \/ c \in Ops
      /\ \A o \in Ops : o # Frame
      /\ Len(ready) \in Nat /\ Len(waiters) \in Nat BY <1>0, Sizes, Requests DEF Callers
<1>2. /\ \A k \in 1..Len(ready) : ready[k] # Frame => ready[k] # c
      /\ \A k \in 1..Len(waiters) : waiters[k] # Frame => waiters[k] # c BY <1>0, <1>1 DEF Listed, Apart
<1>3. Snapping'
 <2>1. ASSUME NEW i \in 1..Len(insts) PROVE Snapped(insts[i], i, ops')
  <3>1. \A k \in Snaps(insts[i]) : insts[i].queue[k].op \in Ops
   <4>1. insts[i] \in Instance BY <1>0, Sizes
   <4> QED BY <4>1, InstanceParts, TaskKinds DEF Snaps
  <3>2. Snapped(insts[i], i, ops) BY <1>0 DEF Snapping
  <3>3. \A k \in Snaps(insts[i]) : insts[i].queue[k].op # c BY <1>1, <3>1, <3>2 DEF Snapped, Apart
  <3> QED BY <3>1, <3>2, <3>3 DEF Snapped
 <2>2. \A o \in Ops : ops'[o].pc \in {"wait", "snap", "stream"} => ops'[o].inst \in 1..Len(insts)
   BY <1>0, <1>1 DEF Snapping
 <2> QED BY <2>1, <2>2 DEF Snapping
<1>4. CASE cur # 0
 <2>1. ready' = Append(ready, c) /\ waiters' = waiters /\ opening' = opening BY <1>4 DEF LogFor
 <2>2. /\ Len(ready') = Len(ready) + 1 /\ ready'[Len(ready) + 1] = c
       /\ \A k \in 1..Len(ready) : ready'[k] = ready[k] /\ k \in 1..Len(ready')
       /\ \A k \in 1..Len(ready') : k \in 1..Len(ready) \/ k = Len(ready) + 1
       /\ Len(ready) + 1 \in 1..Len(ready')
  <3>1. ready \in Seq(Callers) BY <1>0 DEF Types
  <3> QED BY <1>1, <2>1, <3>1, Joined
 <2>3. OneWriter' BY <1>0, <1>4, <2>1 DEF OneWriter
 <2>4. \A k \in 1..Len(ready') : ready'[k] # Frame => ops'[ready'[k]].pc \in {"log", "wait"}
   BY <1>0, <1>1, <1>2, <2>2 DEF Listed
 <2>5. \A j, k \in 1..Len(ready') : j # k /\ ready'[j] # Frame => ready'[j] # ready'[k]
   BY <1>0, <1>1, <1>2, <2>2 DEF Listed
 <2>6. \A k \in 1..Len(waiters') : waiters'[k] # Frame => ops'[waiters'[k]].pc = "log"
   BY <1>0, <1>1, <1>2, <2>1 DEF Listed
 <2>7. \A o \in Ops : ops'[o].pc = "log" => \/ \E k \in 1..Len(ready') : ready'[k] = o
                                            \/ \E k \in 1..Len(waiters') : waiters'[k] = o
   BY <1>0, <2>1, <2>2 DEF Listed
 <2>8. Listed' BY <1>0, <2>1, <2>4, <2>5, <2>6, <2>7 DEF Listed
 <2> QED BY <1>0, <1>3, <2>3, <2>8 DEF LogInv, DiskCounts
<1>5. CASE cur = 0
 <2>1. waiters' = Append(waiters, c) /\ ready' = ready /\ opening' BY <1>5 DEF LogFor
 <2>2. /\ Len(waiters') = Len(waiters) + 1 /\ waiters'[Len(waiters) + 1] = c
       /\ \A k \in 1..Len(waiters) : waiters'[k] = waiters[k] /\ k \in 1..Len(waiters')
       /\ \A k \in 1..Len(waiters') : k \in 1..Len(waiters) \/ k = Len(waiters) + 1
       /\ Len(waiters) + 1 \in 1..Len(waiters')
  <3>1. waiters \in Seq(Callers) BY <1>0 DEF Types
  <3> QED BY <1>1, <2>1, <3>1, Joined
 <2>3. \A k \in 1..Len(ready) : ready[k] # Frame => ops'[ready[k]] = ops[ready[k]] BY <1>1, <1>2
 <2>4. OneWriter'
  <3>1. \A k \in 1..Len(ready') : ready'[k] = Frame \/ ops'[ready'[k]].pc = "log" => cur' # 0
    BY <1>0, <2>1, <2>3 DEF OneWriter
  <3> QED BY <1>0, <1>5, <3>1 DEF OneWriter
 <2>5. \A k \in 1..Len(ready') : ready'[k] # Frame => ops'[ready'[k]].pc \in {"log", "wait"}
   BY <1>0, <2>1, <2>3 DEF Listed
 <2>6. \A k \in 1..Len(waiters') : waiters'[k] # Frame => ops'[waiters'[k]].pc = "log"
   BY <1>0, <1>1, <1>2, <2>2 DEF Listed
 <2>7. \A j, k \in 1..Len(waiters') : j # k /\ waiters'[j] # Frame => waiters'[j] # waiters'[k]
   BY <1>0, <1>1, <1>2, <2>2 DEF Listed
 <2>8. \A o \in Ops : ops'[o].pc = "log" => \/ \E k \in 1..Len(ready') : ready'[k] = o
                                            \/ \E k \in 1..Len(waiters') : waiters'[k] = o
   BY <1>0, <2>1, <2>2 DEF Listed
 <2>9. Listed' BY <1>0, <2>1, <2>5, <2>6, <2>7, <2>8 DEF Listed
 <2> QED BY <1>0, <1>3, <2>4, <2>9 DEF LogInv, DiskCounts
<1> QED BY <1>4, <1>5

--------------------
\* The steps of the attaches

\* Only o moves, to pc; nothing else about it changes but what is said beside.
Moves(o, pc) ==
    /\ ops' \in [Ops -> OpState] /\ ops'[o].pc = pc
    /\ \A x \in Ops : x # o => ops'[x] = ops[x]

LEMMA StateParts ==
  ASSUME NEW r \in OpState
  PROVE  /\ r.pc \in {"none", "bind", "log", "wait", "snap", "stream", "done"} /\ r.load \in BOOLEAN
         /\ r.after \in Nat /\ r.inst \in Nat /\ r.until \in Nat BY DEF OpState

LEMMA OpTypes ==
  ASSUME Types
  PROVE  \A o \in Ops : /\ ops[o] \in OpState /\ ops[o].load \in BOOLEAN
                        /\ ops[o].after \in Nat /\ ops[o].inst \in Nat /\ ops[o].until \in Nat BY StateParts DEF Types

LEMMA MovesOn ==
  ASSUME ops \in [Ops -> OpState], NEW o \in Ops, NEW pc,
         NEW r \in OpState, r.pc = pc, ops' = [ops EXCEPT ![o] = r]
  PROVE  Moves(o, pc) /\ ops'[o] = r BY DEF Moves

LEMMA PcChanged ==
  ASSUME NEW r \in OpState, NEW pc \in {"none", "bind", "log", "wait", "snap", "stream", "done"},
         NEW v, v = [r EXCEPT !.pc = pc]
  PROVE  /\ v \in OpState /\ v.pc = pc /\ v.load = r.load /\ v.after = r.after
         /\ v.inst = r.inst /\ v.until = r.until BY DEF OpState

LEMMA OpSteps ==
  ASSUME Types, NEW o \in Ops
  PROVE  /\ \A after \in 0..MaxEvents : Attach(o, after) =>
               /\ Moves(o, "log") /\ ops'[o].after = after /\ (ops'[o].load <=> ops[o].load)
               /\ ops'[o].inst = ops[o].inst
         /\ Load(o) => Moves(o, "bind") /\ ops'[o].load /\ ops'[o].after = ops[o].after
         /\ LoadBound(o) => /\ Moves(o, "log") /\ ops'[o].after = ops[o].after /\ (ops'[o].load <=> ops[o].load)
                            /\ ops'[o].inst = ops[o].inst
         /\ AttachLive(o) => /\ Moves(o, "done") /\ (ops'[o].load <=> ops[o].load)
         /\ ReplayDone(o) => /\ Moves(o, "done") /\ (ops'[o].load <=> ops[o].load)
         /\ ReplaySend(o) /\ Head(Todo(o)) \in Nat =>
               /\ Moves(o, "stream") /\ (ops'[o].load <=> ops[o].load) /\ ops'[o].inst = ops[o].inst
               /\ ops'[o].after = Head(Todo(o)) /\ ops'[o].until = ops[o].until
<1>1. ops \in [Ops -> OpState] /\ ops[o] \in OpState BY DEF Types
<1>2. ASSUME NEW after \in 0..MaxEvents, Attach(o, after)
      PROVE  /\ Moves(o, "log") /\ ops'[o].after = after /\ (ops'[o].load <=> ops[o].load)
             /\ ops'[o].inst = ops[o].inst
 <2> DEFINE v == [[ops[o] EXCEPT !.pc = "log"] EXCEPT !.after = after]
 <2>1. ops' = [ops EXCEPT ![o] = v] BY <1>1, <1>2 DEF Attach
 <2>2. after \in Nat BY FanoutAssumption
 <2>3. v \in OpState /\ v.pc = "log" /\ v.after = after /\ (v.load <=> ops[o].load) /\ v.inst = ops[o].inst
   BY <1>1, <2>2 DEF OpState
 <2> HIDE DEF v
 <2> QED BY <1>1, <2>1, <2>3, MovesOn
<1>3. ASSUME Load(o) PROVE Moves(o, "bind") /\ ops'[o].load /\ ops'[o].after = ops[o].after
 <2> DEFINE v == [[ops[o] EXCEPT !.pc = "bind"] EXCEPT !.load = TRUE]
 <2>1. ops' = [ops EXCEPT ![o] = v] BY <1>1, <1>3 DEF Load
 <2>3. v \in OpState /\ v.pc = "bind" /\ v.after = ops[o].after /\ v.load BY <1>1 DEF OpState
 <2> HIDE DEF v
 <2> QED BY <1>1, <2>1, <2>3, MovesOn
<1>4. ASSUME NEW pc \in {"none", "bind", "log", "wait", "snap", "stream", "done"}, ops' = [ops EXCEPT ![o].pc = pc]
      PROVE  /\ Moves(o, pc) /\ ops'[o].after = ops[o].after /\ (ops'[o].load <=> ops[o].load)
             /\ ops'[o].inst = ops[o].inst
 <2> DEFINE v == [ops[o] EXCEPT !.pc = pc]
 <2>1. ops' = [ops EXCEPT ![o] = v] BY <1>1, <1>4
 <2>2. v = [ops[o] EXCEPT !.pc = pc] OBVIOUS
 <2> HIDE DEF v
 <2>3. v \in OpState /\ v.pc = pc /\ v.after = ops[o].after /\ (v.load <=> ops[o].load) /\ v.inst = ops[o].inst
   BY <1>1, <2>2, PcChanged
 <2> QED BY <1>1, <2>1, <2>3, MovesOn
<1>5. ASSUME ReplaySend(o), Head(Todo(o)) \in Nat
      PROVE  /\ Moves(o, "stream") /\ (ops'[o].load <=> ops[o].load) /\ ops'[o].inst = ops[o].inst
             /\ ops'[o].after = Head(Todo(o)) /\ ops'[o].until = ops[o].until
 <2> DEFINE n == Head(Todo(o))
            v == [ops[o] EXCEPT !.after = n]
 <2>1. ops' = [ops EXCEPT ![o] = v] /\ ops[o].pc = "stream" /\ n \in Nat BY <1>1, <1>5 DEF ReplaySend
 <2> HIDE DEF n
 <2>3. v \in OpState /\ v.pc = "stream" /\ v.after = n /\ (v.load <=> ops[o].load)
       /\ v.inst = ops[o].inst /\ v.until = ops[o].until BY <1>1, <2>1 DEF OpState
 <2> HIDE DEF v
 <2> QED BY <1>1, <2>1, <2>3, MovesOn DEF n
<1>6. LoadBound(o) => ops' = [ops EXCEPT ![o].pc = "log"] BY DEF LoadBound
<1>7. AttachLive(o) => ops' = [ops EXCEPT ![o].pc = "done"] BY DEF AttachLive
<1>8. ReplayDone(o) => ops' = [ops EXCEPT ![o].pc = "done"] BY DEF ReplayDone
<1> QED BY <1>2, <1>3, <1>4, <1>5, <1>6, <1>7, <1>8

\* A port attaches; its client starts from `after` if it is new.
LEMMA PortAttached ==
  ASSUME Types, NEW p \in Ports, NEW after \in Nat, AttachPort(p, after)
  PROVE  /\ conn' \in [Ports -> {"new", "attached", "closed"}] /\ base' \in [Ports -> Nat]
         /\ conn[p] # "closed" /\ conn'[p] = "attached"
         /\ conn[p] = "new" => base'[p] = after
         /\ conn[p] # "new" => base'[p] = base[p]
         /\ \A q \in Ports : q # p => conn'[q] = conn[q] /\ base'[q] = base[q] BY DEF AttachPort, Types

LEMMA CalmLog ==
  ASSUME LogInv, \/ FlushDone \/ \E p \in Ports : ClosePort(p)
                 \/ \E o \in Ops : Load(o) \/ AttachLive(o)
  PROVE  LogInv'
<1>1. Types BY DEF LogInv
<1>2. LastOf(disk) \in Nat BY <1>1, LastIsLen, Sizes DEF LogInv
<1>3. \A o \in Ops : PortOf(o) \in Ports BY Requests
<1>4. CASE FlushDone
 <2>1. UNCHANGED <<disk, insts, cur, opening, waiters, ready, ops>> BY <1>4 DEF FlushDone
 <2>2. Types' BY <1>1, <1>4 DEF FlushDone, Types, portVars
 <2> QED BY <2>1, <2>2, LogKept
<1>5. ASSUME NEW o \in Ops, Load(o) PROVE LogInv'
 <2>1. UNCHANGED <<disk, insts, cur, opening, waiters, ready>> BY <1>5 DEF Load, logVars
 <2>2. Moves(o, "bind") /\ ops[o].pc = "none" BY <1>1, <1>5, OpSteps DEF Load, NextOp
 <2>3. AttachPort(PortOf(o), 0) BY <1>5 DEF Load
 <2>4. Types' BY <1>1, <1>3, <1>5, <2>2, <2>3, PortAttached DEF Load, Types, logVars, Moves
 <2>5. \A x \in Ops : ops'[x] = ops[x] \/ (ops[x].pc \in Apart /\ ops'[x].pc \in Apart) BY <2>2 DEF Moves, Apart
 <2> QED BY <2>1, <2>4, <2>5, LogKept
<1>6. ASSUME NEW o \in Ops, AttachLive(o) PROVE LogInv'
 <2>1. UNCHANGED <<disk, insts, cur, opening, waiters, ready>> BY <1>6 DEF AttachLive, logVars
 <2>2. Moves(o, "done") /\ ops[o].pc = "none" BY <1>1, <1>6, OpSteps DEF AttachLive, NextOp
 <2>3. AttachPort(PortOf(o), LastOf(disk)) BY <1>6 DEF AttachLive
 <2>4. Types' BY <1>1, <1>2, <1>3, <1>6, <2>2, <2>3, PortAttached DEF AttachLive, Types, logVars, Moves
 <2>5. \A x \in Ops : ops'[x] = ops[x] \/ (ops[x].pc \in Apart /\ ops'[x].pc \in Apart) BY <2>2 DEF Moves, Apart
 <2> QED BY <2>1, <2>4, <2>5, LogKept
<1>7. ASSUME NEW p \in Ports, ClosePort(p) PROVE LogInv'
 <2>1. UNCHANGED <<disk, insts, cur, opening, waiters, ready, ops>> BY <1>7 DEF ClosePort, logVars
 <2>2. Types' BY <1>1, <1>7 DEF ClosePort, logVars, Types
 <2> QED BY <2>1, <2>2, LogKept
<1> QED BY <1>4, <1>5, <1>6, <1>7

LEMMA AskLog ==
  ASSUME LogInv, \/ EngineFrame
                 \/ \E o \in Ops : LoadBound(o) \/ \E after \in 0..MaxEvents : Attach(o, after)
  PROVE  LogInv'
<1>1. Types /\ Frame \in Callers /\ \A o \in Ops : o \in Callers /\ o # Frame BY Requests DEF LogInv, Callers
<1>2. \A o \in Ops : PortOf(o) \in Ports BY Requests
<1>3. CASE EngineFrame
 <2>1. LogFor(Frame) /\ UNCHANGED <<disk, insts, cur, closing, ops, conn, replaying, held, base, got>>
   BY <1>3 DEF EngineFrame, portVars
 <2>2. Types' BY <1>1, <2>1, LogForTypes DEF Types
 <2> QED BY <1>1, <2>1, <2>2, LogForKept
<1>4. ASSUME NEW o \in Ops, LoadBound(o) PROVE LogInv'
 <2>1. LogFor(o) /\ UNCHANGED <<disk, insts, cur, closing, conn, replaying, held, base, got>> /\ ops[o].pc = "bind"
   BY <1>4 DEF LoadBound, portVars
 <2>2. Moves(o, "log") BY <1>1, <1>4, OpSteps
 <2>3. Types' BY <1>1, <2>1, <2>2, LogForTypes DEF Types, Moves
 <2> QED BY <1>1, <2>1, <2>2, <2>3, LogForKept DEF Moves, Apart
<1>5. ASSUME NEW o \in Ops, NEW after \in 0..MaxEvents, Attach(o, after) PROVE LogInv'
 <2>1. LogFor(o) /\ UNCHANGED <<disk, insts, cur, closing, replaying, held, got>> /\ ops[o].pc = "none"
   BY <1>5 DEF Attach, NextOp
 <2>2. Moves(o, "log") BY <1>1, <1>5, OpSteps
 <2>3. after \in Nat /\ AttachPort(PortOf(o), after) BY <1>5, FanoutAssumption DEF Attach
 <2>4. conn' \in [Ports -> {"new", "attached", "closed"}] /\ base' \in [Ports -> Nat]
   BY <1>1, <1>2, <2>3, PortAttached
 <2>5. Types' BY <1>1, <2>1, <2>2, <2>4, LogForTypes DEF Types, Moves
 <2> QED BY <1>1, <2>1, <2>2, <2>5, LogForKept DEF Moves, Apart
<1> QED BY <1>3, <1>4, <1>5

\* A replay sends the seq behind the last one it sent, as far as its snapshot.
LEMMA TodoNext ==
  ASSUME Types, DiskCounts, NEW o \in Ops
  PROVE  /\ Todo(o) # <<>> => Head(Todo(o)) = ops[o].after + 1 /\ ops[o].after + 1 <= ops[o].until
                              /\ ops[o].after + 1 <= Len(disk)
         /\ Todo(o) = <<>> => \A s \in 1..Len(disk) : s <= ops[o].after \/ ops[o].until < s
<1> DEFINE I == {i \in DOMAIN disk : disk[i] > ops[o].after /\ disk[i] <= ops[o].until}
           a == ops[o].after
           u == ops[o].until
           n == Len(disk)
           t == Todo(o)
<1>1. disk \in Seq(Nat) /\ DOMAIN disk = 1..n /\ n \in Nat /\ a \in Nat /\ u \in Nat
  BY OpTypes, LenProperties DEF Types
<1>2. \A i \in 1..n : disk[i] = i BY DEF DiskCounts
<1>3. I \in SUBSET (1..n) /\ \A i \in 1..n : i \in I <=> a < i /\ i <= u BY <1>1, <1>2
<1>4. t = Sublist(disk, I) BY DEF Todo
<1> HIDE DEF I, a, u, n, t
<1>5. I \in SUBSET (1..Len(disk)) BY <1>3 DEF n
<1>6. /\ t \in Seq(Nat) /\ Len(t) = Cardinality(I) /\ Cardinality(I) \in Nat
      /\ \A i \in I : Rank(I, i) \in 1..Cardinality(I) /\ t[Rank(I, i)] = disk[i]
      /\ \A i, j \in I : i < j => Rank(I, i) < Rank(I, j)
      /\ \A k \in 1..Cardinality(I) : \E i \in I : Rank(I, i) = k /\ t[k] = disk[i]
  BY <1>1, <1>4, <1>5, SublistProperties
<1>7. ASSUME t # <<>> PROVE Head(t) = a + 1 /\ a + 1 <= u /\ a + 1 <= n
 <2>1. Len(t) > 0 /\ 1 \in 1..Cardinality(I) /\ Head(t) = t[1] BY <1>6, <1>7, EmptySeq
 <2>2. PICK i \in I : Rank(I, i) = 1 /\ t[1] = disk[i] BY <1>6, <2>1
 <2>3. i \in 1..n /\ a < i /\ i <= u /\ t[1] = i BY <1>2, <1>3, <2>2
 <2>4. a + 1 \in 1..n /\ a + 1 <= u /\ a + 1 <= i BY <1>1, <2>3
 <2>5. a + 1 \in I BY <1>1, <1>3, <2>4
 <2>6. ~(a + 1 < i)
  <3>1. Rank(I, a + 1) \in 1..Cardinality(I) BY <1>6, <2>5
  <3>2. ~(Rank(I, a + 1) < 1) BY <3>1
  <3> QED BY <1>6, <2>2, <2>5, <3>2
 <2>7. a + 1 = i BY <1>1, <2>3, <2>4, <2>6
 <2> QED BY <2>1, <2>3, <2>4, <2>7
<1>8. ASSUME t = <<>>, NEW s \in 1..n PROVE s <= a \/ u < s
 <2>1. Cardinality(I) = 0 BY <1>6, <1>8, EmptySeq
 <2>2. s \notin I
  <3>1. \A k \in 1..Cardinality(I) : FALSE BY <2>1
  <3> QED BY <1>6, <3>1
 <2>3. s \in Nat /\ ~(a < s /\ s <= u) BY <1>1, <1>3, <2>2
 <2> QED BY <1>1, <2>3
<1> QED BY <1>7, <1>8 DEF a, u, n, t

\* The attaches that waited for the replay: each once.
LEMMA Waiting ==
  ASSUME Types, NEW p \in Ports
  PROVE  /\ WaitingOps(p) \in Seq(Ops)
         /\ \A k \in 1..Len(WaitingOps(p)) : WaitingOps(p)[k] \in Ops /\ PortOf(WaitingOps(p)[k]) = p
                                             /\ ops[WaitingOps(p)[k]].pc = "wait"
         /\ \A j, k \in 1..Len(WaitingOps(p)) : j # k => WaitingOps(p)[j] # WaitingOps(p)[k]
<1> DEFINE I == {k \in 1..MaxRequests : ops[<<p, k>>].pc = "wait"}
           s == [k \in 1..MaxRequests |-> <<p, k>>]
           w == WaitingOps(p)
<1>1. MaxRequests \in Nat BY FanoutAssumption
<1>2. s \in [1..MaxRequests -> Ops] BY Requests
<1>3. s \in Seq(Ops) /\ Len(s) = MaxRequests BY <1>1, <1>2, LenProperties
<1>4. \A k \in 1..MaxRequests : s[k] = <<p, k>> OBVIOUS
<1>5. I \in SUBSET (1..Len(s)) /\ \A k \in I : k \in 1..MaxRequests /\ ops[<<p, k>>].pc = "wait" BY <1>3
<1>6. w = Sublist(s, I) BY DEF WaitingOps
<1> HIDE DEF I, s, w
<1>7. /\ w \in Seq(Ops) /\ Len(w) = Cardinality(I)
      /\ \A k \in 1..Cardinality(I) : \E i \in I : Rank(I, i) = k /\ w[k] = s[i]
  BY <1>3, <1>5, <1>6, SublistProperties
<1>8. ASSUME NEW k \in 1..Len(w) PROVE w[k] \in Ops /\ PortOf(w[k]) = p /\ ops[w[k]].pc = "wait"
 <2>1. PICK i \in I : w[k] = s[i] BY <1>7
 <2>2. i \in 1..MaxRequests /\ ops[<<p, i>>].pc = "wait" /\ w[k] = <<p, i>> BY <1>4, <1>5, <2>1
 <2>3. <<p, i>> \in Ops /\ PortOf(<<p, i>>) = p BY <2>2, Requests
 <2> QED BY <2>2, <2>3
<1>9. ASSUME NEW j \in 1..Len(w), NEW k \in 1..Len(w), w[j] = w[k] PROVE j = k
 <2>1. PICK i \in I : Rank(I, i) = j /\ w[j] = s[i] BY <1>7
 <2>2. PICK l \in I : Rank(I, l) = k /\ w[k] = s[l] BY <1>7
 <2>3. <<p, i>> = <<p, l>> BY <1>4, <1>5, <1>9, <2>1, <2>2
 <2>4. i = l BY <2>3
 <2> QED BY <2>1, <2>2, <2>4
<1> QED BY <1>7, <1>8, <1>9 DEF w

LEMMA ReplaySendLog ==
  ASSUME LogInv, NEW o \in Ops, ReplaySend(o)
  PROVE  LogInv'
<1>1. Types /\ DiskCounts BY DEF LogInv
<1>2. /\ UNCHANGED <<disk, insts, cur, opening, closing, waiters, ready, conn, replaying, held, base>>
      /\ ops[o].pc = "stream" /\ Todo(o) # <<>> BY DEF ReplaySend, logVars
<1>3. Head(Todo(o)) \in Nat BY <1>1, <1>2, TodoNext, OpTypes
<1>4. Moves(o, "stream") /\ ops'[o].inst = ops[o].inst BY <1>1, <1>3, OpSteps
<1>5. got' \in [Ports -> Seq(Nat)]
 <2>1. \A p \in Ports : Append(got[p], Head(Todo(o))) \in Seq(Nat) BY <1>1, <1>3, AppendProperties DEF Types
 <2>2. PortOf(o) \in Ports /\ got \in [Ports -> Seq(Nat)] BY <1>1, Requests DEF Types
 <2>3. \/ got' = [got EXCEPT ![PortOf(o)] = Append(got[PortOf(o)], Head(Todo(o)))]
       \/ got' = got BY DEF ReplaySend
 <2> QED BY <2>1, <2>2, <2>3
<1>6. Types' BY <1>1, <1>2, <1>4, <1>5 DEF Types, Moves
<1>7. \A x \in Ops : ops'[x] = ops[x] \/ (ops'[x].pc = ops[x].pc /\ ops'[x].inst = ops[x].inst)
  BY <1>2, <1>4 DEF Moves
<1> QED BY <1>2, <1>6, <1>7, LogKept

LEMMA ReplayDoneLog ==
  ASSUME LogInv, NEW o \in Ops, ReplayDone(o)
  PROVE  LogInv'
<1> DEFINE p == PortOf(o)
           w == WaitingOps(p)
<1>0. Types /\ DiskCounts /\ OneWriter /\ Listed /\ Snapping /\ p \in Ports BY Requests DEF LogInv
<1>1. /\ UNCHANGED <<disk, insts, cur, opening, closing, waiters, conn, base>>
      /\ ops[o].pc = "stream" /\ ready = <<>> /\ ready' = ready \o w BY DEF ReplayDone, logVars, Idle
<1>2. /\ w \in Seq(Ops)
      /\ \A k \in 1..Len(w) : w[k] \in Ops /\ ops[w[k]].pc = "wait"
      /\ \A j, k \in 1..Len(w) : j # k => w[j] # w[k] BY <1>0, Waiting
<1>3. ready' = w /\ \A k \in 1..Len(ready) : FALSE BY <1>1, <1>2, EmptySeq
<1>4. Moves(o, "done") BY <1>0, OpSteps
<1>5. got' \in [Ports -> Seq(Nat)] /\ held' \in [Ports -> Seq(Nat)] /\ replaying' \in [Ports -> Ops \cup {NoOp}]
 <2>1. got \in [Ports -> Seq(Nat)] /\ held \in [Ports -> Seq(Nat)] /\ replaying \in [Ports -> Ops \cup {NoOp}]
       /\ got[p] \in Seq(Nat) /\ held[p] \in Seq(Nat) BY <1>0 DEF Types
 <2>2. Newer(o) \in Seq(Nat)
  <3>1. {i \in DOMAIN held[p] : held[p][i] > ops[o].until} \in SUBSET (1..Len(held[p])) BY <2>1, LenProperties
  <3> QED BY <2>1, <3>1, SublistProperties DEF Newer
 <2>3. got[p] \o Newer(o) \in Seq(Nat) BY <2>1, <2>2, ConcatProperties
 <2>4. got' = [got EXCEPT ![p] = got[p] \o Newer(o)] \/ got' = got BY DEF ReplayDone
 <2>5. held' = [held EXCEPT ![p] = <<>>] /\ replaying' = [replaying EXCEPT ![p] = NoOp] BY DEF ReplayDone
 <2>6. <<>> \in Seq(Nat) BY EmptySeq
 <2> QED BY <2>1, <2>3, <2>4, <2>5, <2>6
<1> HIDE DEF p, w
<1>6. Types'
 <2>1. ready' \in Seq(Callers)
  <3>1. ready' \in Seq(Ops) BY <1>2, <1>3
  <3>2. Len(ready') \in Nat /\ (\A k \in 1..Len(ready') : ready'[k] \in Callers)
        /\ ready' = [k \in 1..Len(ready') |-> ready'[k]] BY <3>1, LenProperties, ElementOfSeq DEF Callers
  <3> QED BY <3>2, SeqDef
 <2> QED BY <1>0, <1>1, <1>4, <1>5, <2>1 DEF Types, Moves
<1>7. \A k \in 1..Len(w) : w[k] # o /\ w[k] # Frame /\ ops'[w[k]] = ops[w[k]] BY <1>1, <1>2, <1>4, Requests DEF Moves
<1>8. \A k \in 1..Len(waiters) : waiters[k] # Frame => waiters[k] \in Ops /\ waiters[k] # o
  BY <1>0, <1>1, Sizes DEF Listed, Callers
<1>9. OneWriter' BY <1>0, <1>1, <1>2, <1>3, <1>7 DEF OneWriter
<1>10. Listed'
 <2>1. \A k \in 1..Len(ready') : ready'[k] # Frame => ops'[ready'[k]].pc \in {"log", "wait"} BY <1>2, <1>3, <1>7
 <2>2. \A j, k \in 1..Len(ready') : j # k /\ ready'[j] # Frame => ready'[j] # ready'[k] BY <1>2, <1>3
 <2>3. \A k \in 1..Len(waiters') : waiters'[k] # Frame => ops'[waiters'[k]].pc = "log"
   BY <1>0, <1>1, <1>4, <1>8 DEF Listed, Moves
 <2>4. \A x \in Ops : ops'[x].pc = "log" => \E k \in 1..Len(waiters') : waiters'[k] = x
   BY <1>0, <1>1, <1>3, <1>4 DEF Listed, Moves
 <2> QED BY <1>0, <1>1, <2>1, <2>2, <2>3, <2>4 DEF Listed
<1>11. Snapping'
 <2>1. ASSUME NEW i \in 1..Len(insts) PROVE Snapped(insts[i], i, ops')
  <3>1. Snapped(insts[i], i, ops) /\ insts[i] \in Instance BY <1>0, Sizes DEF Snapping
  <3>2. \A k \in Snaps(insts[i]) : insts[i].queue[k].op \in Ops BY <3>1, InstanceParts, TaskKinds DEF Snaps
  <3> QED BY <1>1, <1>4, <3>1, <3>2 DEF Snapped, Moves
 <2>2. \A x \in Ops : ops'[x].pc \in {"wait", "snap", "stream"} => ops'[x].inst \in 1..Len(insts)
   BY <1>0, <1>4 DEF Snapping, Moves
 <2> QED BY <1>1, <2>1, <2>2 DEF Snapping
<1> QED BY <1>0, <1>1, <1>6, <1>9, <1>10, <1>11 DEF LogInv, DiskCounts

\* The write that ends is of the open instance, and of the next seq.
LEMMA Written ==
  ASSUME LogInv, NEW i \in DOMAIN insts, WriteDone(i)
  PROVE  /\ i = cur /\ i \in 1..Len(insts) /\ Head(insts[i].queue).seq = Len(disk) + 1
         /\ disk' = Append(disk, Len(disk) + 1) /\ disk' \in Seq(Nat)
         /\ Len(disk') = Len(disk) + 1 /\ disk'[Len(disk) + 1] = Len(disk) + 1
         /\ \A k \in 1..Len(disk) : disk'[k] = disk[k]
         /\ insts[i].queue # <<>> /\ Head(insts[i].queue).kind = "write"
<1>1. Types /\ OneWriter /\ Len(disk) \in Nat /\ i \in 1..Len(insts) /\ insts[i] \in Instance
  BY Sizes, LenProperties DEF LogInv, Types
<1>2. insts[i].queue # <<>> /\ Head(insts[i].queue).kind = "write" BY DEF WriteDone, Busy
<1>3. 1 \in Writes(insts[i]) BY <1>1, <1>2, InstanceParts, Served DEF Writes
<1>4. i = cur /\ cur # 0 /\ insts[i].writtenSeq = Len(disk) /\ Numbered(insts[i])
 <2>1. i # 0 BY <1>1
 <2> QED BY <1>1, <1>3, <2>1 DEF OneWriter
<1>5. Head(insts[i].queue).seq = Len(disk) + 1
 <2>1. PICK v \in Instance : /\ Turned(i, v) /\ v.lastSeq = insts[i].lastSeq
                             /\ v.writtenSeq = Head(insts[i].queue).seq /\ v.queue = Tail(insts[i].queue)
   BY <1>1, InstSteps
 <2> QED BY <1>1, <1>2, <1>4, <2>1, NumberedServed
<1>6. disk' = Append(disk, Len(disk) + 1) BY <1>5 DEF WriteDone
<1>7. disk \in Seq(Nat) /\ Len(disk) + 1 \in Nat BY <1>1 DEF Types
<1> QED BY <1>1, <1>2, <1>4, <1>5, <1>6, <1>7, AppendProperties

LEMMA WriteDoneLog ==
  ASSUME LogInv, NEW i \in DOMAIN insts, WriteDone(i)
  PROVE  LogInv'
<1> DEFINE n == Len(disk)
<1>0. Types /\ DiskCounts /\ OneWriter /\ Listed /\ Snapping BY DEF LogInv
<1>1. /\ i = cur /\ i \in 1..Len(insts) /\ Head(insts[i].queue).seq = n + 1
      /\ disk' \in Seq(Nat) /\ Len(disk') = n + 1 /\ disk'[n + 1] = n + 1
      /\ \A k \in 1..n : disk'[k] = disk[k]
      /\ insts[i].queue # <<>> /\ Head(insts[i].queue).kind = "write" /\ i # 0
 <2>1. \A k \in 1..Len(insts) : k # 0 OBVIOUS
 <2> QED BY <2>1, Written
<1>2. PICK v \in Instance : /\ Turned(i, v) /\ v.closed = insts[i].closed /\ v.lastSeq = insts[i].lastSeq
                            /\ v.writtenSeq = Head(insts[i].queue).seq /\ v.queue = Tail(insts[i].queue)
  BY <1>0, <1>1, InstSteps
<1>3. /\ insts' \in Seq(Instance) /\ Len(insts') = Len(insts) /\ insts'[i] = v
      /\ \A j \in 1..Len(insts) : j # i => insts'[j] = insts[j] BY <1>2 DEF Turned
<1>4. /\ ready = <<>> /\ UNCHANGED <<cur, opening, closing, waiters, ready, conn, replaying, base, ops>>
      /\ \A k \in 1..Len(ready) : FALSE BY EmptySeq DEF WriteDone, Idle
<1>5. n \in Nat /\ Numbered(insts[cur]) /\ insts[i] \in Instance BY <1>0, <1>1, Sizes DEF OneWriter
<1>6. /\ Numbered(v)
      /\ \A k \in Snaps(v) : k + 1 \in Snaps(insts[i]) /\ v.queue[k] = insts[i].queue[k + 1]
      /\ \A k \in 1..Len(v.queue) : k \in Nat BY <1>1, <1>2, <1>5, NumberedServed
<1>7. Types'
 <2>1. held' \in [Ports -> Seq(Nat)] /\ got' \in [Ports -> Seq(Nat)]
  <3>1. \A p \in Ports : /\ Append(held[p], n + 1) \in Seq(Nat) /\ held[p] \in Seq(Nat)
                         /\ Append(got[p], n + 1) \in Seq(Nat) /\ got[p] \in Seq(Nat)
    BY <1>0, <1>5, AppendProperties DEF Types
  <3>2. /\ held' = [p \in Ports |-> IF conn[p] = "attached" /\ Held(p) THEN Append(held[p], n + 1) ELSE held[p]]
        /\ got' = [p \in Ports |-> IF conn[p] = "attached" /\ ~Held(p) THEN Append(got[p], n + 1) ELSE got[p]]
    BY <1>1 DEF WriteDone
  <3> QED BY <3>1, <3>2
 <2> QED BY <1>0, <1>1, <1>3, <1>4, <2>1 DEF Types
<1>8. DiskCounts'
 <2>1. \A k \in 1..(n + 1) : k \in 1..n \/ k = n + 1 BY <1>5
 <2> QED BY <1>0, <1>1, <2>1 DEF DiskCounts
<1>9. OneWriter'
 <2>1. \A j \in 1..Len(insts) : insts[j].writtenSeq \in Nat /\ insts[j].writtenSeq <= n
                                /\ (j # cur => Writes(insts[j]) = {}) BY <1>0, Sizes DEF OneWriter
 <2>2. \A j \in 1..Len(insts) : insts'[j].writtenSeq <= n + 1 /\ (j # cur => Writes(insts'[j]) = {})
  <3>1. ASSUME NEW j \in 1..Len(insts), j # i PROVE insts'[j].writtenSeq <= n + 1 /\ Writes(insts'[j]) = {}
   <4>1. insts'[j] = insts[j] /\ insts[j].writtenSeq \in Nat /\ insts[j].writtenSeq <= n /\ Writes(insts[j]) = {}
     BY <1>1, <1>3, <2>1, <3>1
   <4> QED BY <1>5, <4>1
  <3>2. insts'[i].writtenSeq <= n + 1 BY <1>1, <1>2, <1>3, <1>5
  <3> QED BY <1>1, <3>1, <3>2
 <2>3. ~insts'[cur].closed /\ insts'[cur].writtenSeq = n + 1 /\ Numbered(insts'[cur])
   BY <1>0, <1>1, <1>2, <1>3, <1>6 DEF OneWriter
 <2> QED BY <1>0, <1>1, <1>3, <1>4, <2>2, <2>3 DEF OneWriter
<1>10. Listed' BY <1>0, <1>4 DEF Listed
<1>11. Snapping'
 <2>1. Snapped(v, i, ops')
  <3>1. Snapped(insts[i], i, ops) /\ ops' = ops BY <1>0, <1>1, <1>4 DEF Snapping
  <3>2. \A j, k \in Snaps(v) : j # k => j + 1 # k + 1
   <4>1. \A k \in Snaps(v) : k \in Nat BY <1>6 DEF Snaps
   <4> QED BY <4>1
  <3> QED BY <1>6, <3>1, <3>2 DEF Snapped
 <2>2. \A j \in 1..Len(insts') : Snapped(insts'[j], j, ops') BY <1>0, <1>3, <1>4, <2>1 DEF Snapping
 <2> QED BY <1>0, <1>3, <1>4, <2>2 DEF Snapping
<1> QED BY <1>7, <1>8, <1>9, <1>10, <1>11 DEF LogInv

\* The snapshot served is that of a replay that waits for it.
LEMMA Snapshotted ==
  ASSUME LogInv, NEW i \in DOMAIN insts, Snapshot(i)
  PROVE  LET o == Head(insts[i].queue).op IN
         /\ i \in 1..Len(insts) /\ insts[i].queue # <<>> /\ 1 \in Snaps(insts[i])
         /\ Head(insts[i].queue) = insts[i].queue[1] /\ Head(insts[i].queue).kind = "snap"
         /\ o \in Ops /\ ops[o].pc = "snap" /\ ops[o].inst = i
         /\ Moves(o, "stream") /\ ops'[o].inst = i /\ ops'[o].after = ops[o].after
         /\ ops'[o].until = insts[i].writtenSeq /\ (ops'[o].load <=> ops[o].load)
         /\ \A j \in 1..Len(insts) : insts'[j].writtenSeq = insts[j].writtenSeq
<1> DEFINE o == Head(insts[i].queue).op
           u == insts[i].writtenSeq
<1>1. Types /\ Snapping /\ i \in 1..Len(insts) /\ insts[i] \in Instance BY Sizes, LenProperties DEF LogInv, Types
<1>2. insts[i].queue # <<>> /\ Head(insts[i].queue).kind = "snap" BY DEF Snapshot, Busy
<1>3. 1 \in Snaps(insts[i]) /\ Head(insts[i].queue) = insts[i].queue[1] /\ o \in Ops
  BY <1>1, <1>2, InstanceParts, Served, TaskKinds DEF Snaps
<1>4. ops[o].pc = "snap" /\ ops[o].inst = i BY <1>1, <1>3 DEF Snapping, Snapped
<1>5. Moves(o, "stream") /\ ops'[o].inst = i /\ ops'[o].after = ops[o].after
      /\ ops'[o].until = u /\ (ops'[o].load <=> ops[o].load)
 <2> DEFINE v == [[ops[o] EXCEPT !.pc = "stream"] EXCEPT !.until = u]
 <2>1. u \in Nat /\ ops \in [Ops -> OpState] /\ ops[o] \in OpState BY <1>1, <1>3, Sizes DEF Types
 <2>2. ops' = [ops EXCEPT ![o] = v] BY <1>3, <2>1 DEF Snapshot, Until
 <2> HIDE DEF o, u
 <2>3. v \in OpState /\ v.pc = "stream" /\ v.inst = ops[o].inst /\ v.after = ops[o].after
       /\ v.until = u /\ (v.load <=> ops[o].load) BY <2>1 DEF OpState
 <2> HIDE DEF v
 <2> QED BY <1>3, <1>4, <2>1, <2>2, <2>3, MovesOn
<1>6. \A j \in 1..Len(insts) : insts'[j].writtenSeq = insts[j].writtenSeq
 <2>1. PICK v \in Instance : Turned(i, v) /\ v.writtenSeq = insts[i].writtenSeq BY <1>1, InstSteps
 <2> QED BY <2>1 DEF Turned
<1> QED BY <1>1, <1>2, <1>3, <1>4, <1>5, <1>6

LEMMA SnapshotLog ==
  ASSUME LogInv, NEW i \in DOMAIN insts, Snapshot(i)
  PROVE  LogInv'
<1> DEFINE o == Head(insts[i].queue).op
<1>0. Types /\ DiskCounts /\ OneWriter /\ Listed /\ Snapping BY DEF LogInv
<1>1. /\ i \in 1..Len(insts) /\ insts[i].queue # <<>> /\ 1 \in Snaps(insts[i])
      /\ insts[i].queue[1].op = o /\ Head(insts[i].queue).kind = "snap"
      /\ o \in Ops /\ ops[o].pc = "snap" /\ ops[o].inst = i
      /\ Moves(o, "stream") /\ ops'[o].inst = i BY Snapshotted
<1> HIDE DEF o
<1>2. PICK v \in Instance : /\ Turned(i, v) /\ v.closed = insts[i].closed /\ v.lastSeq = insts[i].lastSeq
                            /\ v.writtenSeq = insts[i].writtenSeq /\ v.queue = Tail(insts[i].queue)
  BY <1>0, <1>1, InstSteps
<1>3. /\ insts' \in Seq(Instance) /\ Len(insts') = Len(insts) /\ insts'[i] = v
      /\ \A j \in 1..Len(insts) : j # i => insts'[j] = insts[j] BY <1>2 DEF Turned
<1>4. /\ ready = <<>> /\ UNCHANGED <<disk, cur, opening, closing, waiters, ready, conn, replaying, held, base, got>>
      /\ \A k \in 1..Len(ready) : FALSE BY EmptySeq DEF Snapshot, Idle, portVars
<1>5. insts[i] \in Instance BY <1>0, <1>1, Sizes
<1>6. /\ Numbered(insts[i]) => Numbered(v)
      /\ \A k \in Writes(v) : k + 1 \in Writes(insts[i])
      /\ \A k \in Snaps(v) : k + 1 \in Snaps(insts[i]) /\ v.queue[k] = insts[i].queue[k + 1]
      /\ \A k \in 1..Len(v.queue) : k \in Nat BY <1>1, <1>2, <1>5, NumberedServed
<1>7. Types' BY <1>0, <1>1, <1>3, <1>4 DEF Types, Moves
<1>8. OneWriter'
 <2>1. \A j \in 1..Len(insts) : insts[j].writtenSeq <= Len(disk) /\ (j # cur => Writes(insts[j]) = {})
   BY <1>0 DEF OneWriter
 <2>2. \A j \in 1..Len(insts) : insts'[j].writtenSeq <= Len(disk) /\ (j # cur => Writes(insts'[j]) = {})
  <3>1. \A j \in 1..Len(insts) : j # i => insts'[j].writtenSeq <= Len(disk) /\ (j # cur => Writes(insts'[j]) = {})
    BY <1>3, <2>1
  <3>2. insts'[i].writtenSeq <= Len(disk) /\ (i # cur => Writes(insts'[i]) = {}) BY <1>1, <1>2, <1>3, <1>6, <2>1
  <3> QED BY <3>1, <3>2
 <2>3. cur # 0 => ~insts'[cur].closed /\ insts'[cur].writtenSeq = Len(disk) /\ Numbered(insts'[cur])
  <3>1. cur # 0 => /\ cur \in 1..Len(insts) /\ ~insts[cur].closed /\ insts[cur].writtenSeq = Len(disk)
                   /\ Numbered(insts[cur]) BY <1>0, Sizes DEF OneWriter
  <3> QED BY <1>2, <1>3, <1>6, <3>1
 <2> QED BY <1>0, <1>3, <1>4, <2>2, <2>3 DEF OneWriter
<1>9. Listed'
 <2>1. \A k \in 1..Len(waiters) : waiters[k] # Frame => waiters[k] \in Ops /\ waiters[k] # o
   BY <1>0, <1>1, Sizes DEF Listed, Callers
 <2>2. \A k \in 1..Len(waiters') : waiters'[k] # Frame => ops'[waiters'[k]].pc = "log"
   BY <1>0, <1>1, <1>4, <2>1 DEF Listed, Moves
 <2>3. \A x \in Ops : ops'[x].pc = "log" => \/ \E k \in 1..Len(ready') : ready'[k] = x
                                            \/ \E k \in 1..Len(waiters') : waiters'[k] = x
   BY <1>0, <1>1, <1>4 DEF Listed, Moves
 <2> QED BY <1>0, <1>4, <2>2, <2>3 DEF Listed
<1>10. Snapping'
 <2>1. \A k \in Snaps(v) : k \in Nat /\ k + 1 # 1
  <3>1. \A k \in Snaps(v) : k \in 1..Len(v.queue) BY DEF Snaps
  <3> QED BY <3>1
 <2>2. Snapped(insts[i], i, ops) BY <1>0, <1>1 DEF Snapping
 <2>3. \A k \in Snaps(v) : v.queue[k].op \in Ops /\ v.queue[k].op # o
  <3>1. \A k \in Snaps(insts[i]) : insts[i].queue[k].op \in Ops /\ (k # 1 => insts[i].queue[k].op # o)
    BY <1>1, <1>5, <2>2, InstanceParts, TaskKinds DEF Snaps, Snapped
  <3> QED BY <1>6, <2>1, <3>1
 <2>4. Snapped(v, i, ops')
  <3>1. \A j, k \in Snaps(v) : j # k => j + 1 # k + 1 BY <2>1
  <3> QED BY <1>1, <1>6, <2>2, <2>3, <3>1 DEF Snapped, Moves
 <2>5. ASSUME NEW j \in 1..Len(insts), j # i PROVE Snapped(insts[j], j, ops')
  <3>1. Snapped(insts[j], j, ops) /\ insts[j] \in Instance BY <1>0, Sizes DEF Snapping
  <3>2. \A k \in Snaps(insts[j]) : insts[j].queue[k].op \in Ops BY <3>1, InstanceParts, TaskKinds DEF Snaps
  <3>3. \A k \in Snaps(insts[j]) : insts[j].queue[k].op # o BY <1>1, <2>5, <3>1 DEF Snapped
  <3> QED BY <1>1, <3>1, <3>2, <3>3 DEF Snapped, Moves
 <2>6. \A j \in 1..Len(insts') : Snapped(insts'[j], j, ops') BY <1>3, <2>4, <2>5
 <2>7. \A x \in Ops : ops'[x].pc \in {"wait", "snap", "stream"} => ops'[x].inst \in 1..Len(insts)
   BY <1>0, <1>1 DEF Snapping, Moves
 <2> QED BY <1>3, <2>6, <2>7 DEF Snapping
<1> QED BY <1>0, <1>4, <1>7, <1>8, <1>9, <1>10 DEF LogInv, DiskCounts

\* The attach that goes on: it replays, or waits for the port's replay.
LEMMA Started ==
  ASSUME LogInv, StartReplay
  PROVE  \E o \in Ops, i \in 1..Len(insts) :
            /\ ready # <<>> /\ o = Head(ready) /\ o = ready[1] /\ 1 \in 1..Len(ready) /\ ready' = Tail(ready)
            /\ ops[o].pc \in {"log", "wait"} /\ (ops[o].pc = "log" => i = cur)
            /\ (ops[o].pc = "wait" => i = ops[o].inst)
            /\ ops'[o].inst = i /\ ops'[o].after = ops[o].after /\ (ops'[o].load <=> ops[o].load)
            /\ \/ /\ replaying[PortOf(o)] = NoOp /\ Moves(o, "snap")
                  /\ replaying' = [replaying EXCEPT ![PortOf(o)] = o]
                  /\ held' = [held EXCEPT ![PortOf(o)] = <<>>]
                  /\ \E v \in Instance :
                        /\ Turned(i, v) /\ v.closed = insts[i].closed /\ v.lastSeq = insts[i].lastSeq
                        /\ v.writtenSeq = insts[i].writtenSeq
                        /\ v.queue = Append(insts[i].queue, [kind |-> "snap", op |-> o])
               \/ /\ replaying[PortOf(o)] # NoOp /\ Moves(o, "wait")
                  /\ UNCHANGED <<replaying, held, insts>>
<1> DEFINE o == Head(ready)
           i == IF ops[o].pc = "log" THEN cur ELSE ops[o].inst
           p == PortOf(o)
           t == [kind |-> "snap", op |-> o]
           v == [insts[i] EXCEPT !.queue = Append(insts[i].queue, t)]
<1>0. Types /\ OneWriter /\ Listed /\ Snapping BY DEF LogInv
<1>1. ready # <<>> /\ o # Frame /\ ready' = Tail(ready) BY DEF StartReplay, Idle
<1>2. o = ready[1] /\ 1 \in 1..Len(ready) /\ o \in Callers
 <2>1. ready \in Seq(Callers) BY <1>0 DEF Types
 <2> QED BY <1>1, <2>1, Served
<1>3. o \in Ops /\ ops[o].pc \in {"log", "wait"} BY <1>0, <1>1, <1>2 DEF Callers, Listed
<1>4. i \in 1..Len(insts)
 <2>1. CASE ops[o].pc = "log" BY <1>0, <1>2, <2>1, Sizes DEF OneWriter
 <2>2. CASE ops[o].pc = "wait" BY <1>0, <1>3, <2>2 DEF Snapping
 <2> QED BY <1>3, <2>1, <2>2
<1>5. /\ ops \in [Ops -> OpState] /\ ops[o] \in OpState /\ i \in Nat
      /\ insts \in Seq(Instance) /\ insts[i] \in Instance /\ insts[i].queue \in Seq(Task)
  BY <1>0, <1>3, <1>4, Sizes DEF Types
<1>6. CASE replaying[p] = NoOp
 <2>1. /\ replaying' = [replaying EXCEPT ![p] = o] /\ held' = [held EXCEPT ![p] = <<>>]
       /\ insts' = [insts EXCEPT ![i].queue = Append(@, t)]
       /\ ops' = [ops EXCEPT ![o].pc = "snap", ![o].inst = i] BY <1>6 DEF StartReplay, MayReplay
 <2>2. insts' = [insts EXCEPT ![i] = v] BY <1>4, <1>5, <2>1
 <2>3. t \in Task BY <1>3 DEF Task
 <2>4. Moves(o, "snap") /\ ops'[o].inst = i /\ ops'[o].after = ops[o].after /\ (ops'[o].load <=> ops[o].load)
  <3> DEFINE r == [[ops[o] EXCEPT !.pc = "snap"] EXCEPT !.inst = i]
  <3>1. ops' = [ops EXCEPT ![o] = r] BY <1>3, <1>5, <2>1
  <3> HIDE DEF o, i
  <3>2. r \in OpState /\ r.pc = "snap" /\ r.inst = i /\ r.after = ops[o].after /\ (r.load <=> ops[o].load)
    BY <1>5 DEF OpState
  <3> HIDE DEF r
  <3> QED BY <1>3, <1>5, <3>1, <3>2, MovesOn
 <2>5. ops[o].pc = "log" => i = cur OBVIOUS
 <2>6. ops[o].pc = "wait" => i = ops[o].inst OBVIOUS
 <2> HIDE DEF o, i, t
 <2> DEFINE y == Append(insts[i].queue, t)
 <2>7. y \in Seq(Task) BY <1>5, <2>3, Joined
 <2>8. v = [insts[i] EXCEPT !.queue = y] OBVIOUS
 <2> HIDE DEF v, y
 <2>9. v \in Instance /\ v.lastSeq = insts[i].lastSeq /\ v.queue = y
       /\ v.writtenSeq = insts[i].writtenSeq /\ v.closed = insts[i].closed BY <1>5, <2>7, <2>8, QueueChanged
 <2>10. Turned(i, v) BY <1>4, <1>5, <2>2, <2>9, OneInstance DEF Turned
 <2> QED BY <1>1, <1>2, <1>3, <1>4, <1>6, <2>1, <2>9, <2>10, <2>4, <2>5, <2>6 DEF o, t, y
<1>7. CASE replaying[p] # NoOp
 <2>1. UNCHANGED <<replaying, held, insts>> /\ ops' = [ops EXCEPT ![o].pc = "wait", ![o].inst = i]
   BY <1>7 DEF StartReplay, MayReplay
 <2>2. Moves(o, "wait") /\ ops'[o].inst = i /\ ops'[o].after = ops[o].after /\ (ops'[o].load <=> ops[o].load)
  <3> DEFINE r == [[ops[o] EXCEPT !.pc = "wait"] EXCEPT !.inst = i]
  <3>1. ops' = [ops EXCEPT ![o] = r] BY <1>3, <1>5, <2>1
  <3> HIDE DEF o, i
  <3>2. r \in OpState /\ r.pc = "wait" /\ r.inst = i /\ r.after = ops[o].after /\ (r.load <=> ops[o].load)
    BY <1>5 DEF OpState
  <3> HIDE DEF r
  <3> QED BY <1>3, <1>5, <3>1, <3>2, MovesOn
 <2>3. ops[o].pc = "log" => i = cur OBVIOUS
 <2>4. ops[o].pc = "wait" => i = ops[o].inst OBVIOUS
 <2> HIDE DEF o, i
 <2> QED BY <1>1, <1>2, <1>3, <1>4, <1>7, <2>1, <2>2, <2>3, <2>4 DEF o
<1> QED BY <1>6, <1>7

LEMMA StartReplayLog == LogInv /\ StartReplay => LogInv'
<1> SUFFICES ASSUME LogInv, StartReplay PROVE LogInv' OBVIOUS
<1>0. Types /\ DiskCounts /\ OneWriter /\ Listed /\ Snapping BY DEF LogInv
<1>1. PICK o \in Ops, i \in 1..Len(insts) :
        /\ ready # <<>> /\ o = ready[1] /\ 1 \in 1..Len(ready) /\ ready' = Tail(ready)
        /\ ops[o].pc \in {"log", "wait"} /\ ops'[o].inst = i
        /\ \/ /\ replaying[PortOf(o)] = NoOp /\ Moves(o, "snap")
              /\ replaying' = [replaying EXCEPT ![PortOf(o)] = o]
              /\ held' = [held EXCEPT ![PortOf(o)] = <<>>]
              /\ \E v \in Instance :
                    /\ Turned(i, v) /\ v.closed = insts[i].closed /\ v.lastSeq = insts[i].lastSeq
                    /\ v.writtenSeq = insts[i].writtenSeq
                    /\ v.queue = Append(insts[i].queue, [kind |-> "snap", op |-> o])
           \/ /\ replaying[PortOf(o)] # NoOp /\ Moves(o, "wait")
              /\ UNCHANGED <<replaying, held, insts>> BY Started
<1>2. UNCHANGED <<disk, cur, opening, closing, waiters, conn, base, got>> BY DEF StartReplay
<1>3. /\ Tail(ready) \in Seq(Callers)
      /\ \A k \in 1..Len(ready') : k + 1 \in 1..Len(ready) /\ k + 1 # 1 /\ ready'[k] = ready[k + 1]
      /\ \A k \in 1..Len(ready) : k = 1 \/ (k - 1 \in 1..Len(ready') /\ ready'[k - 1] = ready[k])
 <2>1. ready \in Seq(Callers) BY <1>0 DEF Types
 <2> QED BY <1>1, <2>1, Served
<1>4. /\ PortOf(o) \in Ports /\ o # Frame /\ ops' \in [Ops -> OpState] /\ ops'[o].pc \in {"snap", "wait"}
      /\ \A x \in Ops : x # o => ops'[x] = ops[x] BY <1>1, Requests DEF Moves
<1>5. \A k \in 1..Len(ready') : /\ ready'[k] # o /\ (ready'[k] = Frame \/ ready'[k] \in Ops)
                                /\ (ready'[k] # Frame => ops'[ready'[k]] = ops[ready'[k]])
 <2>1. \A k \in 1..Len(ready) : k # 1 => ready[k] # o BY <1>0, <1>1, <1>4 DEF Listed
 <2>2. \A k \in 1..Len(ready) : ready[k] = Frame \/ ready[k] \in Ops BY <1>0, Sizes DEF Callers
 <2>3. ASSUME NEW k \in 1..Len(ready')
       PROVE  /\ ready'[k] # o /\ (ready'[k] = Frame \/ ready'[k] \in Ops)
              /\ (ready'[k] # Frame => ops'[ready'[k]] = ops[ready'[k]])
  <3>1. k + 1 \in 1..Len(ready) /\ k + 1 # 1 /\ ready'[k] = ready[k + 1] BY <1>3
  <3>2. ready[k + 1] # o /\ (ready[k + 1] = Frame \/ ready[k + 1] \in Ops) BY <2>1, <2>2, <3>1
  <3> QED BY <1>4, <3>1, <3>2
 <2> QED BY <2>3
<1>6. replaying' \in [Ports -> Ops \cup {NoOp}] /\ held' \in [Ports -> Seq(Nat)]
 <2>1. <<>> \in Seq(Nat) BY EmptySeq
 <2> QED
  <3>1. /\ replaying \in [Ports -> Ops \cup {NoOp}] /\ held \in [Ports -> Seq(Nat)]
        /\ PortOf(o) \in Ports BY <1>0, <1>4 DEF Types
  <3>2. CASE UNCHANGED <<replaying, held>> BY <3>1, <3>2
  <3>3. CASE /\ replaying' = [replaying EXCEPT ![PortOf(o)] = o]
             /\ held' = [held EXCEPT ![PortOf(o)] = <<>>]
   <4>1. replaying' \in [Ports -> Ops \cup {NoOp}] BY <3>1, <3>3
   <4>2. held' \in [Ports -> Seq(Nat)] BY <2>1, <3>1, <3>3
   <4> QED BY <4>1, <4>2
  <3> QED BY <1>1, <3>2, <3>3
<1>7. /\ insts' \in Seq(Instance) /\ Len(insts') = Len(insts)
      /\ \A j \in 1..Len(insts) : /\ insts'[j].closed = insts[j].closed /\ insts'[j].lastSeq = insts[j].lastSeq
                                  /\ insts'[j].writtenSeq = insts[j].writtenSeq
                                  /\ Writes(insts'[j]) = Writes(insts[j])
                                  /\ (Numbered(insts[j]) => Numbered(insts'[j]))
                                  /\ Snapped(insts'[j], j, ops')
 <2>1. \A j \in 1..Len(insts) : insts[j] \in Instance /\ Snapped(insts[j], j, ops) BY <1>0, Sizes DEF Snapping
 <2>2. \A j \in 1..Len(insts) : \A k \in Snaps(insts[j]) : insts[j].queue[k].op \in Ops
   BY <2>1, InstanceParts, TaskKinds DEF Snaps
 <2>3. \A j \in 1..Len(insts) : \A k \in Snaps(insts[j]) : insts[j].queue[k].op # o BY <1>1, <2>1 DEF Snapped
 <2>4. \A j \in 1..Len(insts) : Snapped(insts[j], j, ops') BY <1>4, <2>1, <2>2, <2>3 DEF Snapped
 <2>5. CASE insts' = insts BY <1>0, <2>4, <2>5 DEF Types
 <2>6. CASE Moves(o, "snap") /\ insts' # insts
  <3>0. PICK v \in Instance :
          /\ Turned(i, v) /\ v.closed = insts[i].closed /\ v.lastSeq = insts[i].lastSeq
          /\ v.writtenSeq = insts[i].writtenSeq
          /\ v.queue = Append(insts[i].queue, [kind |-> "snap", op |-> o]) BY <1>1, <2>6
  <3> DEFINE t == [kind |-> "snap", op |-> o]
             n == Len(insts[i].queue) + 1
  <3>1. t \in Task /\ t.kind = "snap" /\ t.op = o BY DEF Task
  <3>2. v.queue = Append(insts[i].queue, t) BY <3>0
  <3> HIDE DEF t
  <3>3. /\ Writes(v) = Writes(insts[i]) /\ Snaps(v) = Snaps(insts[i]) \cup {n}
        /\ \A k \in 1..Len(insts[i].queue) : v.queue[k] = insts[i].queue[k]
        /\ v.queue[n] = t
        /\ Numbered(insts[i]) => Numbered(v) BY <2>1, <3>0, <3>1, <3>2, NumberedSnap
  <3>4. \A k \in Snaps(insts[i]) : k \in 1..Len(insts[i].queue) BY DEF Snaps
  <3> HIDE DEF n
  <3>5. Snapped(v, i, ops')
   <4>1. \A k \in Snaps(v) : k = n \/ (k \in Snaps(insts[i]) /\ v.queue[k] = insts[i].queue[k]) BY <3>3, <3>4
   <4>2. ops'[o].pc = "snap" /\ ops'[o].inst = i /\ v.queue[n].op = o BY <1>1, <2>6, <3>1, <3>3 DEF Moves
   <4> QED BY <2>3, <2>4, <4>1, <4>2 DEF Snapped
  <3>6. /\ insts' \in Seq(Instance) /\ Len(insts') = Len(insts) /\ insts'[i] = v
        /\ \A j \in 1..Len(insts) : j # i => insts'[j] = insts[j] BY <3>0 DEF Turned
  <3> QED BY <2>4, <3>0, <3>3, <3>5, <3>6
 <2> QED BY <1>1, <2>5, <2>6
<1>8. Types'
 <2>1. /\ disk' \in Seq(Nat) /\ cur' \in Nat /\ closing' \in Nat /\ opening' \in BOOLEAN
       /\ waiters' \in Seq(Callers) /\ conn' \in [Ports -> {"new", "attached", "closed"}]
       /\ base' \in [Ports -> Nat] /\ got' \in [Ports -> Seq(Nat)] BY <1>0, <1>2 DEF Types
 <2>2. cur' <= Len(insts') /\ closing' <= Len(insts') BY <1>0, <1>2, <1>7 DEF Types
 <2>3. ready' \in Seq(Callers) /\ insts' \in Seq(Instance) /\ ops' \in [Ops -> OpState] BY <1>1, <1>3, <1>4, <1>7
 <2> QED BY <1>6, <2>1, <2>2, <2>3 DEF Types
<1>9. OneWriter'
 <2>1. ASSUME NEW k \in 1..Len(ready'), ready'[k] = Frame \/ ops'[ready'[k]].pc = "log" PROVE cur' # 0
  <3>1. k + 1 \in 1..Len(ready) /\ ready'[k] = ready[k + 1] BY <1>3
  <3>2. ready[k + 1] = Frame \/ ops[ready[k + 1]].pc = "log" BY <1>5, <2>1, <3>1
  <3>3. cur # 0 BY <1>0, <3>1, <3>2 DEF OneWriter
  <3> QED BY <1>2, <3>3
 <2>2. \A j \in 1..Len(insts) : insts'[j].writtenSeq <= Len(disk) /\ (j # cur => Writes(insts'[j]) = {})
   BY <1>0, <1>7 DEF OneWriter
 <2>3. cur # 0 => ~insts'[cur].closed /\ insts'[cur].writtenSeq = Len(disk) /\ Numbered(insts'[cur])
  <3>1. cur # 0 => /\ cur \in 1..Len(insts) /\ ~insts[cur].closed /\ insts[cur].writtenSeq = Len(disk)
                   /\ Numbered(insts[cur]) BY <1>0, Sizes DEF OneWriter
  <3> QED BY <1>7, <3>1
 <2> QED BY <1>0, <1>2, <1>7, <2>1, <2>2, <2>3 DEF OneWriter
<1>10. Listed'
 <2>1. \A k \in 1..Len(ready') : ready'[k] # Frame => ops'[ready'[k]].pc \in {"log", "wait"}
  <3>1. \A k \in 1..Len(ready) : ready[k] # Frame => ops[ready[k]].pc \in {"log", "wait"} BY <1>0 DEF Listed
  <3>2. \A k \in 1..Len(ready') : ready'[k] # Frame => ops[ready'[k]].pc \in {"log", "wait"} BY <1>3, <3>1
  <3> QED BY <1>5, <3>2
 <2>2. \A j, k \in 1..Len(ready') : j # k => j + 1 # k + 1 OBVIOUS
 <2>3. \A j, k \in 1..Len(ready') : j # k /\ ready'[j] # Frame => ready'[j] # ready'[k]
  <3>1. \A j, k \in 1..Len(ready) : j # k /\ ready[j] # Frame => ready[j] # ready[k] BY <1>0 DEF Listed
  <3>2. ASSUME NEW j \in 1..Len(ready'), NEW k \in 1..Len(ready'), j # k, ready'[j] # Frame
        PROVE  ready'[j] # ready'[k]
   <4>1. /\ ready'[j] = ready[j + 1] /\ j + 1 \in 1..Len(ready)
         /\ ready'[k] = ready[k + 1] /\ k + 1 \in 1..Len(ready) /\ j + 1 # k + 1 BY <1>3, <2>2, <3>2
   <4> QED BY <3>1, <3>2, <4>1
  <3> QED BY <3>2
 <2>4. \A k \in 1..Len(waiters) : waiters[k] = Frame \/ waiters[k] \in Ops BY <1>0, Sizes DEF Callers
 <2>5. ASSUME NEW k \in 1..Len(waiters) PROVE waiters[k] # o
  <3>1. CASE waiters[k] = o
   <4>1. ops[o].pc = "log" /\ waiters # <<>>
    <5>1. ops[o].pc = "log" BY <1>0, <1>4, <2>5, <3>1 DEF Listed
    <5>2. waiters # <<>> BY <2>5
    <5> QED BY <5>1, <5>2
   <4>2. cur # 0 BY <1>0, <1>1, <4>1 DEF OneWriter
   <4> QED BY <1>0, <4>1, <4>2 DEF OneWriter
  <3> QED BY <3>1
 <2>6. \A k \in 1..Len(waiters') : waiters'[k] # Frame => ops'[waiters'[k]].pc = "log"
   BY <1>0, <1>2, <1>4, <2>4, <2>5 DEF Listed
 <2>7. ASSUME NEW x \in Ops, ops'[x].pc = "log"
       PROVE  \/ \E k \in 1..Len(ready') : ready'[k] = x
              \/ \E k \in 1..Len(waiters') : waiters'[k] = x
  <3>1. x # o /\ ops[x].pc = "log" BY <1>4, <2>7
  <3>2. CASE \E k \in 1..Len(waiters) : waiters[k] = x BY <1>2, <3>2
  <3>3. CASE \E k \in 1..Len(ready) : ready[k] = x
   <4>1. PICK k \in 1..Len(ready) : ready[k] = x BY <3>3
   <4>2. k - 1 \in 1..Len(ready') /\ ready'[k - 1] = x BY <1>1, <1>3, <3>1, <4>1
   <4> QED BY <4>2
  <3> QED BY <1>0, <3>1, <3>2, <3>3 DEF Listed
 <2> QED BY <1>0, <1>2, <2>1, <2>3, <2>6, <2>7 DEF Listed
<1>11. Snapping'
 <2>1. \A x \in Ops : ops'[x].pc \in {"wait", "snap", "stream"} => ops'[x].inst \in 1..Len(insts)
   BY <1>0, <1>1, <1>4 DEF Snapping
 <2> QED BY <1>7, <2>1 DEF Snapping
<1> QED BY <1>0, <1>2, <1>8, <1>9, <1>10, <1>11 DEF LogInv, DiskCounts

\* The log keeps its invariant whatever happens.
LEMMA LogStep == LogInv /\ [FanoutNext]_fanoutVars => LogInv'
<1> SUFFICES ASSUME LogInv, [FanoutNext]_fanoutVars PROVE LogInv' OBVIOUS
<1>1. ASSUME UNCHANGED fanoutVars PROVE LogInv'
 <2>1. UNCHANGED <<disk, insts, cur, opening, closing, waiters, ready, conn, replaying, held, base, got, ops>>
   BY <1>1 DEF fanoutVars, logVars, portVars
 <2>2. Types /\ Types' BY <2>1 DEF LogInv, Types
 <2> QED BY <2>1, <2>2, LogKept
<1>2. CASE OpenDone \/ Evict \/ AppendFrame \/ StartReplay
  BY <1>2, OpenDoneLog, EvictLog, AppendFrameLog, StartReplayLog
<1>3. CASE FlushDone \/ EngineFrame BY <1>3, CalmLog, AskLog
<1>4. ASSUME NEW p \in Ports, ClosePort(p) PROVE LogInv' BY <1>4, CalmLog
<1>5. ASSUME NEW i \in DOMAIN insts, WriteDone(i) \/ Snapshot(i) PROVE LogInv' BY <1>5, WriteDoneLog, SnapshotLog
<1>6. ASSUME NEW o \in Ops,
             \/ \E after \in 0..MaxEvents : Attach(o, after)
             \/ AttachLive(o) \/ Load(o) \/ LoadBound(o) \/ ReplaySend(o) \/ ReplayDone(o)
      PROVE  LogInv' BY <1>6, CalmLog, AskLog, ReplaySendLog, ReplayDoneLog
<1>7. CASE Done BY <1>1, <1>7 DEF Done
<1> QED BY <1>1, <1>2, <1>3, <1>4, <1>5, <1>6, <1>7 DEF FanoutNext

--------------------
\* What a step does to the ports it is not about

LEMMA PortTypes ==
  ASSUME Types, NEW p \in Ports
  PROVE  /\ conn[p] \in {"new", "attached", "closed"} /\ replaying[p] \in Ops \cup {NoOp}
         /\ held[p] \in Seq(Nat) /\ Len(held[p]) \in Nat /\ \A j \in 1..Len(held[p]) : held[p][j] \in Nat
         /\ got[p] \in Seq(Nat) /\ Len(got[p]) \in Nat /\ \A i \in 1..Len(got[p]) : got[p][i] \in Nat
         /\ base[p] \in Nat /\ Len(disk) \in Nat
<1>1. held[p] \in Seq(Nat) /\ got[p] \in Seq(Nat) /\ conn[p] \in {"new", "attached", "closed"}
      /\ replaying[p] \in Ops \cup {NoOp} /\ base[p] \in Nat BY DEF Types
<1>2. /\ Len(held[p]) \in Nat /\ \A j \in 1..Len(held[p]) : held[p][j] \in Nat
      /\ Len(got[p]) \in Nat /\ \A i \in 1..Len(got[p]) : got[p][i] \in Nat BY <1>1, LenProperties, ElementOfSeq
<1> QED BY <1>1, <1>2, Sizes

\* Nothing of port p changes.
SamePort(p) ==
    /\ conn'[p] = conn[p] /\ replaying'[p] = replaying[p] /\ held'[p] = held[p]
    /\ base'[p] = base[p] /\ got'[p] = got[p]
    /\ \A o \in Ops : PortOf(o) = p => ops'[o] = ops[o]

\* Nothing of the log that the ports look at changes.
SameLog ==
    /\ disk' = disk
    /\ \A i \in 1..Len(insts) : insts'[i].writtenSeq = insts[i].writtenSeq

LEMMA SingleSame ==
  ASSUME NEW p \in Ports, \A o \in Ops : PortOf(o) = p => ops'[o] = ops[o]
  PROVE  (NoLoad(p)' <=> NoLoad(p)) /\ (Single(p)' <=> Single(p))
<1>1. NoLoad(p)' <=> NoLoad(p) BY DEF NoLoad
<1>2. \A k \in 2..MaxRequests : ops'[<<p, k>>] = ops[<<p, k>>]
 <2>1. \A k \in 2..MaxRequests : k \in 1..MaxRequests BY FanoutAssumption
 <2> QED BY <2>1, Requests
<1> QED BY <1>1, <1>2 DEF Single

LEMMA SamePortKept ==
  ASSUME LogInv, SameLog, NEW p \in Ports, SamePort(p), PortAt(p), SentAt(p)
  PROVE  PortAt(p)' /\ SentAt(p)'
<1>1. \A o \in Ops : PortOf(o) = p => ops'[o] = ops[o] BY DEF SamePort
<1>2. /\ conn'[p] = conn[p] /\ replaying'[p] = replaying[p] /\ held'[p] = held[p]
      /\ base'[p] = base[p] /\ got'[p] = got[p] /\ disk' = disk BY DEF SamePort, SameLog
<1>3. \A o \in Ops : PortOf(o) = p /\ ops[o].pc \in {"wait", "snap", "stream"}
                       => insts'[ops[o].inst].writtenSeq = insts[ops[o].inst].writtenSeq
  BY DEF LogInv, Snapping, SameLog
<1>4. Holding(p)'
 <2>1. replaying[p] # NoOp => replaying[p] \in Ops BY PortTypes DEF LogInv
 <2>2. Holding(p) BY DEF PortAt
 <2> QED BY <1>1, <1>2, <2>1, <2>2 DEF Holding
<1>5. Bounded(p)' BY <1>1, <1>2 DEF PortAt, Bounded
<1>6. Fresh(p)'
 <2>1. <<p, 1>> \in Ops => PortOf(<<p, 1>>) = p BY DEF PortOf
 <2>2. Fresh(p) BY DEF PortAt
 <2> QED BY <1>1, <1>2, <2>1, <2>2 DEF Fresh
<1>7. HeldCounts(p)' BY <1>2 DEF PortAt, HeldCounts, Start
<1>8. (NoLoad(p)' <=> NoLoad(p)) /\ (Single(p)' <=> Single(p)) BY <1>1, SingleSame
<1>9. \A n : Reached(p, n)' <=> Reached(p, n) BY <1>2 DEF Reached
<1>10. Start(p)' = Start(p) BY <1>2 DEF Start
<1>11. InReach(p)'
 <2> SUFFICES ASSUME conn'[p] = "attached", NoLoad(p)'
              PROVE  /\ \A o \in Ops : PortOf(o) = p =>
                          /\ ops'[o].pc \in {"log", "wait", "snap", "stream"} => Reached(p, ops[o].after)'
                          /\ ops'[o].pc = "snap" => \/ Reached(p, Start(p))'
                                                    \/ Start(p)' <= insts'[ops'[o].inst].writtenSeq
                          /\ ops'[o].pc = "stream" => Reached(p, Start(p))' \/ Start(p)' <= ops'[o].until
                          /\ ops'[o].pc = "wait" /\ replaying'[p] = NoOp => Reached(p, Len(disk))'
                     /\ replaying'[p] = NoOp /\ (\A o \in Ops : PortOf(o) = p => ops'[o].pc # "log") =>
                          Reached(p, Len(disk))' BY DEF InReach
 <2>1. InReach(p) /\ NoLoad(p) /\ conn[p] = "attached" BY <1>2, <1>8 DEF SentAt
 <2>2. \A n : Reached(p, n) <=> Reaches(base'[p], got'[p], n) BY <1>2 DEF Reached
 <2>3. Start(p) = Len(disk') - Len(held'[p]) BY <1>2 DEF Start
 <2> QED BY <1>1, <1>2, <1>3, <2>1, <2>2, <2>3 DEF InReach, Reached, Start
<1>12. Ordered(p)' BY <1>2, <1>8 DEF SentAt, Ordered
<1>13. Increasing(p)'
 <2>1. Increasing(p) BY DEF SentAt
 <2>2. Fresh(p) BY DEF PortAt
 <2>3. conn[p] = "attached" => <<p, 1>> \in Ops /\ PortOf(<<p, 1>>) = p BY <2>2 DEF Fresh, PortOf
 <2> QED BY <1>1, <1>2, <1>8, <2>1, <2>3 DEF Increasing
<1>14. OnTheWay(p)'
 <2>1. \A o \in Ops, s \in 1..Len(disk) : PortOf(o) = p /\ Covers(o, s) => Covers(o, s)'
   BY <1>1, <1>2, <1>3 DEF Covers, IsHeld
 <2> QED BY <1>2, <2>1 DEF SentAt, OnTheWay
<1> QED BY <1>4, <1>5, <1>6, <1>7, <1>11, <1>12, <1>13, <1>14 DEF PortAt, SentAt

Sent == \A p \in Ports : PortAt(p) /\ SentAt(p)

\* The steps of the log by itself.
LEMMA LogOnly ==
  ASSUME LogInv, Sent, OpenDone \/ Evict \/ FlushDone \/ EngineFrame \/ AppendFrame \/ UNCHANGED fanoutVars
  PROVE  Sent'
<1>0. Types /\ OneWriter BY DEF LogInv
<1>1. UNCHANGED <<disk, conn, replaying, held, base, got, ops>>
  BY DEF OpenDone, Evict, FlushDone, EngineFrame, AppendFrame, fanoutVars, portVars, logVars
<1>2. \A i \in 1..Len(insts) : insts'[i].writtenSeq = insts[i].writtenSeq
 <2>1. CASE OpenDone
  <3>1. insts \in Seq(Instance) /\ Len(disk) \in Nat /\ LastOf(disk) \in Nat
    BY <1>0, Sizes, LastIsLen DEF LogInv, Types
  <3> DEFINE v == [closed |-> FALSE, lastSeq |-> LastOf(disk), writtenSeq |-> LastOf(disk), queue |-> <<>>]
  <3>2. v \in Instance BY <3>1, EmptySeq DEF Instance
  <3>3. insts' = Append(insts, v) BY <2>1 DEF OpenDone
  <3> HIDE DEF v
  <3>4. \A i \in 1..Len(insts) : insts'[i] = insts[i] BY <3>1, <3>2, <3>3, AppendProperties
  <3> QED BY <3>4
 <2>2. CASE Evict
  <3>1. PICK v \in Instance : Turned(cur, v) /\ v.writtenSeq = insts[cur].writtenSeq BY <1>0, <2>2, InstSteps
  <3> QED BY <3>1 DEF Turned
 <2>3. CASE AppendFrame
  <3>1. CASE insts' = insts BY <3>1
  <3>2. CASE insts' # insts
   <4>1. ready # <<>> /\ Head(ready) = Frame /\ ready \in Seq(Callers) BY <1>0, <2>3 DEF AppendFrame, Idle, Types
   <4>2. ready[1] = Frame /\ 1 \in 1..Len(ready) BY <4>1, Served
   <4>3. cur # 0 /\ ~insts[cur].closed BY <1>0, <2>3, <3>2, <4>2 DEF OneWriter, AppendFrame
   <4>4. PICK v \in Instance : Turned(cur, v) /\ v.writtenSeq = insts[cur].writtenSeq BY <1>0, <2>3, <4>3, InstSteps
   <4> QED BY <4>4 DEF Turned
  <3> QED BY <3>1, <3>2
 <2>4. CASE insts' = insts BY <2>4
 <2> QED BY <2>1, <2>2, <2>3, <2>4 DEF FlushDone, EngineFrame, fanoutVars, logVars
<1>3. SameLog /\ \A p \in Ports : SamePort(p) BY <1>1, <1>2 DEF SameLog, SamePort
<1> QED BY <1>3, SamePortKept DEF Sent

\* A step of one attach leaves the other ports alone.
LEMMA OnePort ==
  ASSUME LogInv, Sent, SameLog, NEW p \in Ports, PortAt(p)' /\ SentAt(p)',
         \A q \in Ports : q # p => SamePort(q)
  PROVE  Sent'
<1>1. ASSUME NEW q \in Ports PROVE PortAt(q)' /\ SentAt(q)'
 <2>1. CASE q = p BY <2>1
 <2>2. CASE q # p BY <2>2, SamePortKept DEF Sent
 <2> QED BY <2>1, <2>2
<1> QED BY <1>1 DEF Sent

\* An attach that goes on was, and is, no session/load less than before; if it
\* is the only one of its port it is the first.
LEMMA SingleMoves ==
  ASSUME NEW o \in Ops, NEW pc, Moves(o, pc), pc # "none", ops[o].load => ops'[o].load, NEW p \in Ports
  PROVE  /\ NoLoad(p)' => NoLoad(p)
         /\ Single(p)' => Single(p)
         /\ Single(p)' /\ PortOf(o) = p => o = <<p, 1>>
<1>1. NoLoad(p)' => NoLoad(p) BY DEF NoLoad, Moves
<1>2. ASSUME Single(p)', PortOf(o) = p PROVE o = <<p, 1>>
 <2>1. o[2] \in 1..MaxRequests /\ o = <<p, o[2]>> BY <1>2, Requests
 <2>2. o[2] \notin 2..MaxRequests BY <1>2, <2>1 DEF Single, Moves
 <2>3. o[2] = 1 BY <2>1, <2>2, FanoutAssumption
 <2> QED BY <2>1, <2>3
<1>3. ASSUME Single(p)' PROVE Single(p)
 <2>1. ASSUME NEW k \in 2..MaxRequests PROVE ops[<<p, k>>].pc = "none"
  <3>1. CASE <<p, k>> = o BY <1>3, <3>1 DEF Single, Moves
  <3>2. CASE <<p, k>> # o
   <4>1. k \in 1..MaxRequests BY FanoutAssumption
   <4> QED BY <1>3, <3>2, <4>1, Requests DEF Single, Moves
  <3> QED BY <3>1, <3>2
 <2> QED BY <1>1, <1>3, <2>1 DEF Single
<1> QED BY <1>1, <1>2, <1>3

\* A request attaches its port: with a replay to come, or from the end of the log.
LEMMA Asked ==
  ASSUME LogInv, Sent, SameLog, UNCHANGED <<replaying, held, got>>,
         NEW o \in Ops, NextOp(PortOf(o), o),
         NEW pc \in {"log", "bind", "done"}, Moves(o, pc), ops[o].load => ops'[o].load,
         NEW after \in Nat, after <= Len(disk), AttachPort(PortOf(o), after),
         pc = "bind" => ops'[o].load /\ ops'[o].after = 0,
         pc = "log" => ops'[o].after = after /\ (conn[PortOf(o)] # "new" => Reached(PortOf(o), after)),
         pc = "done" => after = Len(disk)
  PROVE  Sent'
<1> DEFINE p == PortOf(o)
<1>0. Types /\ p \in Ports BY Requests DEF LogInv
<1>1. /\ conn[p] # "closed" /\ conn'[p] = "attached" /\ (conn[p] = "new" => base'[p] = after)
      /\ (conn[p] # "new" => base'[p] = base[p])
      /\ \A q \in Ports : q # p => conn'[q] = conn[q] /\ base'[q] = base[q] BY <1>0, PortAttached
<1>2. ops[o].pc = "none" /\ PortAt(p) /\ SentAt(p) /\ conn[p] \in {"new", "attached", "closed"}
  BY <1>0, PortTypes DEF NextOp, Sent
<1>3. ops'[o].pc = pc /\ \A x \in Ops : x # o => ops'[x] = ops[x] BY DEF Moves
<1>4. /\ held'[p] = held[p] /\ got'[p] = got[p] /\ replaying'[p] = replaying[p] /\ disk' = disk
      /\ Len(disk) \in Nat BY <1>0, PortTypes DEF SameLog
<1>5. /\ replaying[p] \in Ops \cup {NoOp}
      /\ replaying[p] # NoOp => /\ replaying[p] \in Ops /\ replaying[p] # o
                                /\ PortOf(replaying[p]) = p /\ ops[replaying[p]].pc \in {"snap", "stream"}
  BY <1>0, <1>2, PortTypes DEF PortAt, Holding
<1>6. conn[p] = "new" => /\ got[p] = <<>> /\ Len(got[p]) = 0 /\ replaying[p] = NoOp
                         /\ held[p] = <<>> /\ Len(held[p]) = 0
                         /\ \A x \in Ops : PortOf(x) = p => ops[x].pc = "none"
  BY <1>2, <1>5, EmptySeq DEF PortAt, Fresh, Holding
<1>7. (NoLoad(p)' => NoLoad(p)) /\ (Single(p)' => Single(p) /\ o = <<p, 1>>) BY <1>0, SingleMoves
<1> HIDE DEF p
<1>8. PortOf(o) = p /\ AttachPort(p, after) /\ NextOp(p, o) BY DEF p
<1>9. Holding(p)' BY <1>2, <1>3, <1>4, <1>5 DEF PortAt, Holding
<1>10. Bounded(p)'
 <2>1. base'[p] <= Len(disk) BY <1>1, <1>2 DEF PortAt, Bounded
 <2>2. \A i \in 1..Len(got'[p]) : got'[p][i] <= Len(disk') BY <1>2, <1>4 DEF PortAt, Bounded
 <2>3. ASSUME NEW x \in Ops, PortOf(x) = p
       PROVE  /\ ops'[x].pc \in {"log", "wait", "snap", "stream"} => ops'[x].after <= Len(disk')
              /\ ops'[x].pc = "stream" => ops'[x].until <= Len(disk')
              /\ ops'[x].pc = "bind" => ops'[x].after = 0 /\ ops'[x].load
   BY <1>2, <1>3, <1>4, <2>3 DEF PortAt, Bounded
 <2> QED BY <1>4, <2>1, <2>2, <2>3 DEF Bounded
<1>11. Fresh(p)'
 <2>1. <<p, 1>> \in Ops /\ ops'[<<p, 1>>].pc # "none"
  <3>1. o[2] \in 1..MaxRequests /\ o = <<p, o[2]>> BY <1>8, Requests
  <3>2. 1 \in 1..MaxRequests BY <3>1, FanoutAssumption
  <3>3. <<p, 1>> \in Ops BY <1>0, <3>2, Requests DEF p
  <3>4. CASE o[2] = 1 BY <1>3, <3>1, <3>3, <3>4
  <3>5. CASE o[2] # 1
   <4>1. 1 \in 1..(o[2] - 1) /\ <<p, 1>> # o BY <3>1, <3>5, FanoutAssumption
   <4> QED BY <1>3, <1>8, <3>3, <4>1 DEF NextOp
  <3> QED BY <3>4, <3>5
 <2>2. \A x \in Ops : PortOf(x) = p /\ ops'[x].pc = "none" => ~ops'[x].load /\ ops'[x].after = 0
   BY <1>2, <1>3 DEF PortAt, Fresh
 <2> QED BY <1>1, <2>1, <2>2 DEF Fresh
<1>12. HeldCounts(p)'
 <2>1. CASE conn[p] = "new"
  <3>1. Len(held'[p]) = 0 /\ \A j \in 1..Len(held'[p]) : FALSE BY <1>4, <1>6, <2>1
  <3> QED BY <1>4, <3>1 DEF HeldCounts
 <2>2. CASE conn[p] # "new" BY <1>1, <1>2, <1>4, <2>2 DEF PortAt, HeldCounts, Start
 <2> QED BY <2>1, <2>2
<1>13. conn[p] # "new" => \A n : Reached(p, n)' <=> Reached(p, n) BY <1>1, <1>4 DEF Reached
<1>14. conn[p] = "new" => Reached(p, after)' BY <1>1 DEF Reached, Reaches
<1>15. InReach(p)'
 <2> SUFFICES ASSUME NoLoad(p)'
              PROVE  /\ \A x \in Ops : PortOf(x) = p =>
                          /\ ops'[x].pc \in {"log", "wait", "snap", "stream"} => Reached(p, ops[x].after)'
                          /\ ops'[x].pc = "snap" => \/ Reached(p, Start(p))'
                                                    \/ Start(p)' <= insts'[ops'[x].inst].writtenSeq
                          /\ ops'[x].pc = "stream" => Reached(p, Start(p))' \/ Start(p)' <= ops'[x].until
                          /\ ops'[x].pc = "wait" /\ replaying'[p] = NoOp => Reached(p, Len(disk))'
                     /\ replaying'[p] = NoOp /\ (\A x \in Ops : PortOf(x) = p => ops'[x].pc # "log") =>
                          Reached(p, Len(disk))' BY DEF InReach
 <2>1. pc # "bind" BY <1>3, <1>8 DEF NoLoad
 <2>2. CASE conn[p] = "new"
  <3>1. \A x \in Ops : PortOf(x) = p /\ x # o => ops'[x].pc = "none" BY <1>3, <1>6, <2>2
  <3>2. pc = "log" => Reached(p, ops[o].after)' BY <1>14, <2>2 DEF Reached
  <3>3. pc = "done" => Reached(p, Len(disk))' BY <1>4, <1>14, <2>2 DEF Reached
  <3> QED BY <1>3, <1>8, <2>1, <3>1, <3>2, <3>3
 <2>3. CASE conn[p] # "new"
  <3>1. InReach(p) /\ NoLoad(p) /\ conn[p] = "attached" BY <1>1, <1>2, <1>7, <2>3 DEF SentAt
  <3>2. \A n : Reached(p, n) <=> Reaches(base'[p], got'[p], n) BY <1>1, <1>4, <2>3 DEF Reached
  <3>3. Start(p) = Len(disk') - Len(held'[p]) BY <1>4 DEF Start
  <3>4. \A x \in Ops : PortOf(x) = p /\ ops[x].pc = "snap" /\ x # o
                         => insts'[ops'[x].inst].writtenSeq = insts[ops[x].inst].writtenSeq
    BY <1>3 DEF LogInv, Snapping, SameLog
  <3>5. pc = "log" => Reached(p, ops'[o].after) BY <2>3 DEF p
  <3>6. ASSUME NEW x \in Ops, PortOf(x) = p
        PROVE  /\ ops'[x].pc \in {"log", "wait", "snap", "stream"} => Reached(p, ops[x].after)'
               /\ ops'[x].pc = "snap" => \/ Reached(p, Start(p))'
                                         \/ Start(p)' <= insts'[ops'[x].inst].writtenSeq
               /\ ops'[x].pc = "stream" => Reached(p, Start(p))' \/ Start(p)' <= ops'[x].until
               /\ ops'[x].pc = "wait" /\ replaying'[p] = NoOp => Reached(p, Len(disk))'
   <4>1. CASE x = o BY <1>3, <2>1, <3>2, <3>5, <4>1 DEF Reached
   <4>2. CASE x # o BY <1>3, <1>4, <3>1, <3>2, <3>3, <3>4, <3>6, <4>2 DEF InReach, Reached, Start
   <4> QED BY <4>1, <4>2
  <3>7. replaying'[p] = NoOp /\ (\A x \in Ops : PortOf(x) = p => ops'[x].pc # "log") => Reached(p, Len(disk))'
   <4>1. (\A x \in Ops : PortOf(x) = p => ops'[x].pc # "log") => \A x \in Ops : PortOf(x) = p => ops[x].pc # "log"
     BY <1>2, <1>3
   <4> QED BY <1>4, <3>1, <3>2, <4>1 DEF InReach, Reached
  <3> QED BY <3>6, <3>7
 <2> QED BY <2>2, <2>3
<1>16. Ordered(p)'
 <2>1. CASE conn[p] = "new"
  <3>1. \A i \in 1..Len(got'[p]) : FALSE BY <1>4, <1>6, <2>1
  <3> QED BY <3>1 DEF Ordered
 <2>2. CASE conn[p] # "new" BY <1>1, <1>2, <1>4, <1>7, <2>2 DEF SentAt, Ordered
 <2> QED BY <2>1, <2>2
<1>17. Increasing(p)'
 <2> SUFFICES ASSUME Single(p)' PROVE Increasing(p)' BY DEF Increasing
 <2>1. o = <<p, 1>> /\ conn[p] = "new" BY <1>2, <1>7 DEF PortAt, Fresh
 <2>2. got'[p] = <<>> /\ \A i \in 1..Len(got'[p]) : FALSE BY <1>4, <1>6, <2>1
 <2> QED BY <1>3, <2>1, <2>2 DEF Increasing
<1>18. OnTheWay(p)'
 <2>1. ASSUME NEW s \in 1..Len(disk)
       PROVE  \/ s <= base'[p]
              \/ \E i \in 1..Len(got'[p]) : got'[p][i] = s
              \/ \E x \in Ops : PortOf(x) = p /\ Covers(x, s)'
  <3>1. CASE conn[p] = "new"
   <4>1. pc = "bind" => Covers(o, s)' BY <1>3 DEF Covers
   <4>2. pc = "log" /\ after < s => Covers(o, s)' BY <1>3 DEF Covers
   <4> QED BY <1>1, <1>4, <1>8, <3>1, <4>1, <4>2
  <3>2. CASE conn[p] # "new"
   <4>1. \A x \in Ops : Covers(x, s) /\ PortOf(x) = p => x # o /\ Covers(x, s)'
    <5>1. \A x \in Ops : Covers(x, s) => x # o BY <1>2 DEF Covers
    <5>2. \A x \in Ops : ops[x].pc \in {"wait", "snap"} /\ x # o
                           => insts'[ops'[x].inst].writtenSeq = insts[ops[x].inst].writtenSeq
      BY <1>3 DEF LogInv, Snapping, SameLog
    <5> QED BY <1>3, <1>4, <5>1, <5>2 DEF Covers, IsHeld
   <4> QED BY <1>1, <1>2, <1>4, <3>2, <4>1 DEF SentAt, OnTheWay
  <3> QED BY <3>1, <3>2
 <2> QED BY <1>4, <2>1 DEF OnTheWay
<1>19. PortAt(p)' /\ SentAt(p)' BY <1>9, <1>10, <1>11, <1>12, <1>15, <1>16, <1>17, <1>18 DEF PortAt, SentAt
<1>20. \A q \in Ports : q # p => SamePort(q) BY <1>1, <1>3, <1>8 DEF SamePort
<1> QED BY <1>0, <1>19, <1>20, OnePort

LEMMA AskedPorts ==
  ASSUME LogInv, Sent, NEW o \in Ops,
         Load(o) \/ AttachLive(o) \/ \E after \in 0..MaxEvents : Attach(o, after)
  PROVE  Sent'
<1> DEFINE p == PortOf(o)
<1>0. Types /\ p \in Ports /\ LastOf(disk) = Len(disk) /\ Len(disk) \in Nat BY Requests, LastIsLen, Sizes DEF LogInv
<1>1. SameLog /\ UNCHANGED <<replaying, held, got>> BY DEF SameLog, Load, AttachLive, Attach, logVars
<1>2. CASE Load(o)
 <2>1. Moves(o, "bind") /\ ops'[o].load /\ ops'[o].after = ops[o].after BY <1>0, <1>2, OpSteps
 <2>2. ops[o].after = 0 BY <1>0, <1>2 DEF Load, NextOp, Sent, PortAt, Fresh
 <2>3. NextOp(p, o) /\ AttachPort(p, 0) BY <1>2 DEF Load
 <2> HIDE DEF p
 <2> QED BY <1>0, <1>1, <2>1, <2>2, <2>3, Asked DEF p
<1>3. CASE AttachLive(o)
 <2>1. Moves(o, "done") /\ (ops'[o].load <=> ops[o].load) BY <1>0, <1>3, OpSteps
 <2>2. NextOp(p, o) /\ AttachPort(p, Len(disk)) BY <1>0, <1>3 DEF AttachLive
 <2> HIDE DEF p
 <2> QED BY <1>0, <1>1, <2>1, <2>2, Asked DEF p
<1>4. ASSUME NEW after \in 0..MaxEvents, Attach(o, after) PROVE Sent'
 <2>1. Moves(o, "log") /\ ops'[o].after = after /\ (ops'[o].load <=> ops[o].load) BY <1>0, <1>4, OpSteps
 <2>2. NextOp(p, o) /\ AttachPort(p, after) /\ after \in Nat BY <1>4, FanoutAssumption DEF Attach
 <2>3. after <= Len(disk) /\ (conn[p] # "new" => Reached(p, after))
  <3>1. CASE conn[p] = "new" BY <1>0, <1>4, <3>1 DEF Attach
  <3>2. CASE conn[p] # "new"
   <4>1. PICK s \in Seen(p) : after <= s BY <1>4, <3>2 DEF Attach
   <4>2. s = base[p] \/ \E i \in 1..Len(got[p]) : s = got[p][i]
    <5>1. DOMAIN got[p] = 1..Len(got[p]) BY <1>0, PortTypes, LenProperties
    <5> QED BY <4>1, <5>1 DEF Seen, RangeOf
   <4>3. s \in Nat /\ s <= Len(disk)
    <5>1. Bounded(p) BY <1>0 DEF Sent, PortAt
    <5> QED BY <1>0, <4>2, <5>1, PortTypes DEF Bounded
   <4>4. Reached(p, after) BY <4>1, <4>2 DEF Reached, Reaches
   <4> QED BY <1>0, <2>2, <4>1, <4>3, <4>4
  <3> QED BY <3>1, <3>2
 <2> HIDE DEF p
 <2> QED BY <1>0, <1>1, <2>1, <2>2, <2>3, Asked DEF p
<1> QED BY <1>2, <1>3, <1>4

\* The socket closes: nothing is sent to it any more.
LEMMA ClosePortPorts ==
  ASSUME LogInv, Sent, NEW p \in Ports, ClosePort(p)
  PROVE  Sent'
<1>1. /\ UNCHANGED <<disk, insts, replaying, held, base, got, ops>> /\ conn[p] = "attached"
      /\ conn'[p] = "closed" /\ \A q \in Ports : q # p => conn'[q] = conn[q] BY DEF ClosePort, logVars, LogInv, Types
<1>2. SameLog /\ \A q \in Ports : q # p => SamePort(q) BY <1>1 DEF SameLog, SamePort
<1>3. PortAt(p) /\ SentAt(p) BY DEF Sent
<1>4. Holding(p)' /\ Bounded(p)' /\ Fresh(p)' /\ HeldCounts(p)'
  BY <1>1, <1>3 DEF PortAt, Holding, Bounded, Fresh, HeldCounts
<1>5. InReach(p)' /\ OnTheWay(p)' BY <1>1 DEF InReach, OnTheWay
<1>6. Ordered(p)' BY <1>1, <1>3 DEF SentAt, Ordered, NoLoad
<1>7. Increasing(p)' BY <1>1, <1>3 DEF SentAt, Increasing, Single, NoLoad
<1> QED BY <1>2, <1>4, <1>5, <1>6, <1>7, OnePort DEF PortAt, SentAt

\* The conversation is bound: the load goes for the log.
LEMMA LoadBoundPorts ==
  ASSUME LogInv, Sent, NEW o \in Ops, LoadBound(o)
  PROVE  Sent'
<1> DEFINE p == PortOf(o)
<1>0. Types /\ p \in Ports /\ PortAt(p) /\ SentAt(p) BY Requests DEF LogInv, Sent
<1>1. /\ UNCHANGED <<disk, insts, conn, replaying, held, base, got>> /\ ops[o].pc = "bind" BY DEF LoadBound, portVars
<1>2. Moves(o, "log") /\ ops'[o].after = ops[o].after /\ (ops'[o].load <=> ops[o].load) BY <1>0, OpSteps
<1>3. ops[o].after = 0 /\ ops'[o].after = 0 /\ ops[o].load /\ ops'[o].load /\ Len(disk) \in Nat
  BY <1>0, <1>1, <1>2, PortTypes DEF PortAt, Bounded
<1>4. SameLog /\ \A q \in Ports : q # p => SamePort(q) BY <1>1, <1>2 DEF SameLog, SamePort, Moves
<1>5. ops'[o].pc = "log" /\ \A x \in Ops : x # o => ops'[x] = ops[x] BY <1>2 DEF Moves
<1>6. ~NoLoad(p)' BY <1>3 DEF NoLoad
<1> HIDE DEF p
<1>7. PortOf(o) = p BY DEF p
<1>8. Holding(p)'
 <2>1. replaying[p] # NoOp => replaying[p] \in Ops BY <1>0, PortTypes
 <2> QED BY <1>0, <1>1, <1>5, <2>1 DEF PortAt, Holding
<1>9. Bounded(p)'
 <2>1. ASSUME NEW x \in Ops, PortOf(x) = p
       PROVE  /\ ops'[x].pc \in {"log", "wait", "snap", "stream"} => ops'[x].after <= Len(disk')
              /\ ops'[x].pc = "stream" => ops'[x].until <= Len(disk')
              /\ ops'[x].pc = "bind" => ops'[x].after = 0 /\ ops'[x].load
   BY <1>0, <1>1, <1>3, <1>5, <2>1 DEF PortAt, Bounded
 <2> QED BY <1>0, <1>1, <2>1 DEF PortAt, Bounded
<1>10. Fresh(p)'
 <2>1. \A x \in Ops : PortOf(x) = p /\ ops'[x].pc = "none" => ~ops'[x].load /\ ops'[x].after = 0
   BY <1>0, <1>5 DEF PortAt, Fresh
 <2>2. conn[p] # "new" BY <1>0, <1>1, <1>7 DEF PortAt, Fresh
 <2>3. <<p, 1>> \in Ops /\ ops'[<<p, 1>>].pc # "none" BY <1>0, <1>5, <2>2 DEF PortAt, Fresh
 <2> QED BY <1>1, <2>1, <2>2, <2>3 DEF Fresh
<1>11. HeldCounts(p)' BY <1>0, <1>1 DEF PortAt, HeldCounts, Start
<1>12. InReach(p)' /\ Ordered(p)' /\ Increasing(p)' BY <1>6 DEF InReach, Ordered, Increasing, Single
<1>13. OnTheWay(p)'
 <2>1. ASSUME NEW s \in 1..Len(disk), NEW x \in Ops, PortOf(x) = p, Covers(x, s) PROVE Covers(x, s)'
  <3>1. CASE x = o BY <1>3, <1>5, <3>1 DEF Covers
  <3>2. CASE x # o BY <1>1, <1>5, <2>1, <3>2 DEF Covers, IsHeld
  <3> QED BY <3>1, <3>2
 <2> QED BY <1>0, <1>1, <2>1 DEF SentAt, OnTheWay
<1> QED BY <1>0, <1>4, <1>8, <1>9, <1>10, <1>11, <1>12, <1>13, OnePort DEF PortAt, SentAt

\* The snapshot is taken: the replay now knows where it ends.
LEMMA SnapshotPorts ==
  ASSUME LogInv, Sent, NEW i \in DOMAIN insts, Snapshot(i)
  PROVE  Sent'
<1>1. PICK o \in Ops :
        /\ i \in 1..Len(insts) /\ ops[o].pc = "snap" /\ ops[o].inst = i
        /\ ops'[o].inst = i /\ ops'[o].after = ops[o].after
        /\ ops'[o].until = insts[i].writtenSeq /\ (ops'[o].load <=> ops[o].load) /\ Moves(o, "stream")
        /\ \A j \in 1..Len(insts) : insts'[j].writtenSeq = insts[j].writtenSeq BY Snapshotted
<1> DEFINE p == PortOf(o)
           u == insts[i].writtenSeq
<1>2. /\ Types /\ OneWriter /\ p \in Ports /\ PortAt(p) /\ SentAt(p) /\ ops'[o].pc = "stream"
      /\ \A x \in Ops : x # o => ops'[x] = ops[x] BY <1>1, Requests DEF LogInv, Sent, Moves
<1>3. UNCHANGED <<disk, conn, replaying, held, base, got>> BY DEF Snapshot, portVars
<1>4. u \in Nat /\ u <= Len(disk) /\ Len(disk) \in Nat /\ ops'[o].until = u BY <1>1, <1>2, Sizes DEF OneWriter
<1>5. SameLog /\ \A q \in Ports : q # p => SamePort(q) BY <1>1, <1>2, <1>3 DEF SameLog, SamePort
<1>6. (NoLoad(p)' => NoLoad(p)) /\ (Single(p)' => Single(p) /\ o = <<p, 1>>) BY <1>1, <1>2, SingleMoves
<1> HIDE DEF p, u
<1>7. PortOf(o) = p /\ u = insts[ops[o].inst].writtenSeq BY <1>1, <1>2 DEF p, u
<1>8. Holding(p)'
 <2>1. replaying[p] = o BY <1>1, <1>2, <1>7 DEF PortAt, Holding
 <2>2. o # NoOp BY <1>1, <1>2, Requests
 <2>3. \A x \in Ops : PortOf(x) = p /\ ops'[x].pc \in {"snap", "stream"} => replaying'[p] = x
   BY <1>1, <1>2, <1>3, <2>1 DEF PortAt, Holding
 <2> QED BY <1>1, <1>2, <1>3, <1>7, <2>1, <2>2, <2>3 DEF Holding
<1>9. Bounded(p)'
 <2>1. ASSUME NEW x \in Ops, PortOf(x) = p
       PROVE  /\ ops'[x].pc \in {"log", "wait", "snap", "stream"} => ops'[x].after <= Len(disk')
              /\ ops'[x].pc = "stream" => ops'[x].until <= Len(disk')
              /\ ops'[x].pc = "bind" => ops'[x].after = 0 /\ ops'[x].load
  <3>1. CASE x = o BY <1>1, <1>2, <1>3, <1>4, <1>7, <3>1 DEF PortAt, Bounded
  <3>2. CASE x # o BY <1>1, <1>2, <1>3, <2>1, <3>2 DEF PortAt, Bounded
  <3> QED BY <3>1, <3>2
 <2> QED BY <1>1, <1>2, <1>3, <2>1 DEF PortAt, Bounded
<1>10. Fresh(p)'
 <2>1. \A x \in Ops : PortOf(x) = p /\ ops'[x].pc = "none" => ~ops'[x].load /\ ops'[x].after = 0
   BY <1>1, <1>2 DEF PortAt, Fresh
 <2>2. conn[p] # "new" BY <1>1, <1>2, <1>7 DEF PortAt, Fresh
 <2>3. <<p, 1>> \in Ops /\ ops'[<<p, 1>>].pc # "none" BY <1>1, <1>2, <2>2 DEF PortAt, Fresh
 <2> QED BY <1>3, <2>1, <2>2, <2>3 DEF Fresh
<1>11. HeldCounts(p)' BY <1>1, <1>2, <1>3 DEF PortAt, HeldCounts, Start
<1>12. InReach(p)'
 <2> SUFFICES ASSUME NoLoad(p)', conn[p] = "attached"
              PROVE  /\ \A x \in Ops : PortOf(x) = p =>
                          /\ ops'[x].pc \in {"log", "wait", "snap", "stream"} => Reached(p, ops[x].after)'
                          /\ ops'[x].pc = "snap" => \/ Reached(p, Start(p))'
                                                    \/ Start(p)' <= insts'[ops'[x].inst].writtenSeq
                          /\ ops'[x].pc = "stream" => Reached(p, Start(p))' \/ Start(p)' <= ops'[x].until
                          /\ ops'[x].pc = "wait" /\ replaying'[p] = NoOp => Reached(p, Len(disk))'
                     /\ replaying'[p] = NoOp /\ (\A x \in Ops : PortOf(x) = p => ops'[x].pc # "log") =>
                          Reached(p, Len(disk))' BY <1>3 DEF InReach
 <2>1. InReach(p) /\ NoLoad(p) BY <1>1, <1>2, <1>6 DEF SentAt
 <2>2. Start(p)' = Start(p) /\ \A n : Reached(p, n) <=> Reaches(base'[p], got'[p], n) BY <1>3 DEF Reached, Start
 <2>3. ASSUME NEW x \in Ops, PortOf(x) = p
       PROVE  /\ ops'[x].pc \in {"log", "wait", "snap", "stream"} => Reached(p, ops[x].after)'
              /\ ops'[x].pc = "snap" => \/ Reached(p, Start(p))'
                                        \/ Start(p)' <= insts'[ops'[x].inst].writtenSeq
              /\ ops'[x].pc = "stream" => Reached(p, Start(p))' \/ Start(p)' <= ops'[x].until
              /\ ops'[x].pc = "wait" /\ replaying'[p] = NoOp => Reached(p, Len(disk))'
  <3>1. /\ ops[x].pc \in {"log", "wait", "snap", "stream"} => Reached(p, ops[x].after)
        /\ ops[x].pc = "snap" => Reached(p, Start(p)) \/ Start(p) <= insts[ops[x].inst].writtenSeq
        /\ ops[x].pc = "stream" => Reached(p, Start(p)) \/ Start(p) <= ops[x].until
        /\ ops[x].pc = "wait" /\ replaying[p] = NoOp => Reached(p, Len(disk)) BY <2>1, <2>3 DEF InReach
  <3>2. CASE x = o BY <1>1, <1>2, <1>4, <1>7, <2>2, <3>1, <3>2 DEF Reached
  <3>3. CASE x # o
   <4>1. ops[x].pc = "snap" => insts'[ops[x].inst].writtenSeq = insts[ops[x].inst].writtenSeq
     BY <1>1, <1>2 DEF LogInv, Snapping
   <4> QED BY <1>1, <1>2, <1>3, <2>2, <3>1, <3>3, <4>1 DEF Reached
  <3> QED BY <3>2, <3>3
 <2>4. replaying'[p] # NoOp BY <1>1, <1>2, <1>3, <1>7, Requests DEF PortAt, Holding
 <2> QED BY <2>3, <2>4
<1>13. Ordered(p)' BY <1>1, <1>2, <1>3, <1>6 DEF SentAt, Ordered
<1>14. Increasing(p)'
 <2> SUFFICES ASSUME Single(p)' PROVE Increasing(p)' BY DEF Increasing
 <2>1. o = <<p, 1>> /\ Single(p) BY <1>6
 <2>2. CASE conn[p] = "attached"
  <3>1. got[p] = <<>> BY <1>1, <1>2, <2>1, <2>2 DEF SentAt, Increasing
  <3>2. \A k \in 1..Len(got'[p]) : FALSE BY <1>3, <3>1, EmptySeq
  <3> QED BY <1>1, <1>2, <2>1, <3>2 DEF Increasing
 <2>3. CASE conn[p] # "attached" BY <1>1, <1>2, <1>3, <2>1, <2>3 DEF SentAt, Increasing
 <2> QED BY <2>2, <2>3
<1>15. OnTheWay(p)'
 <2>1. ASSUME NEW s \in 1..Len(disk), NEW x \in Ops, PortOf(x) = p, Covers(x, s) PROVE Covers(x, s)'
  <3>1. CASE x = o
   <4>1. ops[o].after < s /\ (s <= u \/ IsHeld(p, s)) BY <1>1, <1>2, <1>7, <2>1, <3>1 DEF Covers
   <4>2. IsHeld(p, s)' <=> IsHeld(p, s) BY <1>3 DEF IsHeld
   <4>3. s <= u \/ u < s BY <1>4
   <4> QED BY <1>1, <1>2, <1>4, <1>7, <3>1, <4>1, <4>2, <4>3 DEF Covers
  <3>2. CASE x # o
   <4>1. ops[x].pc \in {"wait", "snap"} => insts'[ops[x].inst].writtenSeq = insts[ops[x].inst].writtenSeq
     BY <1>1, <1>2 DEF LogInv, Snapping
   <4> QED BY <1>1, <1>2, <1>3, <2>1, <3>2, <4>1 DEF Covers, IsHeld
  <3> QED BY <3>1, <3>2
 <2> QED BY <1>1, <1>2, <1>3, <2>1 DEF SentAt, OnTheWay
<1> QED BY <1>1, <1>2, <1>5, <1>8, <1>9, <1>10, <1>11, <1>12, <1>13, <1>14, <1>15, OnePort DEF PortAt, SentAt

\* A reach is kept, and more is reached, when more is got.
LEMMA ReachesMore ==
  ASSUME NEW b \in Nat, NEW g \in Seq(Nat), NEW e \in Nat, NEW n \in Nat
  PROVE  /\ Reaches(b, g, n) => Reaches(b, Append(g, e), n)
         /\ n <= e => Reaches(b, Append(g, e), n)
<1>1. /\ Len(Append(g, e)) = Len(g) + 1 /\ Len(g) \in Nat /\ Append(g, e)[Len(g) + 1] = e
      /\ \A k \in 1..Len(g) : Append(g, e)[k] = g[k] /\ k \in 1..(Len(g) + 1)
      /\ Len(g) + 1 \in 1..(Len(g) + 1) BY LenProperties, AppendProperties
<1> QED BY <1>1 DEF Reaches

\* An event is written: it goes to a port, or to the events held back.
LEMMA WriteDonePorts ==
  ASSUME LogInv, Sent, NEW i \in DOMAIN insts, WriteDone(i)
  PROVE  Sent'
<1>0. PICK n \in Nat : n = Len(disk) BY Sizes DEF LogInv
<1>1. /\ Types /\ OneWriter /\ Listed /\ n \in Nat /\ cur # 0
      /\ i = cur /\ Len(disk') = n + 1 /\ Head(insts[i].queue).seq = n + 1
 <2>1. \A k \in 1..Len(insts) : k # 0 OBVIOUS
 <2> QED BY <1>0, <2>1, Written, Sizes DEF LogInv
<1>2. UNCHANGED <<conn, replaying, base, ops>> /\ ready = <<>> BY DEF WriteDone, Idle
<1>3. /\ held' = [p \in Ports |-> IF conn[p] = "attached" /\ Held(p) THEN Append(held[p], n + 1) ELSE held[p]]
      /\ got' = [p \in Ports |-> IF conn[p] = "attached" /\ ~Held(p) THEN Append(got[p], n + 1) ELSE got[p]]
  BY <1>1 DEF WriteDone
<1>4. \A j \in 1..Len(insts) : insts[j].writtenSeq \in Nat /\ insts'[j].writtenSeq \in Nat
                               /\ insts[j].writtenSeq <= insts'[j].writtenSeq
 <2>1. PICK v \in Instance : Turned(i, v) /\ v.writtenSeq = Head(insts[i].queue).seq BY <1>1, InstSteps, Written
 <2>2. \A j \in 1..Len(insts) : insts[j].writtenSeq \in Nat BY <1>1, Sizes
 <2>3. insts[i].writtenSeq <= n /\ i \in 1..Len(insts) BY <1>0, <1>1, Written DEF OneWriter
 <2>4. insts'[i].writtenSeq = n + 1 /\ \A j \in 1..Len(insts) : j # i => insts'[j] = insts[j] BY <1>1, <2>1 DEF Turned
 <2>5. insts[i].writtenSeq <= n + 1 BY <1>1, <2>2, <2>3
 <2>6. ASSUME NEW j \in 1..Len(insts) PROVE insts'[j].writtenSeq \in Nat /\ insts[j].writtenSeq <= insts'[j].writtenSeq
  <3>1. CASE j = i BY <1>1, <2>4, <2>5, <3>1
  <3>2. CASE j # i BY <2>2, <2>4, <3>2
  <3> QED BY <3>1, <3>2
 <2> QED BY <2>2, <2>6
<1>5. \A o \in Ops : ops[o].pc # "log"
 <2>1. waiters = <<>> BY <1>1 DEF OneWriter
 <2>2. Len(ready) = 0 /\ Len(waiters) = 0 BY <1>2, <2>1, EmptySeq
 <2>3. (\A k \in 1..Len(ready) : FALSE) /\ (\A k \in 1..Len(waiters) : FALSE) BY <2>2
 <2> QED BY <1>1, <2>3 DEF Listed
<1>6. \A o \in Ops : ops[o].pc \in {"wait", "snap", "stream"} => ops[o].inst \in 1..Len(insts) BY DEF LogInv, Snapping
<1>7. ASSUME NEW p \in Ports PROVE PortAt(p)' /\ SentAt(p)'
 <2>1. /\ PortAt(p) /\ SentAt(p) /\ held[p] \in Seq(Nat) /\ got[p] \in Seq(Nat) /\ base[p] \in Nat
       /\ Len(held[p]) \in Nat /\ Len(got[p]) \in Nat /\ \A k \in 1..Len(got[p]) : got[p][k] \in Nat
       /\ replaying[p] \in Ops \cup {NoOp} BY <1>1, PortTypes DEF Sent
 <2>2. n = Len(disk) /\ n + 1 \in Nat BY <1>0
 <2>3. (NoLoad(p)' <=> NoLoad(p)) /\ (Single(p)' <=> Single(p)) BY <1>2, SingleSame
 <2>4. Holding(p)' BY <1>2, <1>3, <2>1 DEF PortAt, Holding, Held
 <2>5. Fresh(p)' BY <1>2, <1>3, <2>1 DEF PortAt, Fresh
 <2>6. CASE conn[p] = "attached" /\ ~Held(p)
  <3>1. /\ held'[p] = held[p] /\ got'[p] = Append(got[p], n + 1) /\ replaying[p] = NoOp /\ held[p] = <<>>
    BY <1>3, <2>1, <2>6 DEF Held, PortAt, Holding
  <3>2. /\ Len(got'[p]) = Len(got[p]) + 1 /\ got'[p][Len(got[p]) + 1] = n + 1
        /\ \A k \in 1..Len(got[p]) : got'[p][k] = got[p][k] /\ k \in 1..(Len(got[p]) + 1)
        /\ \A k \in 1..(Len(got[p]) + 1) : k \in 1..Len(got[p]) \/ k = Len(got[p]) + 1
        /\ Len(got[p]) + 1 \in 1..(Len(got[p]) + 1) BY <2>1, <2>2, <3>1, AppendProperties
  <3>3. \A o \in Ops : PortOf(o) = p => ops[o].pc \notin {"log", "snap", "stream"}
   <4>1. \A o \in Ops : o # NoOp BY Requests
   <4> QED BY <1>5, <2>1, <3>1, <4>1 DEF PortAt, Holding
  <3>4. Bounded(p)'
   <4>1. \A k \in 1..Len(got'[p]) : got'[p][k] <= n + 1
    <5>1. \A k \in 1..Len(got[p]) : got[p][k] <= n BY <2>1, <2>2 DEF PortAt, Bounded
    <5>2. \A k \in 1..Len(got[p]) : got[p][k] <= n + 1 BY <1>1, <2>1, <5>1
    <5>3. n + 1 <= n + 1 BY <1>1
    <5> QED BY <3>2, <5>2, <5>3
   <4>2. base'[p] <= n + 1 BY <1>1, <1>2, <2>1, <2>2 DEF PortAt, Bounded
   <4>3. \A o \in Ops : PortOf(o) = p /\ ops[o].pc = "wait" => ops[o].after <= n + 1
    <5>1. \A o \in Ops : PortOf(o) = p /\ ops[o].pc = "wait" => ops[o].after <= n /\ ops[o].after \in Nat
      BY <1>1, <2>1, <2>2, OpTypes DEF PortAt, Bounded
    <5> QED BY <1>1, <5>1
   <4>4. \A o \in Ops : PortOf(o) = p /\ ops[o].pc = "bind" => ops[o].after = 0 /\ ops[o].load
     BY <2>1 DEF PortAt, Bounded
   <4> QED BY <1>1, <1>2, <3>3, <4>1, <4>2, <4>3, <4>4 DEF Bounded
  <3>5. HeldCounts(p)'
   <4>1. Len(held'[p]) = 0 /\ \A j \in 1..Len(held'[p]) : FALSE BY <3>1, EmptySeq
   <4> QED BY <1>1, <4>1 DEF HeldCounts
  <3>6. InReach(p)'
   <4> SUFFICES ASSUME NoLoad(p)' PROVE InReach(p)' BY DEF InReach
   <4>1. InReach(p) /\ NoLoad(p) BY <2>1, <2>3 DEF SentAt
   <4>2. Reaches(base'[p], got'[p], n + 1)
    <5>1. n + 1 <= n + 1 BY <2>2
    <5>2. Reaches(base[p], Append(got[p], n + 1), n + 1) BY <2>1, <2>2, <5>1, ReachesMore
    <5> QED BY <1>2, <3>1, <5>2
   <4>3. \A o \in Ops : PortOf(o) = p /\ ops[o].pc = "wait" => Reaches(base'[p], got'[p], ops[o].after)
    <5>1. \A o \in Ops : PortOf(o) = p /\ ops[o].pc = "wait" => Reaches(base[p], got[p], ops[o].after)
      BY <2>6, <4>1 DEF InReach, Reached
    <5> QED BY <1>1, <1>2, <2>1, <2>2, <3>1, <5>1, OpTypes, ReachesMore
   <4>4. Reached(p, Len(disk))' BY <1>1, <4>2 DEF Reached
   <4> QED BY <1>2, <3>3, <4>3, <4>4 DEF InReach, Reached
  <3>7. NoLoad(p) => Reached(p, n) BY <1>5, <2>1, <2>2, <2>6, <3>1 DEF SentAt, InReach
  <3>8. Ordered(p)'
   <4> SUFFICES ASSUME NoLoad(p), NEW k \in 1..Len(got'[p])
                PROVE  \/ got'[p][k] <= base[p] + 1
                       \/ \E j \in 1..(k - 1) : got'[p][k] <= got'[p][j] + 1 BY <1>2, <2>3 DEF Ordered
   <4>1. CASE k = Len(got[p]) + 1
    <5>1. got'[p][k] = n + 1 BY <3>2, <4>1
    <5>2. CASE n <= base[p] BY <1>1, <2>1, <5>1, <5>2
    <5>3. CASE \E j \in 1..Len(got[p]) : n <= got[p][j]
     <6>1. PICK j \in 1..Len(got[p]) : n <= got[p][j] BY <5>3
     <6>2. j \in 1..(k - 1) /\ got'[p][j] = got[p][j] /\ got[p][j] \in Nat BY <2>1, <3>2, <4>1, <6>1
     <6>3. n + 1 <= got'[p][j] + 1 BY <1>1, <6>1, <6>2
     <6> QED BY <5>1, <6>2, <6>3
    <5> QED BY <3>7, <5>2, <5>3 DEF Reached, Reaches
   <4>2. CASE k \in 1..Len(got[p])
    <5>1. /\ got'[p][k] = got[p][k]
          /\ \/ got[p][k] <= base[p] + 1
             \/ \E j \in 1..(k - 1) : got[p][k] <= got[p][j] + 1 BY <2>1, <3>2, <4>2 DEF SentAt, Ordered
    <5>2. \A j \in 1..(k - 1) : got'[p][j] = got[p][j]
     <6>1. \A j \in 1..(k - 1) : j \in 1..Len(got[p]) BY <2>1, <4>2
     <6> QED BY <3>2, <6>1
    <5> QED BY <5>1, <5>2
   <4> QED BY <3>2, <4>1, <4>2
  <3>9. Increasing(p)'
   <4> SUFFICES ASSUME Single(p) PROVE Increasing(p)' BY <2>3 DEF Increasing
   <4>1. <<p, 1>> \in Ops /\ PortOf(<<p, 1>>) = p BY <2>1, <2>6 DEF PortAt, Fresh, PortOf
   <4>2. ops[<<p, 1>>].pc \notin {"log", "snap", "stream", "wait"} BY <2>1, <2>6, <3>3, <4>1 DEF SentAt, Increasing
   <4>3. \A j, k \in 1..Len(got'[p]) : j < k => got'[p][j] < got'[p][k]
    <5>1. \A j, k \in 1..Len(got[p]) : j < k => got[p][j] < got[p][k] BY <2>1 DEF SentAt, Increasing
    <5>2. \A j \in 1..Len(got[p]) : got[p][j] < n + 1
     <6>1. \A j \in 1..Len(got[p]) : got[p][j] <= n BY <2>1, <2>2 DEF PortAt, Bounded
     <6> QED BY <1>1, <2>1, <6>1
    <5>3. ASSUME NEW j \in 1..Len(got'[p]), NEW k \in 1..Len(got'[p]), j < k PROVE got'[p][j] < got'[p][k]
     <6>1. j \in 1..Len(got[p]) BY <2>1, <3>2, <5>3
     <6> QED BY <3>2, <5>1, <5>2, <5>3, <6>1
    <5> QED BY <5>3
   <4> QED BY <1>2, <4>2, <4>3 DEF Increasing
  <3>10. OnTheWay(p)'
   <4>1. ASSUME NEW s \in 1..(n + 1)
         PROVE  \/ s <= base'[p]
                \/ \E k \in 1..Len(got'[p]) : got'[p][k] = s
                \/ \E o \in Ops : PortOf(o) = p /\ Covers(o, s)'
    <5>1. CASE s = n + 1 BY <3>2, <5>1
    <5>2. CASE s # n + 1
     <6>1. s \in 1..Len(disk) BY <1>1, <2>2, <5>2
     <6>2. CASE s <= base[p] \/ \E k \in 1..Len(got[p]) : got[p][k] = s BY <1>2, <3>2, <6>2
     <6>3. ASSUME NEW o \in Ops, PortOf(o) = p, Covers(o, s) PROVE Covers(o, s)'
      <7>1. CASE ops[o].pc = "bind" BY <1>2, <7>1 DEF Covers
      <7>2. CASE ops[o].pc = "wait" /\ ops[o].after < s /\ s <= insts[ops[o].inst].writtenSeq
       <8>1. s <= insts'[ops[o].inst].writtenSeq BY <1>1, <1>4, <1>6, <7>2
       <8> QED BY <1>2, <7>2, <8>1 DEF Covers
      <7> QED BY <3>3, <6>3, <7>1, <7>2 DEF Covers
     <6> QED BY <2>1, <2>6, <6>1, <6>2, <6>3 DEF SentAt, OnTheWay
    <5> QED BY <5>1, <5>2
   <4> QED BY <1>1, <4>1 DEF OnTheWay
  <3> QED BY <2>4, <2>5, <3>4, <3>5, <3>6, <3>8, <3>9, <3>10 DEF PortAt, SentAt
 <2>7. CASE ~(conn[p] = "attached" /\ ~Held(p))
  <3>1. got'[p] = got[p] /\ (conn[p] # "attached" => held'[p] = held[p]) BY <1>3, <2>7
  <3>2. conn[p] = "attached" => Held(p) /\ held'[p] = Append(held[p], n + 1) BY <1>3, <2>7
  <3>3. conn[p] = "attached" =>
          /\ Len(held'[p]) = Len(held[p]) + 1 /\ held'[p][Len(held[p]) + 1] = n + 1
          /\ \A k \in 1..Len(held[p]) : held'[p][k] = held[p][k] /\ k \in 1..(Len(held[p]) + 1)
          /\ \A k \in 1..(Len(held[p]) + 1) : k \in 1..Len(held[p]) \/ k = Len(held[p]) + 1
          /\ Len(held[p]) + 1 \in 1..(Len(held[p]) + 1)
   <4> SUFFICES ASSUME conn[p] = "attached"
                PROVE  /\ Len(held'[p]) = Len(held[p]) + 1 /\ held'[p][Len(held[p]) + 1] = n + 1
                       /\ \A k \in 1..Len(held[p]) : held'[p][k] = held[p][k] /\ k \in 1..(Len(held[p]) + 1)
                       /\ \A k \in 1..(Len(held[p]) + 1) : k \in 1..Len(held[p]) \/ k = Len(held[p]) + 1
                       /\ Len(held[p]) + 1 \in 1..(Len(held[p]) + 1) OBVIOUS
   <4>1. held'[p] = Append(held[p], n + 1) BY <3>2
   <4> QED BY <2>1, <2>2, <4>1, Joined
  <3>4. conn[p] = "attached" => Start(p)' = Start(p)
   <4>1. Start(p)' = Len(disk') - Len(held'[p]) /\ Start(p) = n - Len(held[p]) BY <2>2 DEF Start
   <4>2. PICK m \in Nat : m = Len(held[p]) BY <2>1
   <4>3. (n + 1) - (m + 1) = n - m BY <1>1
   <4>4. conn[p] = "attached" => Len(held'[p]) = m + 1 BY <3>3, <4>2
   <4> QED BY <1>1, <4>1, <4>2, <4>3, <4>4
  <3>5. Bounded(p)'
   <4>1. \A k \in 1..Len(got'[p]) : got'[p][k] <= n + 1
    <5>1. \A k \in 1..Len(got[p]) : got[p][k] <= n BY <2>1, <2>2 DEF PortAt, Bounded
    <5> QED BY <1>1, <2>1, <3>1, <5>1
   <4>2. base'[p] <= n + 1 BY <1>1, <1>2, <2>1, <2>2 DEF PortAt, Bounded
   <4>3. ASSUME NEW o \in Ops, PortOf(o) = p
         PROVE  /\ ops[o].pc \in {"log", "wait", "snap", "stream"} => ops[o].after <= n + 1
                /\ ops[o].pc = "stream" => ops[o].until <= n + 1
                /\ ops[o].pc = "bind" => ops[o].after = 0 /\ ops[o].load
    <5>1. /\ ops[o].pc \in {"log", "wait", "snap", "stream"} => ops[o].after <= n
          /\ ops[o].pc = "stream" => ops[o].until <= n
          /\ ops[o].pc = "bind" => ops[o].after = 0 /\ ops[o].load BY <2>1, <2>2, <4>3 DEF PortAt, Bounded
    <5>2. ops[o].after \in Nat /\ ops[o].until \in Nat BY <1>1, OpTypes
    <5> QED BY <1>1, <5>1, <5>2
   <4> QED BY <1>1, <1>2, <4>1, <4>2, <4>3 DEF Bounded
  <3>6. HeldCounts(p)'
   <4> SUFFICES ASSUME conn[p] = "attached"
                PROVE  /\ Len(held'[p]) <= n + 1
                       /\ \A j \in 1..Len(held'[p]) : held'[p][j] = Start(p)' + j BY <1>1, <1>2 DEF HeldCounts
   <4>1. Len(held[p]) <= n /\ \A j \in 1..Len(held[p]) : held[p][j] = Start(p) + j
     BY <2>1, <2>2 DEF PortAt, HeldCounts
   <4>2. Start(p) = n - Len(held[p]) BY <2>2 DEF Start
   <4>3. PICK m \in Nat : m = Len(held[p]) BY <2>1
   <4>4. Start(p) + (Len(held[p]) + 1) = n + 1 /\ Len(held[p]) + 1 <= n + 1
    <5>1. (n - m) + (m + 1) = n + 1 /\ (m <= n => m + 1 <= n + 1) BY <1>1
    <5> QED BY <4>1, <4>2, <4>3, <5>1
   <4> QED BY <3>3, <3>4, <4>1, <4>4
  <3>7. InReach(p)'
   <4> SUFFICES ASSUME NoLoad(p)', conn[p] = "attached"
                PROVE  InReach(p)' BY <1>2 DEF InReach
   <4>1. InReach(p) /\ NoLoad(p) BY <2>1, <2>3 DEF SentAt
   <4>2. Start(p)' = Start(p) /\ Start(p) \in Int /\ \A m : Reached(p, m) <=> Reaches(base'[p], got'[p], m)
    <5>1. Start(p) \in Int BY <2>1, <2>2 DEF Start
    <5>2. \A m : Reached(p, m) <=> Reaches(base'[p], got'[p], m) BY <1>2, <3>1 DEF Reached
    <5> QED BY <3>4, <5>1, <5>2
   <4>3. ASSUME NEW o \in Ops, PortOf(o) = p
         PROVE  /\ ops[o].pc \in {"log", "wait", "snap", "stream"} => Reached(p, ops[o].after)
                /\ ops[o].pc = "snap" => Reached(p, Start(p)) \/ Start(p) <= insts'[ops[o].inst].writtenSeq
                /\ ops[o].pc = "stream" => Reached(p, Start(p)) \/ Start(p) <= ops[o].until
    <5>1. /\ ops[o].pc \in {"log", "wait", "snap", "stream"} => Reached(p, ops[o].after)
          /\ ops[o].pc = "snap" => Reached(p, Start(p)) \/ Start(p) <= insts[ops[o].inst].writtenSeq
          /\ ops[o].pc = "stream" => Reached(p, Start(p)) \/ Start(p) <= ops[o].until BY <4>1, <4>3 DEF InReach
    <5>2. ops[o].pc = "snap" /\ Start(p) <= insts[ops[o].inst].writtenSeq
            => Start(p) <= insts'[ops[o].inst].writtenSeq BY <1>4, <1>6, <4>2
    <5> QED BY <5>1, <5>2
   <4>4. replaying[p] # NoOp BY <3>2 DEF Held
   <4> QED BY <1>2, <4>2, <4>3, <4>4 DEF InReach, Reached
  <3>8. Ordered(p)' BY <1>2, <2>1, <2>3, <3>1 DEF SentAt, Ordered
  <3>9. Increasing(p)' BY <1>2, <2>1, <2>3, <3>1 DEF SentAt, Increasing
  <3>10. OnTheWay(p)'
   <4> SUFFICES ASSUME conn[p] = "attached", NEW s \in 1..(n + 1)
                PROVE  \/ s <= base[p]
                       \/ \E k \in 1..Len(got[p]) : got[p][k] = s
                       \/ \E o \in Ops : PortOf(o) = p /\ Covers(o, s)' BY <1>1, <1>2, <3>1 DEF OnTheWay
   <4>1. \A m : IsHeld(p, m) => IsHeld(p, m)' BY <3>3 DEF IsHeld
   <4>2. CASE s = n + 1
    <5> DEFINE o == replaying[p]
    <5>1. o \in Ops /\ PortOf(o) = p /\ ops[o].pc \in {"snap", "stream"} BY <2>1, <3>2 DEF Held, PortAt, Holding
    <5>2. ops[o].after <= n /\ (ops[o].pc = "stream" => ops[o].until <= n) BY <2>1, <2>2, <5>1 DEF PortAt, Bounded
    <5>3. ops[o].after \in Nat /\ ops[o].until \in Nat BY <1>1, <5>1, OpTypes
    <5>4. ops[o].after < s /\ (ops[o].pc = "stream" => ops[o].until < s) BY <1>1, <4>2, <5>2, <5>3
    <5>5. IsHeld(p, s)' BY <3>3, <4>2 DEF IsHeld
    <5>6. PICK x \in Ops : x = o BY <5>1
    <5> HIDE DEF o
    <5>7. Covers(x, s)' BY <1>2, <5>1, <5>4, <5>5, <5>6 DEF Covers
    <5> QED BY <5>1, <5>6, <5>7
   <4>3. CASE s # n + 1
    <5>1. s \in 1..Len(disk) BY <1>1, <2>2, <4>3
    <5>2. ASSUME NEW o \in Ops, PortOf(o) = p, Covers(o, s) PROVE Covers(o, s)'
     <6>1. ops[o].pc \in {"wait", "snap"} /\ s <= insts[ops[o].inst].writtenSeq
             => s <= insts'[ops[o].inst].writtenSeq BY <1>1, <1>4, <1>6
     <6> QED BY <1>2, <4>1, <5>2, <6>1 DEF Covers
    <5> QED BY <2>1, <5>1, <5>2 DEF SentAt, OnTheWay
   <4> QED BY <4>2, <4>3
  <3> QED BY <2>4, <2>5, <3>5, <3>6, <3>7, <3>8, <3>9, <3>10 DEF PortAt, SentAt
 <2> QED BY <2>6, <2>7
<1> QED BY <1>7 DEF Sent

\* The attach that goes on keeps what it is to send: a snapshot of the open log
\* reaches as far as the disk.
LEMMA StartReplayPorts ==
  ASSUME LogInv, Sent, StartReplay
  PROVE  Sent'
<1>0. Types /\ OneWriter /\ Listed /\ Snapping BY DEF LogInv
<1>1. PICK o \in Ops, i \in 1..Len(insts) :
            /\ ready # <<>> /\ o = Head(ready) /\ o = ready[1] /\ 1 \in 1..Len(ready) /\ ready' = Tail(ready)
            /\ ops[o].pc \in {"log", "wait"} /\ (ops[o].pc = "log" => i = cur)
            /\ (ops[o].pc = "wait" => i = ops[o].inst)
            /\ ops'[o].inst = i /\ ops'[o].after = ops[o].after /\ (ops'[o].load <=> ops[o].load)
            /\ \/ /\ replaying[PortOf(o)] = NoOp /\ Moves(o, "snap")
                  /\ replaying' = [replaying EXCEPT ![PortOf(o)] = o]
                  /\ held' = [held EXCEPT ![PortOf(o)] = <<>>]
                  /\ \E v \in Instance :
                        /\ Turned(i, v) /\ v.closed = insts[i].closed /\ v.lastSeq = insts[i].lastSeq
                        /\ v.writtenSeq = insts[i].writtenSeq
                        /\ v.queue = Append(insts[i].queue, [kind |-> "snap", op |-> o])
               \/ /\ replaying[PortOf(o)] # NoOp /\ Moves(o, "wait")
                  /\ UNCHANGED <<replaying, held, insts>> BY Started
<1>2. PICK p \in Ports : p = PortOf(o) BY Requests
<1>3. PICK n \in Nat : n = Len(disk) BY <1>0, Sizes
<1>4. UNCHANGED <<disk, conn, base, got>> /\ n = Len(disk') BY <1>3 DEF StartReplay
<1>5. \A j \in 1..Len(insts) : insts'[j].writtenSeq = insts[j].writtenSeq
 <2>1. CASE UNCHANGED insts BY <2>1
 <2>2. CASE \E v \in Instance : Turned(i, v) /\ v.writtenSeq = insts[i].writtenSeq BY <2>2 DEF Turned
 <2> QED BY <1>1, <2>1, <2>2
<1>6. PICK pc \in {"snap", "wait"} : Moves(o, pc) BY <1>1
<1>7. ops'[o].pc = pc /\ \A x \in Ops : x # o => ops'[x] = ops[x] BY <1>6 DEF Moves
<1>8. /\ replaying[p] = NoOp <=> pc = "snap"
      /\ pc = "snap" => replaying'[p] = o /\ held'[p] = <<>>
      /\ pc = "wait" => replaying'[p] = replaying[p] /\ held'[p] = held[p]
      /\ \A q \in Ports : q # p => replaying'[q] = replaying[q] /\ held'[q] = held[q]
 <2>1. replaying \in [Ports -> Ops \cup {NoOp}] /\ held \in [Ports -> Seq(Nat)] BY <1>0 DEF Types
 <2>2. Moves(o, "snap") => pc = "snap" BY <1>7 DEF Moves
 <2>3. Moves(o, "wait") => pc = "wait" BY <1>7 DEF Moves
 <2> QED BY <1>1, <1>2, <2>1, <2>2, <2>3
<1>9. SameLog /\ \A q \in Ports : q # p => SamePort(q) BY <1>2, <1>4, <1>5, <1>7, <1>8 DEF SameLog, SamePort
<1>10. PortAt(p) /\ SentAt(p) BY DEF Sent
<1>11. (NoLoad(p)' => NoLoad(p)) /\ (Single(p)' => Single(p) /\ o = <<p, 1>>)
 <2>1. pc # "none" /\ (ops[o].load => ops'[o].load) BY <1>1
 <2> QED BY <1>2, <1>6, <2>1, SingleMoves
<1>12. \A x \in Ops : x # NoOp BY Requests
<1>13. replaying[p] \in Ops \cup {NoOp} BY <1>0, PortTypes
<1>14. ops[o].pc = "log" => insts[i].writtenSeq = n BY <1>0, <1>1, <1>3 DEF OneWriter
<1>15. Holding(p)'
 <2>1. replaying'[p] # NoOp => PortOf(replaying'[p]) = p /\ ops'[replaying'[p]].pc \in {"snap", "stream"}
   BY <1>1, <1>2, <1>7, <1>8, <1>10, <1>13 DEF PortAt, Holding
 <2>2. \A x \in Ops : PortOf(x) = p /\ ops'[x].pc \in {"snap", "stream"} => replaying'[p] = x
   BY <1>7, <1>8, <1>10, <1>12 DEF PortAt, Holding
 <2>3. replaying'[p] # NoOp BY <1>8, <1>12
 <2> QED BY <2>1, <2>2, <2>3 DEF Holding
<1>16. Bounded(p)'
 <2>1. ASSUME NEW x \in Ops, PortOf(x) = p
       PROVE  /\ ops'[x].pc \in {"log", "wait", "snap", "stream"} => ops'[x].after <= Len(disk')
              /\ ops'[x].pc = "stream" => ops'[x].until <= Len(disk')
              /\ ops'[x].pc = "bind" => ops'[x].after = 0 /\ ops'[x].load
   BY <1>1, <1>4, <1>7, <1>10, <2>1 DEF PortAt, Bounded
 <2> QED BY <1>4, <1>10, <2>1 DEF PortAt, Bounded
<1>17. Fresh(p)'
 <2>1. \A x \in Ops : PortOf(x) = p /\ ops'[x].pc = "none" => ~ops'[x].load /\ ops'[x].after = 0
   BY <1>7, <1>10 DEF PortAt, Fresh
 <2>2. conn[p] # "new" BY <1>1, <1>2, <1>10 DEF PortAt, Fresh
 <2>3. <<p, 1>> \in Ops /\ ops'[<<p, 1>>].pc # "none" BY <1>7, <1>10, <2>2 DEF PortAt, Fresh
 <2> QED BY <1>4, <2>1, <2>2, <2>3 DEF Fresh
<1>18. pc = "snap" => Start(p)' = n /\ Len(held'[p]) = 0
 <2>1. pc = "snap" => Len(held'[p]) = 0 BY <1>8, EmptySeq
 <2>2. Start(p)' = n - Len(held'[p]) BY <1>4 DEF Start
 <2> QED BY <2>1, <2>2
<1>19. pc = "wait" => Start(p)' = Start(p) BY <1>4, <1>8 DEF Start
<1>20. HeldCounts(p)'
 <2>1. CASE pc = "snap"
  <3>1. \A j \in 1..Len(held'[p]) : FALSE BY <1>18, <2>1
  <3> QED BY <1>4, <1>18, <2>1, <3>1 DEF HeldCounts
 <2>2. CASE pc = "wait"
  <3>1. HeldCounts(p) BY <1>10 DEF PortAt
  <3> QED BY <1>4, <1>8, <2>2, <3>1 DEF HeldCounts, Start
 <2> QED BY <2>1, <2>2
<1>21. InReach(p)'
 <2> SUFFICES ASSUME NoLoad(p)', conn[p] = "attached"
              PROVE  /\ \A x \in Ops : PortOf(x) = p =>
                          /\ ops'[x].pc \in {"log", "wait", "snap", "stream"} => Reached(p, ops[x].after)'
                          /\ ops'[x].pc = "snap" => \/ Reached(p, Start(p))'
                                                    \/ Start(p)' <= insts'[ops'[x].inst].writtenSeq
                          /\ ops'[x].pc = "stream" => Reached(p, Start(p))' \/ Start(p)' <= ops'[x].until
                          /\ ops'[x].pc = "wait" /\ replaying'[p] = NoOp => Reached(p, Len(disk))'
                     /\ replaying'[p] = NoOp /\ (\A x \in Ops : PortOf(x) = p => ops'[x].pc # "log") =>
                          Reached(p, Len(disk))' BY <1>4 DEF InReach
 <2>1. InReach(p) /\ NoLoad(p) BY <1>10, <1>11 DEF SentAt
 <2>2. \A m : Reached(p, m) <=> Reaches(base'[p], got'[p], m) BY <1>4 DEF Reached
 <2>3. replaying'[p] # NoOp BY <1>8, <1>12
 <2>4. ASSUME NEW x \in Ops, PortOf(x) = p
       PROVE  /\ ops'[x].pc \in {"log", "wait", "snap", "stream"} => Reaches(base'[p], got'[p], ops'[x].after)
              /\ ops'[x].pc = "snap" => \/ Reaches(base'[p], got'[p], Start(p)')
                                        \/ Start(p)' <= insts'[ops'[x].inst].writtenSeq
              /\ ops'[x].pc = "stream" => Reaches(base'[p], got'[p], Start(p)') \/ Start(p)' <= ops'[x].until
  <3>1. /\ ops[x].pc \in {"log", "wait", "snap", "stream"} => Reaches(base'[p], got'[p], ops[x].after)
        /\ ops[x].pc = "snap" => \/ Reaches(base'[p], got'[p], Start(p))
                                 \/ Start(p) <= insts[ops[x].inst].writtenSeq
        /\ ops[x].pc = "stream" => Reaches(base'[p], got'[p], Start(p)) \/ Start(p) <= ops[x].until
        /\ ops[x].pc = "wait" /\ replaying[p] = NoOp => Reaches(base'[p], got'[p], n)
    BY <1>3, <2>1, <2>2, <2>4 DEF InReach
  <3>2. CASE x = o
   <4>1. ops[o].pc = "log" => n <= insts'[i].writtenSeq BY <1>3, <1>5, <1>14
   <4> QED BY <1>1, <1>7, <1>8, <1>18, <3>1, <3>2, <4>1
  <3>3. CASE x # o
   <4>1. ops[x].pc = "snap" => insts'[ops[x].inst].writtenSeq = insts[ops[x].inst].writtenSeq
     BY <1>0, <1>5 DEF Snapping
   <4>2. CASE pc = "snap"
    <5>1. ops[x].pc \notin {"snap", "stream"} BY <1>8, <1>10, <1>12, <2>4, <4>2 DEF PortAt, Holding
    <5> QED BY <1>7, <3>1, <3>3, <5>1
   <4>3. CASE pc = "wait" BY <1>7, <1>19, <3>1, <3>3, <4>1, <4>3
   <4> QED BY <4>2, <4>3
  <3> QED BY <3>2, <3>3
 <2>5. \A x \in Ops : ops'[x].after = ops[x].after BY <1>1, <1>7
 <2> QED BY <2>3, <2>4, <2>5 DEF Reached
<1>22. Ordered(p)' BY <1>4, <1>10, <1>11 DEF SentAt, Ordered
<1>23. Increasing(p)'
 <2> SUFFICES ASSUME Single(p)' PROVE Increasing(p)' BY DEF Increasing
 <2>1. o = <<p, 1>> /\ Single(p) BY <1>11
 <2>2. pc = "snap"
  <3> SUFFICES ASSUME pc = "wait" PROVE FALSE OBVIOUS
  <3>1. PICK r \in Ops : r = replaying[p] BY <1>8, <1>13
  <3>2. PortOf(r) = p /\ ops[r].pc \in {"snap", "stream"} BY <1>10, <1>12, <3>1 DEF PortAt, Holding
  <3>3. r[2] \in 1..MaxRequests /\ r = <<p, r[2]>> BY <3>2, Requests
  <3>4. r[2] \notin 2..MaxRequests BY <2>1, <3>2, <3>3 DEF Single
  <3>5. r[2] = 1 BY <3>3, <3>4, FanoutAssumption
  <3> QED BY <1>1, <2>1, <3>2, <3>3, <3>5
 <2>3. /\ \A k, j \in 1..Len(got[p]) : k < j => got[p][k] < got[p][j]
       /\ conn[p] = "attached" => got[p] = <<>> BY <1>1, <1>10, <2>1 DEF SentAt, Increasing
 <2> QED BY <1>4, <1>7, <2>1, <2>2, <2>3 DEF Increasing
<1>24. OnTheWay(p)'
 <2>1. ASSUME NEW s \in 1..n, NEW x \in Ops, PortOf(x) = p, Covers(x, s) PROVE Covers(x, s)'
  <3>1. CASE x = o
   <4>1. ops[o].after < s /\ s <= insts[i].writtenSeq
    <5>1. s <= n OBVIOUS
    <5> QED BY <1>1, <1>14, <2>1, <3>1, <5>1 DEF Covers
   <4>2. s <= insts'[i].writtenSeq BY <1>5, <4>1
   <4> QED BY <1>1, <1>7, <3>1, <4>1, <4>2 DEF Covers
  <3>2. CASE x # o
   <4>1. ops[x].pc \in {"wait", "snap"} => insts'[ops[x].inst].writtenSeq = insts[ops[x].inst].writtenSeq
     BY <1>0, <1>5 DEF Snapping
   <4>2. CASE pc = "snap"
    <5>1. ops[x].pc \notin {"snap", "stream"} BY <1>8, <1>10, <1>12, <2>1, <4>2 DEF PortAt, Holding
    <5> QED BY <1>7, <2>1, <3>2, <4>1, <5>1 DEF Covers
   <4>3. CASE pc = "wait"
    <5>1. IsHeld(p, s)' <=> IsHeld(p, s) BY <1>8, <4>3 DEF IsHeld
    <5> QED BY <1>7, <2>1, <3>2, <4>1, <5>1 DEF Covers
   <4> QED BY <4>2, <4>3
  <3> QED BY <3>1, <3>2
 <2> QED BY <1>3, <1>4, <1>10, <2>1 DEF SentAt, OnTheWay
<1> QED BY <1>9, <1>15, <1>16, <1>17, <1>20, <1>21, <1>22, <1>23, <1>24, OnePort DEF PortAt, SentAt

\* The replay sends the event behind the last one it sent, which is never more
\* than one ahead of what the client has seen.
LEMMA ReplaySendPorts ==
  ASSUME LogInv, Sent, NEW o \in Ops, ReplaySend(o)
  PROVE  Sent'
<1>0. Types /\ DiskCounts BY DEF LogInv
<1>1. PICK p \in Ports : p = PortOf(o) BY Requests
<1>2. PICK n \in Nat : n = Len(disk) BY <1>0, Sizes
<1>3. /\ UNCHANGED <<disk, insts, conn, replaying, held, base>> /\ n = Len(disk')
      /\ ops[o].pc = "stream" /\ Todo(o) # <<>> BY <1>2 DEF ReplaySend, logVars
<1>4. PICK a \in Nat, u \in Nat : a = ops[o].after /\ u = ops[o].until BY <1>0, OpTypes
<1>5. Head(Todo(o)) = a + 1 /\ a + 1 <= u /\ a + 1 <= n BY <1>0, <1>2, <1>3, <1>4, TodoNext
<1>6. PICK e \in Nat : e = a + 1 BY <1>4
<1>7. /\ Moves(o, "stream") /\ (ops'[o].load <=> ops[o].load)
      /\ ops'[o].after = e /\ ops'[o].until = u BY <1>0, <1>4, <1>5, <1>6, OpSteps
<1>8. ops'[o].pc = "stream" /\ \A x \in Ops : x # o => ops'[x] = ops[x] BY <1>7 DEF Moves
<1>9. /\ conn[p] = "attached" => got'[p] = Append(got[p], e)
      /\ conn[p] # "attached" => got'[p] = got[p]
      /\ \A q \in Ports : q # p => got'[q] = got[q] BY <1>0, <1>1, <1>5, <1>6 DEF ReplaySend, Types
<1>10. SameLog /\ \A q \in Ports : q # p => SamePort(q) BY <1>1, <1>3, <1>8, <1>9 DEF SameLog, SamePort
<1>11. PortAt(p) /\ SentAt(p) BY DEF Sent
<1>12. (NoLoad(p)' => NoLoad(p)) /\ (Single(p)' => Single(p) /\ o = <<p, 1>>)
 <2>1. ops[o].load => ops'[o].load BY <1>7
 <2> QED BY <1>1, <1>7, <2>1, SingleMoves
<1>13. /\ held[p] \in Seq(Nat) /\ got[p] \in Seq(Nat) /\ base[p] \in Nat
       /\ Len(held[p]) \in Nat /\ Len(got[p]) \in Nat /\ \A k \in 1..Len(got[p]) : got[p][k] \in Nat
       /\ replaying[p] \in Ops \cup {NoOp} BY <1>0, PortTypes
<1>14. replaying[p] = o /\ o # NoOp /\ conn[p] # "new" BY <1>1, <1>3, <1>11, Requests DEF PortAt, Holding, Fresh
<1>15. conn[p] = "attached" =>
         /\ Len(got'[p]) = Len(got[p]) + 1 /\ got'[p][Len(got[p]) + 1] = e
         /\ \A k \in 1..Len(got[p]) : got'[p][k] = got[p][k] /\ k \in 1..(Len(got[p]) + 1)
         /\ \A k \in 1..(Len(got[p]) + 1) : k \in 1..Len(got[p]) \/ k = Len(got[p]) + 1
         /\ Len(got[p]) + 1 \in 1..(Len(got[p]) + 1)
 <2> SUFFICES ASSUME conn[p] = "attached"
              PROVE  /\ Len(got'[p]) = Len(got[p]) + 1 /\ got'[p][Len(got[p]) + 1] = e
                     /\ \A k \in 1..Len(got[p]) : got'[p][k] = got[p][k] /\ k \in 1..(Len(got[p]) + 1)
                     /\ \A k \in 1..(Len(got[p]) + 1) : k \in 1..Len(got[p]) \/ k = Len(got[p]) + 1
                     /\ Len(got[p]) + 1 \in 1..(Len(got[p]) + 1) OBVIOUS
 <2>1. got'[p] = Append(got[p], e) BY <1>9
 <2> QED BY <1>13, <2>1, Joined
<1>16. Holding(p)' BY <1>3, <1>8, <1>11, <1>13 DEF PortAt, Holding
<1>17. Bounded(p)'
 <2>1. ASSUME NEW x \in Ops, PortOf(x) = p
       PROVE  /\ ops'[x].pc \in {"log", "wait", "snap", "stream"} => ops'[x].after <= n
              /\ ops'[x].pc = "stream" => ops'[x].until <= n
              /\ ops'[x].pc = "bind" => ops'[x].after = 0 /\ ops'[x].load
  <3>1. CASE x = o BY <1>2, <1>3, <1>4, <1>5, <1>6, <1>7, <1>8, <1>11, <2>1, <3>1 DEF PortAt, Bounded
  <3>2. CASE x # o BY <1>2, <1>8, <1>11, <2>1, <3>2 DEF PortAt, Bounded
  <3> QED BY <3>1, <3>2
 <2>2. \A k \in 1..Len(got'[p]) : got'[p][k] <= n
  <3>1. \A k \in 1..Len(got[p]) : got[p][k] <= n BY <1>2, <1>11 DEF PortAt, Bounded
  <3>2. e <= n BY <1>5, <1>6
  <3>3. CASE conn[p] = "attached" BY <1>15, <3>1, <3>2, <3>3
  <3>4. CASE conn[p] # "attached" BY <1>9, <3>1, <3>4
  <3> QED BY <3>3, <3>4
 <2>3. base'[p] <= n BY <1>2, <1>3, <1>11 DEF PortAt, Bounded
 <2> QED BY <1>3, <2>1, <2>2, <2>3 DEF Bounded
<1>18. Fresh(p)'
 <2>1. \A x \in Ops : PortOf(x) = p /\ ops'[x].pc = "none" => ~ops'[x].load /\ ops'[x].after = 0
   BY <1>8, <1>11 DEF PortAt, Fresh
 <2>2. <<p, 1>> \in Ops /\ ops'[<<p, 1>>].pc # "none" BY <1>8, <1>11, <1>14 DEF PortAt, Fresh
 <2> QED BY <1>3, <1>14, <2>1, <2>2 DEF Fresh
<1>19. HeldCounts(p)'
 <2>1. HeldCounts(p) BY <1>11 DEF PortAt
 <2> QED BY <1>3, <2>1 DEF HeldCounts, Start
<1>20. InReach(p)'
 <2> SUFFICES ASSUME NoLoad(p)', conn[p] = "attached" PROVE InReach(p)' BY <1>3 DEF InReach
 <2>1. InReach(p) /\ NoLoad(p) BY <1>11, <1>12 DEF SentAt
 <2>2. Start(p)' = Start(p) /\ Start(p) \in Nat
  <3>1. Len(held[p]) <= n /\ Start(p) = n - Len(held[p]) BY <1>2, <1>11 DEF PortAt, HeldCounts, Start
  <3>2. Start(p)' = Start(p) BY <1>3 DEF Start
  <3> QED BY <1>13, <3>1, <3>2
 <2>3. \A m \in Nat : Reaches(base[p], got[p], m) => Reaches(base'[p], got'[p], m) BY <1>3, <1>9, <1>13, ReachesMore
 <2>4. Reaches(base'[p], got'[p], e)
  <3>1. e <= e OBVIOUS
  <3>2. Reaches(base[p], Append(got[p], e), e) BY <1>13, <3>1, ReachesMore
  <3> QED BY <1>3, <1>9, <3>2
 <2>5. ASSUME NEW x \in Ops, PortOf(x) = p
       PROVE  /\ ops'[x].pc \in {"log", "wait", "snap", "stream"} => Reaches(base'[p], got'[p], ops'[x].after)
              /\ ops'[x].pc = "snap" => \/ Reaches(base'[p], got'[p], Start(p))
                                        \/ Start(p) <= insts'[ops'[x].inst].writtenSeq
              /\ ops'[x].pc = "stream" => Reaches(base'[p], got'[p], Start(p)) \/ Start(p) <= ops'[x].until
  <3>1. /\ ops[x].pc \in {"log", "wait", "snap", "stream"} => Reaches(base[p], got[p], ops[x].after)
        /\ ops[x].pc = "snap" => Reaches(base[p], got[p], Start(p)) \/ Start(p) <= insts[ops[x].inst].writtenSeq
        /\ ops[x].pc = "stream" => Reaches(base[p], got[p], Start(p)) \/ Start(p) <= ops[x].until
    BY <2>1, <2>5 DEF InReach, Reached
  <3>2. ops[x].after \in Nat BY <1>0, OpTypes
  <3>3. CASE x = o BY <1>3, <1>4, <1>7, <1>8, <2>2, <2>3, <2>4, <3>1, <3>3
  <3>4. CASE x # o BY <1>3, <1>8, <2>2, <2>3, <3>1, <3>2, <3>4
  <3> QED BY <3>3, <3>4
 <2>6. replaying'[p] # NoOp BY <1>3, <1>14
 <2> QED BY <2>2, <2>5, <2>6 DEF InReach, Reached
<1>21. Ordered(p)'
 <2>1. CASE conn[p] # "attached" BY <1>3, <1>9, <1>11, <1>12, <2>1 DEF SentAt, Ordered
 <2>2. CASE conn[p] = "attached"
  <3> SUFFICES ASSUME NoLoad(p), NEW k \in 1..Len(got'[p])
               PROVE  \/ got'[p][k] <= base[p] + 1
                      \/ \E j \in 1..(k - 1) : got'[p][k] <= got'[p][j] + 1 BY <1>3, <1>12 DEF Ordered
  <3>1. Reaches(base[p], got[p], a) BY <1>1, <1>3, <1>4, <1>11, <2>2 DEF SentAt, InReach, Reached
  <3>2. CASE k = Len(got[p]) + 1
   <4>1. got'[p][k] = a + 1 BY <1>6, <1>15, <2>2, <3>2
   <4>2. CASE a <= base[p] BY <1>13, <4>1, <4>2
   <4>3. CASE \E j \in 1..Len(got[p]) : a <= got[p][j]
    <5>1. PICK j \in 1..Len(got[p]) : a <= got[p][j] BY <4>3
    <5>2. j \in 1..(k - 1) /\ got'[p][j] = got[p][j] /\ got[p][j] \in Nat BY <1>13, <1>15, <2>2, <3>2, <5>1
    <5>3. a + 1 <= got'[p][j] + 1 BY <5>1, <5>2
    <5> QED BY <4>1, <5>2, <5>3
   <4> QED BY <3>1, <4>2, <4>3 DEF Reaches
  <3>3. CASE k \in 1..Len(got[p])
   <4>1. /\ got'[p][k] = got[p][k]
         /\ \/ got[p][k] <= base[p] + 1
            \/ \E j \in 1..(k - 1) : got[p][k] <= got[p][j] + 1 BY <1>11, <1>15, <2>2, <3>3 DEF SentAt, Ordered
   <4>2. \A j \in 1..(k - 1) : got'[p][j] = got[p][j]
    <5>1. \A j \in 1..(k - 1) : j \in 1..Len(got[p]) BY <1>13, <3>3
    <5> QED BY <1>15, <2>2, <5>1
   <4> QED BY <4>1, <4>2
  <3> QED BY <1>15, <2>2, <3>2, <3>3
 <2> QED BY <2>1, <2>2
<1>22. Increasing(p)'
 <2> SUFFICES ASSUME Single(p)' PROVE Increasing(p)' BY DEF Increasing
 <2>1. o = <<p, 1>> /\ Single(p) BY <1>12
 <2>2. \A j, k \in 1..Len(got[p]) : j < k => got[p][j] < got[p][k] BY <1>11, <2>1 DEF SentAt, Increasing
 <2>3. CASE conn[p] # "attached" BY <1>3, <1>9, <2>2, <2>3 DEF Increasing
 <2>4. CASE conn[p] = "attached"
  <3>1. \A k \in 1..Len(got[p]) : got[p][k] <= a /\ got[p][k] <= u
    BY <1>3, <1>4, <1>11, <2>1, <2>4 DEF SentAt, Increasing
  <3>2. \A k \in 1..Len(got[p]) : got[p][k] < e /\ got[p][k] <= e BY <1>6, <1>13, <3>1
  <3>3. e <= e /\ e <= u BY <1>5, <1>6
  <3>4. \A k \in 1..Len(got'[p]) : got'[p][k] <= e /\ got'[p][k] <= u BY <1>15, <2>4, <3>1, <3>2, <3>3
  <3>5. ASSUME NEW j \in 1..Len(got'[p]), NEW k \in 1..Len(got'[p]), j < k PROVE got'[p][j] < got'[p][k]
   <4>1. j \in 1..Len(got[p]) BY <1>13, <1>15, <2>4, <3>5
   <4> QED BY <1>15, <2>2, <2>4, <3>2, <3>5, <4>1
  <3> QED BY <1>3, <1>7, <1>8, <2>1, <3>4, <3>5 DEF Increasing
 <2> QED BY <2>3, <2>4
<1>23. OnTheWay(p)'
 <2> SUFFICES ASSUME conn[p] = "attached", NEW s \in 1..n
              PROVE  \/ s <= base[p]
                     \/ \E k \in 1..Len(got'[p]) : got'[p][k] = s
                     \/ \E x \in Ops : PortOf(x) = p /\ Covers(x, s)' BY <1>3 DEF OnTheWay
 <2>1. CASE s <= base[p] \/ \E k \in 1..Len(got[p]) : got[p][k] = s BY <1>15, <2>1
 <2>2. CASE \E x \in Ops : PortOf(x) = p /\ Covers(x, s)
  <3>1. PICK x \in Ops : PortOf(x) = p /\ Covers(x, s) BY <2>2
  <3>2. CASE x # o BY <1>3, <1>8, <3>1, <3>2 DEF Covers, IsHeld
  <3>3. CASE x = o /\ s = e BY <1>15, <3>3
  <3>4. CASE x = o /\ s # e
   <4>1. (a < s /\ s <= u) \/ (u < s /\ IsHeld(p, s)) BY <1>1, <1>3, <1>4, <3>1, <3>4 DEF Covers
   <4>2. a < s => e < s BY <1>6, <3>4
   <4>3. IsHeld(p, s)' <=> IsHeld(p, s) BY <1>3 DEF IsHeld
   <4> QED BY <1>7, <1>8, <3>1, <3>4, <4>1, <4>2, <4>3 DEF Covers
  <3> QED BY <3>2, <3>3, <3>4
 <2> QED BY <1>2, <1>11, <2>1, <2>2 DEF SentAt, OnTheWay
<1> QED BY <1>10, <1>16, <1>17, <1>18, <1>19, <1>20, <1>21, <1>22, <1>23, OnePort DEF PortAt, SentAt

\* The held events the replay did not send follow each other, and start at the
\* first one held or behind the end of the replay.
LEMMA NewerProperties ==
  ASSUME Types, NEW o \in Ops, NEW st \in Nat,
         \A j \in 1..Len(held[PortOf(o)]) : held[PortOf(o)][j] = st + j
  PROVE  /\ Newer(o) \in Seq(Nat)
         /\ \A k \in 1..Len(Newer(o)) : /\ ops[o].until < Newer(o)[k]
                                        /\ Newer(o)[k] <= st + Len(held[PortOf(o)])
                                        /\ \/ Newer(o)[k] = st + 1 \/ Newer(o)[k] = ops[o].until + 1
                                           \/ \E m \in 1..(k - 1) : Newer(o)[k] = Newer(o)[m] + 1
         /\ \A j, k \in 1..Len(Newer(o)) : j < k => Newer(o)[j] < Newer(o)[k]
         /\ \A s : IsHeld(PortOf(o), s) /\ ops[o].until < s => \E k \in 1..Len(Newer(o)) : Newer(o)[k] = s
<1>0. PICK p \in Ports, h \in Nat, u \in Nat : p = PortOf(o) /\ h = Len(held[p]) /\ u = ops[o].until
  BY Requests, PortTypes, OpTypes
<1> DEFINE g == held[p]
           I == {i \in DOMAIN g : g[i] > u}
           w == Newer(o)
           r(i) == Rank(I, i)
<1>1. g \in Seq(Nat) /\ DOMAIN g = 1..h BY <1>0, PortTypes, LenProperties
<1>2. w = Sublist(g, I) BY <1>0 DEF Newer
<1>3. I \in SUBSET (1..Len(g)) /\ \A j \in 1..h : j \in I <=> u < st + j BY <1>0, <1>1
<1>4. /\ w \in Seq(Nat) /\ Len(w) \in Nat
      /\ \A i \in I : r(i) \in 1..Len(w) /\ w[r(i)] = g[i]
      /\ \A i, j \in I : i < j => r(i) < r(j)
      /\ \A k \in 1..Len(w) : \E i \in I : r(i) = k /\ w[k] = g[i]
 <2>1. I \in SUBSET (1..Len(g)) /\ g \in Seq(Nat) BY <1>1, <1>3
 <2> HIDE DEF g, I
 <2>2. /\ Sublist(g, I) \in Seq(Nat) /\ Len(Sublist(g, I)) = Cardinality(I)
       /\ Cardinality(I) \in Nat
       /\ \A i \in I : Rank(I, i) \in 1..Cardinality(I) /\ Sublist(g, I)[Rank(I, i)] = g[i]
       /\ \A i, j \in I : i < j => Rank(I, i) < Rank(I, j)
       /\ \A k \in 1..Cardinality(I) : \E i \in I : Rank(I, i) = k /\ Sublist(g, I)[k] = g[i]
   BY <2>1, SublistProperties
 <2> QED BY <1>2, <2>2
<1>5. \A j \in 1..h : g[j] = st + j /\ j \in Nat BY <1>0
<1>6. \A i \in I : i \in 1..h /\ i \in Nat /\ u < st + i BY <1>1, <1>3
<1> HIDE DEF g, I, w, r
<1>7. ASSUME NEW k \in 1..Len(w)
      PROVE  /\ u < w[k] /\ w[k] <= st + h
             /\ w[k] = st + 1 \/ w[k] = u + 1 \/ \E m \in 1..(k - 1) : w[k] = w[m] + 1
 <2>1. PICK i \in I : r(i) = k /\ w[k] = g[i] BY <1>4
 <2>2. i \in 1..h /\ i \in Nat /\ u < st + i /\ w[k] = st + i BY <1>5, <1>6, <2>1
 <2>3. CASE i = 1 BY <2>2, <2>3
 <2>4. CASE i # 1 /\ u < st + (i - 1)
  <3>1. i - 1 \in 1..h BY <2>2, <2>4
  <3>2. i - 1 \in I BY <1>3, <2>4, <3>1
  <3>8. i - 1 < i BY <2>2
  <3>3. r(i - 1) \in 1..Len(w) /\ w[r(i - 1)] = st + (i - 1) /\ r(i - 1) < r(i) BY <1>4, <1>5, <3>1, <3>2, <3>8
  <3>4. r(i - 1) \in 1..(k - 1) BY <1>4, <2>1, <3>3
  <3>5. st + i = (st + (i - 1)) + 1 BY <2>2
  <3>6. st + i <= st + h BY <2>2
  <3> QED BY <2>2, <3>3, <3>4, <3>5, <3>6
 <2>5. CASE i # 1 /\ ~(u < st + (i - 1))
  <3>1. PICK c \in Nat : i = c + 1 BY <2>2
  <3>2. st + i = u + 1 /\ st + i <= st + h BY <2>2, <2>5, <3>1
  <3> QED BY <2>2, <3>2
 <2> QED BY <2>3, <2>4, <2>5
<1>8. ASSUME NEW j \in 1..Len(w), NEW k \in 1..Len(w), j < k PROVE w[j] < w[k]
 <2>1. PICK x \in I : r(x) = j /\ w[j] = g[x] BY <1>4
 <2>2. PICK y \in I : r(y) = k /\ w[k] = g[y] BY <1>4
 <2>3. ~(y < x) /\ y # x
  <3>1. j \in Int /\ k \in Int /\ ~(k < j) /\ j # k BY <1>4, <1>8
  <3> QED BY <1>4, <2>1, <2>2, <3>1
 <2>4. x < y BY <1>6, <2>3
 <2> QED BY <1>5, <1>6, <2>1, <2>2, <2>4
<1>9. ASSUME NEW s, IsHeld(p, s), u < s PROVE \E k \in 1..Len(w) : w[k] = s
 <2>1. PICK j \in 1..h : g[j] = s BY <1>0, <1>9 DEF IsHeld, g
 <2>2. j \in I BY <1>3, <1>5, <1>9, <2>1
 <2> QED BY <1>4, <2>1, <2>2
<1> QED BY <1>0, <1>4, <1>7, <1>8, <1>9 DEF w

LEMMA ReachesDown ==
  ASSUME NEW b \in Nat, NEW g \in Seq(Nat), NEW m \in Nat, NEW n \in Nat, n <= m, Reaches(b, g, m)
  PROVE  Reaches(b, g, n)
<1>1. \A i \in 1..Len(g) : g[i] \in Nat BY ElementOfSeq
<1>2. CASE m <= b BY <1>2 DEF Reaches
<1>3. ASSUME NEW i \in 1..Len(g), m <= g[i] PROVE n <= g[i] BY <1>1, <1>3
<1> QED BY <1>2, <1>3 DEF Reaches

\* The seqs of both lists are reached, when one follows the other.
Appended(b, g, w) ==
    /\ g \o w \in Seq(Nat) /\ Len(g \o w) = Len(g) + Len(w) /\ Len(g) \in Nat /\ Len(w) \in Nat
    /\ \A k \in 1..Len(g) : (g \o w)[k] = g[k] /\ k \in 1..Len(g \o w)
    /\ \A k \in 1..Len(w) : (g \o w)[Len(g) + k] = w[k] /\ Len(g) + k \in 1..Len(g \o w)
    /\ \A k \in 1..Len(g \o w) : k \in 1..Len(g) \/ \E j \in 1..Len(w) : k = Len(g) + j
    /\ \A n : Reaches(b, g, n) => Reaches(b, g \o w, n)
    /\ \A k \in 1..Len(w) : \A n \in Nat : n <= w[k] => Reaches(b, g \o w, n)

LEMMA ReachesBoth ==
  ASSUME NEW b \in Nat, NEW g \in Seq(Nat), NEW w \in Seq(Nat) PROVE Appended(b, g, w)
<1>1. /\ g \o w \in Seq(Nat) /\ Len(g \o w) = Len(g) + Len(w) /\ Len(g) \in Nat /\ Len(w) \in Nat
      /\ \A k \in 1..(Len(g) + Len(w)) : (g \o w)[k] = IF k <= Len(g) THEN g[k] ELSE w[k - Len(g)]
  BY LenProperties, ConcatProperties
<1>2. PICK x \in Nat, y \in Nat : x = Len(g) /\ y = Len(w) BY <1>1
<1>3. ASSUME NEW k \in 1..x PROVE (g \o w)[k] = g[k] /\ k \in 1..(x + y)
 <2>1. k \in 1..(x + y) /\ k <= x OBVIOUS
 <2> QED BY <1>1, <1>2, <2>1
<1>4. ASSUME NEW k \in 1..y PROVE (g \o w)[x + k] = w[k] /\ x + k \in 1..(x + y)
 <2>1. x + k \in 1..(x + y) /\ ~(x + k <= x) /\ (x + k) - x = k OBVIOUS
 <2> QED BY <1>1, <1>2, <2>1
<1>5. ASSUME NEW k \in 1..(x + y) PROVE k \in 1..x \/ \E j \in 1..y : k = x + j
 <2>1. k \in 1..x \/ (k - x \in 1..y /\ k = x + (k - x)) OBVIOUS
 <2> QED BY <2>1
<1>6. ASSUME NEW n, Reaches(b, g, n) PROVE Reaches(b, g \o w, n)
 <2>1. n <= b \/ \E k \in 1..x : n <= g[k] BY <1>2, <1>6 DEF Reaches
 <2>2. n <= b \/ \E k \in 1..(x + y) : n <= (g \o w)[k] BY <1>3, <2>1
 <2> QED BY <1>1, <1>2, <2>2 DEF Reaches
<1>7. ASSUME NEW k \in 1..y, NEW n \in Nat, n <= w[k] PROVE Reaches(b, g \o w, n)
 <2>1. \E j \in 1..(x + y) : n <= (g \o w)[j] BY <1>4, <1>7
 <2> QED BY <1>1, <1>2, <2>1 DEF Reaches
<1>8. /\ Len(g \o w) = x + y
      /\ \A k \in 1..x : (g \o w)[k] = g[k] /\ k \in 1..(x + y)
      /\ \A k \in 1..y : (g \o w)[x + k] = w[k] /\ x + k \in 1..(x + y)
      /\ \A k \in 1..(x + y) : k \in 1..x \/ \E j \in 1..y : k = x + j BY <1>1, <1>2, <1>3, <1>4, <1>5
<1> QED BY <1>1, <1>2, <1>6, <1>7, <1>8 DEF Appended

\* The replay is over: its held events bring the client up to the disk.
LEMMA ReplayDonePorts ==
  ASSUME LogInv, Sent, NEW o \in Ops, ReplayDone(o)
  PROVE  Sent'
<1>0. Types /\ DiskCounts BY DEF LogInv
<1>1. PICK p \in Ports : p = PortOf(o) BY Requests
<1>2. PICK n \in Nat : n = Len(disk) BY <1>0, Sizes
<1>3. /\ UNCHANGED <<disk, insts, conn, base>> /\ n = Len(disk')
      /\ ops[o].pc = "stream" /\ Todo(o) = <<>> BY <1>2 DEF ReplayDone, logVars
<1>4. PICK a \in Nat, u \in Nat : a = ops[o].after /\ u = ops[o].until BY <1>0, OpTypes
<1>5. Moves(o, "done") /\ (ops'[o].load <=> ops[o].load) BY <1>0, OpSteps, <1>3
<1>6. ops'[o].pc = "done" /\ \A x \in Ops : x # o => ops'[x] = ops[x] BY <1>5 DEF Moves
<1>7. PICK w : w = Newer(o) OBVIOUS
<1>8. /\ replaying'[p] = NoOp /\ held'[p] = <<>>
      /\ conn[p] = "attached" => got'[p] = got[p] \o w
      /\ conn[p] # "attached" => got'[p] = got[p]
      /\ \A q \in Ports : q # p => got'[q] = got[q] /\ held'[q] = held[q] /\ replaying'[q] = replaying[q]
  BY <1>0, <1>1, <1>7 DEF ReplayDone, Types
<1>9. SameLog /\ \A q \in Ports : q # p => SamePort(q) BY <1>1, <1>3, <1>6, <1>8 DEF SameLog, SamePort
<1>10. PortAt(p) /\ SentAt(p) BY DEF Sent
<1>11. (NoLoad(p)' => NoLoad(p)) /\ (Single(p)' => Single(p) /\ o = <<p, 1>>)
 <2>1. ops[o].load => ops'[o].load BY <1>5
 <2> QED BY <1>1, <1>5, <2>1, SingleMoves
<1>12. PICK h \in Nat : h = Len(held[p]) BY <1>0, PortTypes
<1>13. /\ got[p] \in Seq(Nat) /\ base[p] \in Nat /\ Len(got[p]) \in Nat
       /\ \A k \in 1..Len(got[p]) : got[p][k] \in Nat /\ got[p][k] <= n
  BY <1>0, <1>2, <1>10, PortTypes DEF PortAt, Bounded
<1>14. u <= n /\ a <= n /\ u <= a
 <2>1. u <= n /\ a <= n BY <1>1, <1>2, <1>3, <1>4, <1>10 DEF PortAt, Bounded
 <2>2. \A s \in 1..n : s <= a \/ u < s BY <1>0, <1>2, <1>3, <1>4, TodoNext
 <2> QED BY <2>1, <2>2
<1>15. replaying[p] = o /\ o # NoOp /\ conn[p] # "new" BY <1>1, <1>3, <1>10, Requests DEF PortAt, Holding, Fresh
<1>16. \A x \in Ops : PortOf(x) = p /\ x # o => ops[x].pc \notin {"snap", "stream"}
  BY <1>10, <1>15 DEF PortAt, Holding
<1>17. Holding(p)' BY <1>3, <1>6, <1>8, <1>16 DEF Holding
<1>18. Fresh(p)'
 <2>1. \A x \in Ops : PortOf(x) = p /\ ops'[x].pc = "none" => ~ops'[x].load /\ ops'[x].after = 0
   BY <1>6, <1>10 DEF PortAt, Fresh
 <2>2. <<p, 1>> \in Ops /\ ops'[<<p, 1>>].pc # "none" BY <1>6, <1>10, <1>15 DEF PortAt, Fresh
 <2> QED BY <1>3, <1>15, <2>1, <2>2 DEF Fresh
<1>19. HeldCounts(p)'
 <2>1. Len(held'[p]) = 0 /\ \A j \in 1..Len(held'[p]) : FALSE BY <1>8, EmptySeq
 <2> QED BY <1>3, <2>1 DEF HeldCounts
<1>20. ASSUME NEW x \in Ops, PortOf(x) = p
       PROVE  /\ ops'[x].pc \in {"log", "wait", "snap", "stream"} => ops'[x].after <= n
              /\ ops'[x].pc = "stream" => ops'[x].until <= n
              /\ ops'[x].pc = "bind" => ops'[x].after = 0 /\ ops'[x].load
  BY <1>2, <1>6, <1>10, <1>20 DEF PortAt, Bounded
<1>21. CASE conn[p] # "attached"
 <2>1. Bounded(p)' BY <1>2, <1>3, <1>8, <1>10, <1>20, <1>21 DEF PortAt, Bounded
 <2>2. InReach(p)' /\ OnTheWay(p)' BY <1>3, <1>21 DEF InReach, OnTheWay
 <2>3. Ordered(p)' BY <1>3, <1>8, <1>10, <1>11, <1>21 DEF SentAt, Ordered
 <2>4. Increasing(p)' BY <1>3, <1>8, <1>10, <1>11, <1>21 DEF SentAt, Increasing
 <2> QED BY <1>9, <1>17, <1>18, <1>19, <2>1, <2>2, <2>3, <2>4, OnePort DEF PortAt, SentAt
<1>22. CASE conn[p] = "attached"
 <2>1. PICK st \in Nat : st = Start(p) /\ st + h = n
  <3>1. h <= n /\ Start(p) = n - h BY <1>2, <1>10, <1>12, <1>22 DEF PortAt, HeldCounts, Start
  <3> QED BY <3>1
 <2>2. \A j \in 1..h : held[p][j] = st + j BY <1>10, <1>12, <1>22, <2>1 DEF PortAt, HeldCounts
 <2>3. /\ w \in Seq(Nat)
       /\ \A k \in 1..Len(w) : /\ u < w[k] /\ w[k] <= st + h
                               /\ w[k] = st + 1 \/ w[k] = u + 1 \/ \E m \in 1..(k - 1) : w[k] = w[m] + 1
       /\ \A j, k \in 1..Len(w) : j < k => w[j] < w[k]
       /\ \A s : IsHeld(p, s) /\ u < s => \E k \in 1..Len(w) : w[k] = s
  <3>1. \A j \in 1..Len(held[PortOf(o)]) : held[PortOf(o)][j] = st + j BY <1>1, <1>12, <2>2
  <3>2. /\ Newer(o) \in Seq(Nat)
        /\ \A k \in 1..Len(Newer(o)) : /\ ops[o].until < Newer(o)[k]
                                       /\ Newer(o)[k] <= st + Len(held[PortOf(o)])
                                       /\ \/ Newer(o)[k] = st + 1 \/ Newer(o)[k] = ops[o].until + 1
                                          \/ \E m \in 1..(k - 1) : Newer(o)[k] = Newer(o)[m] + 1
        /\ \A j, k \in 1..Len(Newer(o)) : j < k => Newer(o)[j] < Newer(o)[k]
        /\ \A s : IsHeld(PortOf(o), s) /\ ops[o].until < s => \E k \in 1..Len(Newer(o)) : Newer(o)[k] = s
    BY <1>0, <3>1, NewerProperties
  <3>3. w = Newer(o) /\ p = PortOf(o) /\ u = ops[o].until /\ h = Len(held[PortOf(o)]) BY <1>1, <1>4, <1>7, <1>12
  <3> QED BY <3>2, <3>3
 <2>4. \A k \in 1..Len(w) : w[k] \in Nat /\ u < w[k] /\ w[k] <= n BY <2>1, <2>3, ElementOfSeq
 <2>5. PICK g \in Seq(Nat), b \in Nat : g = got[p] /\ b = base[p] BY <1>13
 <2>b. Appended(b, g, w) BY <2>3, ReachesBoth
 <2>6. PICK x \in Nat, y \in Nat : x = Len(g) /\ y = Len(w) BY <2>b DEF Appended
 <2>7. PICK z \in Seq(Nat) : z = got'[p] /\ z = g \o w BY <1>8, <1>22, <2>5, <2>b DEF Appended
 <2>8. /\ Len(z) = x + y /\ base'[p] = b
       /\ \A k \in 1..x : z[k] = g[k] /\ k \in 1..(x + y) /\ g[k] \in Nat /\ g[k] <= n
       /\ \A k \in 1..y : z[x + k] = w[k] /\ x + k \in 1..(x + y)
       /\ \A k \in 1..(x + y) : k \in 1..x \/ \E j \in 1..y : k = x + j
       /\ \A m : Reaches(b, g, m) => Reaches(b, z, m)
       /\ \A k \in 1..y : \A m \in Nat : m <= w[k] => Reaches(b, z, m)
  <3>1. /\ Len(g \o w) = Len(g) + Len(w)
        /\ \A k \in 1..Len(g) : (g \o w)[k] = g[k] /\ k \in 1..Len(g \o w)
        /\ \A k \in 1..Len(w) : (g \o w)[Len(g) + k] = w[k] /\ Len(g) + k \in 1..Len(g \o w)
        /\ \A k \in 1..Len(g \o w) : k \in 1..Len(g) \/ \E j \in 1..Len(w) : k = Len(g) + j
        /\ \A m : Reaches(b, g, m) => Reaches(b, g \o w, m)
        /\ \A k \in 1..Len(w) : \A m \in Nat : m <= w[k] => Reaches(b, g \o w, m) BY <2>b DEF Appended
  <3>2. \A k \in 1..Len(g) : g[k] \in Nat /\ g[k] <= n BY <1>13, <2>5
  <3> QED BY <1>3, <2>5, <2>6, <2>7, <3>1, <3>2
 <2>9. NoLoad(p) => /\ Reaches(b, g, a) /\ Reaches(b, g, u) /\ Reaches(b, g, st)
                    /\ \A v \in Ops : PortOf(v) = p /\ ops[v].pc \in {"log", "wait"} => Reaches(b, g, ops[v].after)
  <3> SUFFICES ASSUME NoLoad(p)
               PROVE  /\ Reaches(b, g, a) /\ Reaches(b, g, u) /\ Reaches(b, g, st)
                      /\ \A v \in Ops : PortOf(v) = p /\ ops[v].pc \in {"log", "wait"} => Reaches(b, g, ops[v].after)
    OBVIOUS
  <3>1. InReach(p) BY <1>10 DEF SentAt
  <3>2. Reaches(b, g, a) /\ (Reaches(b, g, st) \/ st <= u)
    BY <1>1, <1>3, <1>4, <1>22, <2>1, <2>5, <3>1 DEF InReach, Reached
  <3>3. Reaches(b, g, u) BY <1>14, <3>2, ReachesDown
  <3>4. Reaches(b, g, st) BY <3>2, <3>3, ReachesDown
  <3> QED BY <1>22, <2>5, <3>1, <3>2, <3>3, <3>4 DEF InReach, Reached
 <2>10. NoLoad(p) => Reaches(b, z, n)
  <3> SUFFICES ASSUME NoLoad(p) PROVE Reaches(b, z, n) OBVIOUS
  <3>1. CASE h = 0
   <4>1. n = st BY <2>1, <3>1
   <4> QED BY <2>8, <2>9, <4>1
  <3>2. CASE h # 0 /\ u < n
   <4>1. IsHeld(p, n)
    <5>1. h \in 1..h BY <3>2
    <5>2. held[p][h] = n BY <2>1, <2>2, <5>1
    <5> QED BY <1>12, <5>1, <5>2 DEF IsHeld
   <4>2. PICK k \in 1..y : w[k] = n BY <2>3, <2>6, <3>2, <4>1
   <4>3. n <= w[k] BY <4>2
   <4> QED BY <2>8, <4>3
  <3>3. CASE ~(u < n)
   <4>1. n = u BY <1>14, <3>3
   <4> QED BY <2>8, <2>9, <4>1
  <3> QED BY <3>1, <3>2, <3>3
 <2>11. Bounded(p)'
  <3>1. ASSUME NEW k \in 1..(x + y) PROVE z[k] <= n
   <4>1. CASE k \in 1..x BY <2>8, <4>1
   <4>2. ASSUME NEW j \in 1..y, k = x + j PROVE z[k] <= n BY <2>4, <2>6, <2>8, <4>2
   <4> QED BY <2>8, <4>1, <4>2
  <3>2. base'[p] <= n BY <1>2, <1>3, <1>10 DEF PortAt, Bounded
  <3> QED BY <1>3, <1>20, <2>7, <2>8, <3>1, <3>2 DEF Bounded
 <2>12. InReach(p)'
  <3> SUFFICES ASSUME NoLoad(p)' PROVE InReach(p)' BY DEF InReach
  <3>1. Reaches(base'[p], got'[p], Len(disk')) BY <1>3, <1>11, <2>7, <2>8, <2>10
  <3>2. \A v \in Ops : PortOf(v) = p => ops'[v].pc \notin {"snap", "stream"} BY <1>6, <1>16
  <3>3. \A v \in Ops : PortOf(v) = p /\ ops'[v].pc \in {"log", "wait"} => Reaches(base'[p], got'[p], ops'[v].after)
    BY <1>6, <1>11, <2>7, <2>8, <2>9
  <3> QED BY <3>1, <3>2, <3>3 DEF InReach, Reached
 <2>13. Ordered(p)'
  <3> SUFFICES ASSUME NoLoad(p), NEW k \in 1..(x + y)
               PROVE  z[k] <= b + 1 \/ \E j \in 1..(k - 1) : z[k] <= z[j] + 1 BY <1>11, <2>7, <2>8 DEF Ordered
  <3>1. CASE k \in 1..x
   <4>1. g[k] <= b + 1 \/ \E j \in 1..(k - 1) : g[k] <= g[j] + 1 BY <1>10, <2>5, <2>6, <3>1 DEF SentAt, Ordered
   <4>2. \A j \in 1..(k - 1) : j \in 1..x BY <3>1
   <4> QED BY <2>8, <3>1, <4>1, <4>2
  <3>2. ASSUME NEW j \in 1..y, k = x + j PROVE z[k] <= b + 1 \/ \E i \in 1..(k - 1) : z[k] <= z[i] + 1
   <4>1. ASSUME NEW m \in Nat, Reaches(b, g, m), w[j] = m + 1
         PROVE  z[k] <= b + 1 \/ \E i \in 1..(k - 1) : z[k] <= z[i] + 1
    <5>1. z[k] = m + 1 BY <2>8, <3>2, <4>1
    <5>2. CASE m <= b BY <5>1, <5>2
    <5>3. ASSUME NEW i \in 1..x, m <= g[i] PROVE i \in 1..(k - 1) /\ z[k] <= z[i] + 1
     <6>1. i \in 1..(k - 1) /\ z[i] = g[i] /\ g[i] \in Nat BY <2>8, <3>2
     <6> QED BY <5>1, <5>3, <6>1
    <5> QED BY <2>6, <4>1, <5>2, <5>3 DEF Reaches
   <4>2. CASE w[j] = st + 1 \/ w[j] = u + 1 BY <2>9, <4>1, <4>2
   <4>3. ASSUME NEW m \in 1..(j - 1), w[j] = w[m] + 1
         PROVE  \E i \in 1..(k - 1) : z[k] <= z[i] + 1
    <5>1. m \in 1..y /\ x + m \in 1..(k - 1) BY <3>2
    <5>2. z[x + m] = w[m] /\ z[k] = w[m] + 1 /\ w[m] \in Nat BY <2>4, <2>6, <2>8, <3>2, <4>3, <5>1
    <5>3. z[k] <= z[x + m] + 1 BY <5>2
    <5> QED BY <5>1, <5>3
   <4> QED BY <2>3, <2>6, <4>2, <4>3
  <3> QED BY <2>8, <3>1, <3>2
 <2>14. Increasing(p)'
  <3> SUFFICES ASSUME Single(p)' PROVE Increasing(p)' BY DEF Increasing
  <3>1. o = <<p, 1>> /\ Single(p) BY <1>11
  <3>2. /\ \A j, k \in 1..x : j < k => g[j] < g[k]
        /\ \A k \in 1..x : g[k] <= u BY <1>3, <1>4, <1>10, <1>22, <2>5, <2>6, <3>1 DEF SentAt, Increasing
  <3>3. ASSUME NEW j \in 1..(x + y), NEW k \in 1..(x + y), j < k PROVE z[j] < z[k]
   <4>1. CASE k \in 1..x
    <5>1. j \in 1..x BY <3>3, <4>1
    <5> QED BY <2>8, <3>2, <3>3, <4>1, <5>1
   <4>2. ASSUME NEW i \in 1..y, k = x + i PROVE z[j] < z[k]
    <5>1. CASE j \in 1..x
     <6>1. z[j] <= u /\ u < z[k] /\ z[j] \in Nat /\ z[k] \in Nat BY <2>4, <2>6, <2>8, <3>2, <4>2, <5>1
     <6> QED BY <6>1
    <5>2. ASSUME NEW m \in 1..y, j = x + m PROVE z[j] < z[k]
     <6>1. m < i BY <3>3, <4>2, <5>2
     <6> QED BY <2>3, <2>6, <2>8, <4>2, <5>2, <6>1
    <5> QED BY <2>8, <5>1, <5>2
   <4> QED BY <2>8, <4>1, <4>2
  <3> QED BY <1>6, <2>7, <2>8, <3>1, <3>3 DEF Increasing
 <2>15. OnTheWay(p)'
  <3> SUFFICES ASSUME NEW s \in 1..n
               PROVE  \/ s <= b
                      \/ \E k \in 1..(x + y) : z[k] = s
                      \/ \E v \in Ops : PortOf(v) = p /\ Covers(v, s)' BY <1>3, <2>7, <2>8 DEF OnTheWay
  <3>1. CASE s <= b \/ \E k \in 1..x : g[k] = s BY <2>8, <3>1
  <3>2. ASSUME NEW v \in Ops, PortOf(v) = p, Covers(v, s)
        PROVE  (\E k \in 1..(x + y) : z[k] = s) \/ Covers(v, s)'
   <4>1. CASE v # o BY <1>3, <1>6, <1>16, <3>2, <4>1 DEF Covers
   <4>2. CASE v = o
    <5>1. (a < s /\ s <= u) \/ (u < s /\ IsHeld(p, s)) BY <1>1, <1>3, <1>4, <3>2, <4>2 DEF Covers
    <5>2. ~(a < s /\ s <= u) BY <1>14
    <5>3. PICK k \in 1..y : w[k] = s BY <2>3, <2>6, <5>1, <5>2
    <5> QED BY <2>8, <5>3
   <4> QED BY <4>1, <4>2
  <3> QED BY <1>2, <1>10, <1>22, <2>5, <2>6, <3>1, <3>2 DEF SentAt, OnTheWay
 <2> QED BY <1>9, <1>17, <1>18, <1>19, <2>11, <2>12, <2>13, <2>14, <2>15, OnePort DEF PortAt, SentAt
<1> QED BY <1>21, <1>22

--------------------
\* The theorems

LEMMA Initially == FanoutInit => FanoutInv
<1> SUFFICES ASSUME FanoutInit PROVE FanoutInv OBVIOUS
<1>1. /\ disk = <<>> /\ insts = <<>> /\ cur = 0 /\ opening = FALSE /\ closing = 0
      /\ waiters = <<>> /\ ready = <<>> BY DEF FanoutInit
<1>2. /\ Len(disk) = 0 /\ Len(insts) = 0 /\ Len(waiters) = 0 /\ Len(ready) = 0
      /\ disk \in Seq(Nat) /\ insts \in Seq(Instance) /\ waiters \in Seq(Callers) /\ ready \in Seq(Callers)
  BY <1>1, EmptySeq
<1>3. /\ \A i \in 1..Len(disk) : FALSE
      /\ \A i \in 1..Len(insts) : FALSE
      /\ \A i \in 1..Len(waiters) : FALSE
      /\ \A i \in 1..Len(ready) : FALSE BY <1>2
<1>4. \A o \in Ops : ops[o].pc = "none" /\ ~ops[o].load /\ ops[o].after = 0 BY DEF FanoutInit
<1>5. \A p \in Ports : /\ conn[p] = "new" /\ replaying[p] = NoOp /\ held[p] = <<>> /\ base[p] = 0
                       /\ got[p] = <<>> BY DEF FanoutInit
<1>6. Types
 <2>1. [pc |-> "none", load |-> FALSE, after |-> 0, inst |-> 0, until |-> 0] \in OpState BY DEF OpState
 <2>2. ops \in [Ops -> OpState] BY <2>1 DEF FanoutInit
 <2>3. \A p \in Ports : <<>> \in Seq(Nat) BY EmptySeq
 <2>4. /\ conn \in [Ports -> {"new", "attached", "closed"}] /\ replaying \in [Ports -> Ops \cup {NoOp}]
       /\ held \in [Ports -> Seq(Nat)] /\ base \in [Ports -> Nat] /\ got \in [Ports -> Seq(Nat)]
   BY <2>3 DEF FanoutInit
 <2>5. cur \in Nat /\ cur <= Len(insts) /\ closing \in Nat /\ closing <= Len(insts)
  <3>1. cur = 0 /\ closing = 0 /\ Len(insts) = 0 BY <1>1, <1>2
  <3> QED BY <3>1
 <2>6. opening \in BOOLEAN BY <1>1
 <2> QED BY <1>2, <2>2, <2>4, <2>5, <2>6 DEF Types
<1>7. DiskCounts /\ OneWriter /\ Listed /\ Snapping BY <1>1, <1>3, <1>4 DEF DiskCounts, OneWriter, Listed, Snapping
<1>8. ASSUME NEW p \in Ports PROVE PortAt(p) /\ SentAt(p)
 <2>1. Len(got[p]) = 0 /\ Len(held[p]) = 0 BY <1>5, EmptySeq
 <2>2. (\A i \in 1..Len(got[p]) : FALSE) /\ (\A i \in 1..Len(held[p]) : FALSE) BY <2>1
 <2>3. Holding(p) /\ Bounded(p) /\ Fresh(p) /\ HeldCounts(p)
   BY <1>2, <1>4, <1>5, <2>2 DEF Holding, Bounded, Fresh, HeldCounts
 <2>4. InReach(p) /\ Ordered(p) /\ Increasing(p) /\ OnTheWay(p)
   BY <1>5, <2>2 DEF InReach, Ordered, Increasing, OnTheWay
 <2> QED BY <2>3, <2>4 DEF PortAt, SentAt
<1> QED BY <1>6, <1>7, <1>8 DEF FanoutInv, LogInv

\* Every step keeps what is known of every port.
LEMMA PortStep == LogInv /\ Sent /\ [FanoutNext]_fanoutVars => Sent'
<1> SUFFICES ASSUME LogInv, Sent, [FanoutNext]_fanoutVars PROVE Sent' OBVIOUS
<1>1. CASE UNCHANGED fanoutVars BY <1>1, LogOnly
<1>2. CASE OpenDone \/ Evict \/ FlushDone \/ EngineFrame \/ AppendFrame BY <1>2, LogOnly
<1>3. ASSUME NEW i \in DOMAIN insts, WriteDone(i) \/ Snapshot(i) PROVE Sent' BY <1>3, WriteDonePorts, SnapshotPorts
<1>4. CASE StartReplay BY <1>4, StartReplayPorts
<1>5. ASSUME NEW o \in Ops, AttachLive(o) \/ Load(o) \/ \E after \in 0..MaxEvents : Attach(o, after)
      PROVE  Sent' BY <1>5, AskedPorts
<1>6. ASSUME NEW o \in Ops, LoadBound(o) \/ ReplaySend(o) \/ ReplayDone(o) PROVE Sent'
  BY <1>6, LoadBoundPorts, ReplaySendPorts, ReplayDonePorts
<1>7. ASSUME NEW p \in Ports, ClosePort(p) PROVE Sent' BY <1>7, ClosePortPorts
<1>8. CASE Done BY <1>1, <1>8 DEF Done
<1> QED BY <1>1, <1>2, <1>3, <1>4, <1>5, <1>6, <1>7, <1>8 DEF FanoutNext

LEMMA Inductive == FanoutSpec => []FanoutInv
<1>1. FanoutInv /\ [FanoutNext]_fanoutVars => FanoutInv' BY LogStep, PortStep DEF FanoutInv, Sent
<1> QED BY Initially, <1>1, PTL DEF FanoutSpec

\* Two events of a conversation never get the same seq: whatever is evicted
\* and opened again (#evictLogs, #logFor), the file holds 1, 2, ... in order.
THEOREM SeqsNeverReused == FanoutSpec => []SeqsUnique
<1>1. FanoutInv => SeqsUnique
 <2> SUFFICES ASSUME FanoutInv, NEW i \in 1..(Len(disk) - 1) PROVE disk[i] < disk[i + 1] BY DEF SeqsUnique
 <2>1. Len(disk) \in Nat BY Sizes DEF FanoutInv, LogInv
 <2>2. i \in 1..Len(disk) /\ i + 1 \in 1..Len(disk) BY <2>1
 <2>3. disk[i] = i /\ disk[i + 1] = i + 1 BY <2>2 DEF FanoutInv, LogInv, DiskCounts
 <2> QED BY <2>3
<1> QED BY Inductive, <1>1, PTL

\* A socket that uses _gc/attach, however its attaches overlap (#replayTo) and
\* whatever is evicted meanwhile, is never sent an event ahead of one it lacks;
\* and one that attached once is sent no event twice.
THEOREM AttachIsExact == FanoutSpec => []AttachedOnceInOrder
<1>1. FanoutInv => AttachedOnceInOrder
 <2> SUFFICES ASSUME FanoutInv PROVE AttachedInOrder /\ SentOnce BY DEF AttachedOnceInOrder
 <2>1. ASSUME NEW p \in Ports
       PROVE  /\ DOMAIN got[p] = 1..Len(got[p]) /\ Len(got[p]) \in Nat
              /\ \A i \in 1..Len(got[p]) : got[p][i] \in Nat BY PortTypes, LenProperties DEF FanoutInv, LogInv
 <2>2. ASSUME NEW p \in Ports, NoLoad(p), NEW i \in DOMAIN got[p]
       PROVE  \E s \in {base[p]} \cup {got[p][j] : j \in 1..(i - 1)} : got[p][i] <= s + 1
  <3>1. i \in 1..Len(got[p]) BY <2>1
  <3>2. Ordered(p) BY DEF FanoutInv, SentAt
  <3>3. got[p][i] <= base[p] + 1 \/ \E j \in 1..(i - 1) : got[p][i] <= got[p][j] + 1 BY <2>2, <3>1, <3>2 DEF Ordered
  <3> QED BY <3>3
 <2>3. ASSUME NEW p \in Ports, NoLoad(p), \A k \in 2..MaxRequests : ops[<<p, k>>].pc = "none",
              NEW i \in DOMAIN got[p], NEW j \in DOMAIN got[p], i # j
       PROVE  got[p][i] # got[p][j]
  <3>1. i \in 1..Len(got[p]) /\ j \in 1..Len(got[p]) /\ (i < j \/ j < i) BY <2>1, <2>3
  <3>2. Single(p) /\ Increasing(p) BY <2>3 DEF Single, FanoutInv, SentAt
  <3>3. got[p][i] < got[p][j] \/ got[p][j] < got[p][i] BY <3>1, <3>2 DEF Increasing
  <3>4. got[p][i] \in Nat /\ got[p][j] \in Nat BY <2>1, <3>1
  <3> QED BY <3>3, <3>4
 <2> QED BY <2>2, <2>3 DEF AttachedInOrder, InOrder, SentOnce
<1> QED BY Inductive, <1>1, PTL

\* When nothing is in flight any more, every attached client has every event
\* newer than the one it started from: no event is left in a held queue, in the
\* write queue of an evicted log, or between the end of a replay and the live
\* events (#replayTo, #fanout, #evictLogs), with session/load or without.
THEOREM NoEventIsMissed == FanoutSpec => []CaughtUp
<1>1. FanoutInv => CaughtUp
 <2> SUFFICES ASSUME FanoutInv, Quiet, NEW p \in Ports, conn[p] = "attached", NEW s \in RangeOf(disk), s > base[p]
              PROVE  s \in RangeOf(got[p]) BY DEF CaughtUp
 <2>1. /\ DOMAIN disk = 1..Len(disk) /\ DOMAIN got[p] = 1..Len(got[p])
       /\ Len(disk) \in Nat /\ base[p] \in Nat
  <3>1. disk \in Seq(Nat) /\ got[p] \in Seq(Nat) /\ base[p] \in Nat BY DEF FanoutInv, LogInv, Types
  <3> QED BY <3>1, LenProperties
 <2>2. s \in 1..Len(disk)
  <3>1. PICK i \in 1..Len(disk) : s = disk[i] BY <2>1 DEF RangeOf
  <3> QED BY <3>1 DEF FanoutInv, LogInv, DiskCounts
 <2>3. \A o \in Ops : ~Covers(o, s) BY DEF Quiet, Covers
 <2>4. ~(s <= base[p]) BY <2>1, <2>2
 <2>5. \E i \in 1..Len(got[p]) : got[p][i] = s BY <2>2, <2>3, <2>4 DEF FanoutInv, SentAt, OnTheWay
 <2> QED BY <2>1, <2>5 DEF RangeOf
<1> QED BY Inductive, <1>1, PTL

--------------------
\* BrokerTurns
\* The variables each unprimed tuple stands for.
USE DEF promptVars, turnVars, bindVars, engineVars, shutVars, boundVars, aimVars

--------------------
\* A step of the broker keeps every variable in its type.
LEMMA TypeStep == TypeOK /\ [Next]_vars => TypeOK'
<1> SUFFICES ASSUME TypeOK, [Next]_vars PROVE TypeOK' OBVIOUS
<1> USE BrokerAssumption
        DEF TypeOK, Stages, Admission, Turning, Calls, Results
<1>1. ASSUME NEW p \in Prompts, Submit(p) PROVE TypeOK'
 <2> USE <1>1 DEF Submit
 <2>1. PromptTypes' BY DEF PromptTypes
 <2>2. TurnTypes' BY DEF PromptTypes, TurnTypes
 <2>3. EngineTypes' BY DEF EngineTypes
 <2>4. HistoryTypes' BY DEF HistoryTypes
 <2> QED BY <2>1, <2>2, <2>3, <2>4
<1>2. ASSUME NEW p \in Prompts, Lookup(p) PROVE TypeOK'
 <2> USE <1>2 DEF Lookup, Proceed
 <2>1. PromptTypes' BY DEF PromptTypes
 <2>2. TurnTypes' BY DEF PromptTypes, TurnTypes
 <2>3. EngineTypes' BY DEF EngineTypes
 <2>4. HistoryTypes' BY DEF HistoryTypes
 <2> QED BY <2>1, <2>2, <2>3, <2>4
<1>3. ASSUME NEW p \in Prompts, CheckPrompt(p) PROVE TypeOK'
 <2> USE <1>3 DEF CheckPrompt, Proceed, Refuse
 <2>1. PromptTypes' BY DEF PromptTypes
 <2>2. TurnTypes' BY DEF PromptTypes, TurnTypes
 <2>3. EngineTypes' BY DEF EngineTypes
 <2>4. HistoryTypes' BY DEF HistoryTypes
 <2> QED BY <2>1, <2>2, <2>3, <2>4
<1>4. ASSUME NEW p \in Prompts, EngineIsReady(p) PROVE TypeOK'
 <2> USE <1>4 DEF EngineIsReady, BindFrom, Proceed, Refuse
 <2>1. PromptTypes' BY DEF PromptTypes
 <2>2. TurnTypes' BY DEF PromptTypes, TurnTypes
 <2>3. EngineTypes' BY DEF EngineTypes
 <2>4. HistoryTypes' BY DEF HistoryTypes
 <2> QED BY <2>1, <2>2, <2>3, <2>4
<1>5. ASSUME NEW p \in Prompts, BeginTurn(p) PROVE TypeOK'
 <2> USE <1>5 DEF BeginTurn, StartTurn, Refuse
 <2>1. PromptTypes' BY DEF PromptTypes
 <2>2. TurnTypes' BY DEF PromptTypes, TurnTypes
 <2>3. EngineTypes' BY DEF EngineTypes
 <2>4. HistoryTypes' BY DEF HistoryTypes
 <2> QED BY <2>1, <2>2, <2>3, <2>4
<1>6. ASSUME NEW p \in Prompts, Echo(p) PROVE TypeOK'
 <2> USE <1>6 DEF Echo, Remembered
 <2>1. PromptTypes' BY DEF PromptTypes
 <2>2. TurnTypes' BY DEF PromptTypes, TurnTypes
 <2>3. EngineTypes' BY DEF EngineTypes
 <2>4. HistoryTypes'
  <3>1. Append(events[ConvOf[p]], <<"echo", p>>)
           \in Seq({"echo", "turn_end", "unwritten"} \X Prompts) BY DEF HistoryTypes
  <3>2. events' \in [Convs -> Seq({"echo", "turn_end", "unwritten"} \X Prompts)] BY <3>1 DEF HistoryTypes
  <3> QED BY <3>2 DEF HistoryTypes
 <2> QED BY <2>1, <2>2, <2>3, <2>4
<1>7. ASSUME NEW p \in Prompts, SendPrompt(p) PROVE TypeOK'
 <2> USE <1>7 DEF SendPrompt, Finish, EngineVerdict, WithResolver
 <2>1. PromptTypes' BY DEF PromptTypes
 <2>2. TurnTypes' BY DEF PromptTypes, TurnTypes
 <2>3. EngineTypes' BY DEF EngineTypes
 <2>4. HistoryTypes' BY DEF HistoryTypes
 <2> QED BY <2>1, <2>2, <2>3, <2>4
<1>8. ASSUME NEW p \in Prompts, StartEnd(p) PROVE TypeOK'
 <2> USE <1>8 DEF StartEnd
 <2>1. PromptTypes' BY DEF PromptTypes
 <2>2. TurnTypes' BY DEF PromptTypes, TurnTypes
 <2>3. EngineTypes' BY DEF EngineTypes
 <2>4. HistoryTypes' BY DEF HistoryTypes
 <2> QED BY <2>1, <2>2, <2>3, <2>4
<1>9. ASSUME NEW p \in Prompts, WriteEnd(p) PROVE TypeOK'
 <2> USE <1>9 DEF WriteEnd, Remembered
 <2>1. PromptTypes' BY DEF PromptTypes
 <2>2. TurnTypes' BY DEF PromptTypes, TurnTypes
 <2>3. EngineTypes' BY DEF EngineTypes
 <2>4. HistoryTypes' BY DEF HistoryTypes
 <2> QED BY <2>1, <2>2, <2>3, <2>4
<1>10. ASSUME NEW p \in Prompts, Answer(p) PROVE TypeOK'
 <2> USE <1>10 DEF Answer, Settle, RaceOver, Finish
 <2>1. PromptTypes' BY DEF PromptTypes
 <2>2. TurnTypes' BY DEF PromptTypes, TurnTypes
 <2>3. EngineTypes' BY DEF EngineTypes
 <2>4. HistoryTypes' BY DEF HistoryTypes
 <2> QED BY <2>1, <2>2, <2>3, <2>4
<1>11. ASSUME NEW p \in Prompts, AnswerBusy(p) PROVE TypeOK'
 <2> USE <1>11 DEF AnswerBusy, Settle, RaceOver, Finish
 <2>1. PromptTypes' BY DEF PromptTypes
 <2>2. TurnTypes' BY DEF PromptTypes, TurnTypes
 <2>3. EngineTypes' BY DEF EngineTypes
 <2>4. HistoryTypes' BY DEF HistoryTypes
 <2> QED BY <2>1, <2>2, <2>3, <2>4
<1>12. ASSUME NEW p \in Prompts, AnswerNotFound(p) PROVE TypeOK'
 <2> USE <1>12 DEF AnswerNotFound, Settle, RaceOver, Finish
 <2>1. PromptTypes' BY DEF PromptTypes
 <2>2. TurnTypes' BY DEF PromptTypes, TurnTypes
 <2>3. EngineTypes'
  <3>1. resident' \in [Convs -> BOOLEAN] BY DEF EngineTypes
  <3>2. boundGen' \in [Convs -> Nat] BY DEF EngineTypes
  <3>3. binding' \in [Convs -> BOOLEAN] BY DEF EngineTypes
  <3> QED BY <3>1, <3>2, <3>3 DEF EngineTypes
 <2>4. HistoryTypes' BY DEF HistoryTypes
 <2> QED BY <2>1, <2>2, <2>3, <2>4
<1>13. ASSUME NEW p \in Prompts, LateAnswer(p) PROVE TypeOK'
 <2> USE <1>13 DEF LateAnswer, Settle
 <2>1. PromptTypes' BY DEF PromptTypes
 <2>2. TurnTypes' BY DEF PromptTypes, TurnTypes
 <2>3. EngineTypes' BY DEF EngineTypes
 <2>4. HistoryTypes' BY DEF HistoryTypes
 <2> QED BY <2>1, <2>2, <2>3, <2>4
<1>14. ASSUME NEW c \in Convs, Bound(c) PROVE TypeOK'
 <2> USE <1>14 DEF Bound
 <2>1. PromptTypes' BY DEF PromptTypes, BindFails
 <2>2. TurnTypes' BY DEF PromptTypes, TurnTypes, BindFails
 <2>3. EngineTypes'
  <3>1. binding' \in [Convs -> BOOLEAN] BY DEF EngineTypes
  <3>2. boundGen' \in [Convs -> Nat] BY DEF EngineTypes
  <3>3. archived' \in [Convs -> BOOLEAN] BY DEF EngineTypes
  <3>4. resident' \in [Convs -> BOOLEAN] BY DEF EngineTypes
  <3> QED BY <3>1, <3>2, <3>3, <3>4 DEF EngineTypes
 <2>4. HistoryTypes' BY DEF HistoryTypes
 <2> QED BY <2>1, <2>2, <2>3, <2>4
<1>15. ASSUME NEW c \in Convs, Watchdog(c) PROVE TypeOK'
 <2> USE <1>15 DEF Watchdog, Finish
 <2>1. PromptTypes' BY DEF PromptTypes
 <2>2. TurnTypes' BY DEF PromptTypes, TurnTypes
 <2>3. EngineTypes' BY DEF EngineTypes
 <2>4. HistoryTypes' BY DEF HistoryTypes
 <2> QED BY <2>1, <2>2, <2>3, <2>4
<1>16. ASSUME NEW c \in Convs, ShutdownCancel(c) PROVE TypeOK'
 <2> USE <1>16 DEF ShutdownCancel, CancelEffect, Admitting
 <2>1. PromptTypes' BY DEF PromptTypes
 <2>2. TurnTypes' BY DEF PromptTypes, TurnTypes
 <2>3. EngineTypes' BY DEF EngineTypes
 <2>4. HistoryTypes' BY DEF HistoryTypes
 <2> QED BY <2>1, <2>2, <2>3, <2>4
<1>17. ASSUME NEW c \in Convs, NEW s \in Subs \cup {NoSub}, Cancel(c, s) PROVE TypeOK'
 <2> USE <1>17 DEF Cancel, CancelEffect, Admitting
 <2>1. PromptTypes' BY DEF PromptTypes
 <2>2. TurnTypes' BY DEF PromptTypes, TurnTypes
 <2>3. EngineTypes' BY DEF EngineTypes
 <2>4. HistoryTypes' BY DEF HistoryTypes
 <2> QED BY <2>1, <2>2, <2>3, <2>4
<1>18. ASSUME Shutdown PROVE TypeOK'
 <2> USE <1>18 DEF Shutdown, Running
 <2>1. PromptTypes' BY DEF PromptTypes
 <2>2. TurnTypes' BY DEF PromptTypes, TurnTypes
 <2>3. EngineTypes' BY DEF EngineTypes
 <2>4. HistoryTypes' BY DEF HistoryTypes
 <2> QED BY <2>1, <2>2, <2>3, <2>4
<1>19. ASSUME EngineExit PROVE TypeOK'
 <2> USE <1>19 DEF EngineExit, EngineGone
 <2>1. PromptTypes' BY DEF PromptTypes
 <2>2. TurnTypes' BY DEF PromptTypes, TurnTypes
 <2>3. EngineTypes' BY DEF EngineTypes
 <2>4. HistoryTypes' BY DEF HistoryTypes
 <2> QED BY <2>1, <2>2, <2>3, <2>4
<1>20. ASSUME EngineReady PROVE TypeOK'
 <2> USE <1>20 DEF EngineReady
 <2>1. PromptTypes' BY DEF PromptTypes
 <2>2. TurnTypes' BY DEF PromptTypes, TurnTypes
 <2>3. EngineTypes' BY DEF EngineTypes
 <2>4. HistoryTypes' BY DEF HistoryTypes
 <2> QED BY <2>1, <2>2, <2>3, <2>4
<1>21. ASSUME ShutdownStop PROVE TypeOK'
 <2> USE <1>21 DEF ShutdownStop, EngineGone
 <2>1. PromptTypes' BY DEF PromptTypes
 <2>2. TurnTypes' BY DEF PromptTypes, TurnTypes
 <2>3. EngineTypes' BY DEF EngineTypes
 <2>4. HistoryTypes' BY DEF HistoryTypes
 <2> QED BY <2>1, <2>2, <2>3, <2>4
<1>22. ASSUME UNCHANGED vars PROVE TypeOK'
 <2> USE <1>22 DEF vars
 <2>1. PromptTypes' BY DEF PromptTypes
 <2>2. TurnTypes' BY DEF PromptTypes, TurnTypes
 <2>3. EngineTypes' BY DEF EngineTypes
 <2>4. HistoryTypes' BY DEF HistoryTypes
 <2> QED BY <2>1, <2>2, <2>3, <2>4
<1> QED BY <1>1, <1>2, <1>3, <1>4, <1>5, <1>6, <1>7, <1>8, <1>9, <1>10, <1>11, <1>12,
     <1>13, <1>14, <1>15, <1>16, <1>17, <1>18, <1>19, <1>20, <1>21, <1>22
     DEF Next, PromptStep, EngineAnswers, Quiescent

\* The initial state has its types.
LEMMA TypeInit == Init => TypeOK
<1> USE BrokerAssumption DEF Init, Stages, Calls, Results
<1>1. Init => PromptTypes BY DEF PromptTypes
<1>2. Init => TurnTypes BY DEF TurnTypes
<1>3. Init => EngineTypes /\ HistoryTypes
 <2>1. Init => EngineTypes
  <3> SUFFICES ASSUME Init PROVE EngineTypes OBVIOUS
  <3>1. boundGen \in [Convs -> Nat] OBVIOUS
  <3>2. binding \in [Convs -> BOOLEAN] OBVIOUS
  <3>3. archived \in [Convs -> BOOLEAN] /\ resident \in [Convs -> BOOLEAN] OBVIOUS
  <3>4. closed \in BOOLEAN /\ shutQueue \subseteq Convs OBVIOUS
  <3>5. engine \in {"starting", "ready", "stopped"} /\ gen \in Nat OBVIOUS
  <3> QED BY <3>1, <3>2, <3>3, <3>4, <3>5 DEF EngineTypes
 <2>2. Init => HistoryTypes BY DEF HistoryTypes
 <2> QED BY <2>1, <2>2
<1> QED BY <1>1, <1>2, <1>3 DEF TypeOK

\* Type correctness of the turn lifecycle.
THEOREM TypeCorrect == Spec => []TypeOK BY TypeInit, TypeStep, PTL DEF Spec

--------------------
\* Stages and turns stay in step.
LEMMA TurnOwnerStep == TypeOK /\ TurnOwner /\ [Next]_vars => TurnOwner'
<1> SUFFICES ASSUME TypeOK, TurnOwner, [Next]_vars PROVE TurnOwner' OBVIOUS
<1> USE BrokerAssumption DEF TypeOK, PromptTypes, TurnTypes, TurnOwner, Stages, Admission, Turning
<1>1. ASSUME NEW p \in Prompts, Submit(p) PROVE TurnOwner' BY <1>1 DEF Submit
<1>2. ASSUME NEW p \in Prompts, Lookup(p) PROVE TurnOwner' BY <1>2 DEF Lookup, Proceed
<1>3. ASSUME NEW p \in Prompts, CheckPrompt(p) PROVE TurnOwner' BY <1>3 DEF CheckPrompt, Proceed, Refuse
<1>4. ASSUME NEW p \in Prompts, EngineIsReady(p) PROVE TurnOwner' BY <1>4 DEF EngineIsReady, BindFrom, Proceed, Refuse
<1>5. ASSUME NEW p \in Prompts, BeginTurn(p) PROVE TurnOwner' BY <1>5 DEF BeginTurn, StartTurn, Refuse, CanRun
<1>6. ASSUME NEW p \in Prompts, Echo(p) PROVE TurnOwner' BY <1>6 DEF Echo
<1>7. ASSUME NEW p \in Prompts, SendPrompt(p) PROVE TurnOwner' BY <1>7 DEF SendPrompt, Finish
<1>8. ASSUME NEW p \in Prompts, StartEnd(p) PROVE TurnOwner' BY <1>8 DEF StartEnd
<1>9. ASSUME NEW p \in Prompts, WriteEnd(p) PROVE TurnOwner' BY <1>9 DEF WriteEnd
<1>10. ASSUME NEW p \in Prompts, Answer(p) PROVE TurnOwner' BY <1>10 DEF Answer, Settle, RaceOver, Finish
<1>11. ASSUME NEW p \in Prompts, AnswerBusy(p) PROVE TurnOwner' BY <1>11 DEF AnswerBusy, Settle, RaceOver, Finish
<1>12. ASSUME NEW p \in Prompts, AnswerNotFound(p) PROVE TurnOwner'
  BY <1>12 DEF AnswerNotFound, Settle, RaceOver, Finish
<1>13. ASSUME NEW p \in Prompts, LateAnswer(p) PROVE TurnOwner' BY <1>13 DEF LateAnswer, Settle
<1>14. ASSUME NEW c \in Convs, Bound(c) PROVE TurnOwner' BY <1>14 DEF Bound, BindFails
<1>15. ASSUME NEW c \in Convs, Watchdog(c) PROVE TurnOwner' BY <1>15 DEF Watchdog, Finish
<1>16. ASSUME NEW c \in Convs, ShutdownCancel(c) PROVE TurnOwner'
  BY <1>16 DEF ShutdownCancel, CancelEffect, Admitting, Stale, Aims
<1>17. ASSUME NEW c \in Convs, NEW s \in Subs \cup {NoSub}, Cancel(c, s) PROVE TurnOwner'
  BY <1>17 DEF Cancel, CancelEffect, Admitting, Stale, Aims
<1>18. ASSUME Shutdown PROVE TurnOwner' BY <1>18 DEF Shutdown
<1>19. ASSUME EngineExit PROVE TurnOwner' BY <1>19 DEF EngineExit, EngineGone
<1>20. ASSUME EngineReady PROVE TurnOwner' BY <1>20 DEF EngineReady
<1>21. ASSUME ShutdownStop PROVE TurnOwner' BY <1>21 DEF ShutdownStop, EngineGone
<1>22. ASSUME UNCHANGED vars PROVE TurnOwner' BY <1>22 DEF vars
<1> QED BY <1>1, <1>2, <1>3, <1>4, <1>5, <1>6, <1>7, <1>8, <1>9, <1>10, <1>11, <1>12,
     <1>13, <1>14, <1>15, <1>16, <1>17, <1>18, <1>19, <1>20, <1>21, <1>22
     DEF Next, PromptStep, EngineAnswers, Quiescent

\* No step lets a cancel hit a prompt it was not aimed at.
LEMMA CancelOwnerStep == TypeOK /\ TurnOwner /\ CancelOwner /\ [Next]_vars => CancelOwner'
<1> SUFFICES ASSUME TypeOK, TurnOwner, CancelOwner, [Next]_vars PROVE CancelOwner' OBVIOUS
<1> USE BrokerAssumption DEF TypeOK, PromptTypes, TurnTypes, HistoryTypes, TurnOwner, CancelOwner,
        NoStrayCancel, Stages, Admission, Turning
<1>1. ASSUME NEW p \in Prompts, Submit(p) PROVE CancelOwner' BY <1>1 DEF Submit
<1>2. ASSUME NEW p \in Prompts, Lookup(p) PROVE CancelOwner' BY <1>2 DEF Lookup, Proceed
<1>3. ASSUME NEW p \in Prompts, CheckPrompt(p) PROVE CancelOwner' BY <1>3 DEF CheckPrompt, Proceed, Refuse
<1>4. ASSUME NEW p \in Prompts, EngineIsReady(p) PROVE CancelOwner'
  BY <1>4 DEF EngineIsReady, BindFrom, Proceed, Refuse
<1>5. ASSUME NEW p \in Prompts, BeginTurn(p) PROVE CancelOwner'
 <2>1. CASE Refuse(p) BY <2>1 DEF Refuse
 <2>2. CASE CanRun(ConvOf[p]) /\ StartTurn(p, admCancelled[p])
  <3> USE <2>2 DEF CanRun, StartTurn
  <3>1. \A q \in Prompts : admCancelled'[q] => q \in aimedAdmission' OBVIOUS
  <3>2. \A c \in Convs : cancelTimer'[c] # None =>
          /\ turn'[c] = "running"
          /\ cancelTimer'[c] = current'[c]
          /\ current'[c] \in aimedTurn' OBVIOUS
  <3>3. \A c \in Convs : turn'[c] = "running" /\ cancelRequested'[c] =>
          current'[c] \in aimedAdmission' \cup aimedTurn'
   <4> SUFFICES ASSUME NEW c \in Convs, turn'[c] = "running", cancelRequested'[c]
                PROVE current'[c] \in aimedAdmission' \cup aimedTurn' OBVIOUS
   <4>1. CASE c = ConvOf[p] BY <4>1
   <4>2. CASE c # ConvOf[p] BY <4>2
   <4> QED BY <4>1, <4>2
  <3>4. \A q \in Prompts : result'[q] = "forced" => q \in aimedTurn' OBVIOUS
  <3> QED BY <3>1, <3>2, <3>3, <3>4
 <2> QED BY <1>5, <2>1, <2>2 DEF BeginTurn
<1>6. ASSUME NEW p \in Prompts, Echo(p) PROVE CancelOwner' BY <1>6 DEF Echo
<1>7. ASSUME NEW p \in Prompts, SendPrompt(p) PROVE CancelOwner' BY <1>7 DEF SendPrompt, Finish
<1>8. ASSUME NEW p \in Prompts, StartEnd(p) PROVE CancelOwner' BY <1>8 DEF StartEnd
<1>9. ASSUME NEW p \in Prompts, WriteEnd(p) PROVE CancelOwner' BY <1>9 DEF WriteEnd
<1>10. ASSUME NEW p \in Prompts, Answer(p) PROVE CancelOwner' BY <1>10 DEF Answer, Settle, RaceOver, Finish
<1>11. ASSUME NEW p \in Prompts, AnswerBusy(p) PROVE CancelOwner' BY <1>11 DEF AnswerBusy, Settle, RaceOver, Finish
<1>12. ASSUME NEW p \in Prompts, AnswerNotFound(p) PROVE CancelOwner'
  BY <1>12 DEF AnswerNotFound, Settle, RaceOver, Finish
<1>13. ASSUME NEW p \in Prompts, LateAnswer(p) PROVE CancelOwner' BY <1>13 DEF LateAnswer, Settle
<1>14. ASSUME NEW c \in Convs, Bound(c) PROVE CancelOwner' BY <1>14 DEF Bound, BindFails
<1>15. ASSUME NEW c \in Convs, Watchdog(c) PROVE CancelOwner' BY <1>15 DEF Watchdog, Finish
<1>16. ASSUME NEW c \in Convs, ShutdownCancel(c) PROVE CancelOwner'
  BY <1>16 DEF ShutdownCancel, CancelEffect, Admitting, Stale, Aims
<1>17. ASSUME NEW c \in Convs, NEW s \in Subs \cup {NoSub}, Cancel(c, s) PROVE CancelOwner'
  BY <1>17 DEF Cancel, CancelEffect, Admitting, Stale, Aims
<1>18. ASSUME Shutdown PROVE CancelOwner' BY <1>18 DEF Shutdown
<1>19. ASSUME EngineExit PROVE CancelOwner' BY <1>19 DEF EngineExit, EngineGone
<1>20. ASSUME EngineReady PROVE CancelOwner' BY <1>20 DEF EngineReady
<1>21. ASSUME ShutdownStop PROVE CancelOwner' BY <1>21 DEF ShutdownStop, EngineGone
<1>22. ASSUME UNCHANGED vars PROVE CancelOwner' BY <1>22 DEF vars
<1> QED BY <1>1, <1>2, <1>3, <1>4, <1>5, <1>6, <1>7, <1>8, <1>9, <1>10, <1>11, <1>12,
     <1>13, <1>14, <1>15, <1>16, <1>17, <1>18, <1>19, <1>20, <1>21, <1>22
     DEF Next, PromptStep, EngineAnswers, Quiescent

\* A step that only moves prompts between stages of the same phase, and takes
\* back no request, keeps FlagOwner.
FlagsRest ==
    /\ admCancelled' = admCancelled /\ reached' = reached
    /\ \A c \in Convs : cancelRequested[c] => cancelRequested'[c]
    /\ \A q \in Prompts : stage'[q] \in Turning => stage[q] \in Turning
    /\ \A q \in Prompts : stage[q] \in Turning => stage'[q] \in Turning \cup {"done"}
    /\ \A q \in Prompts : stage[q] = "done" => stage'[q] = "done"

LEMMA FlagFrame == ASSUME TypeOK, FlagOwner, FlagsRest PROVE FlagOwner'
<1> USE BrokerAssumption DEF FlagsRest, FlagOwner, FlaggedNeverRuns, TypeOK, HistoryTypes
<1>1. \A q \in Prompts : admCancelled'[q] /\ stage'[q] \in Turning =>
          cancelRequested'[ConvOf[q]] OBVIOUS
<1>2. \A q \in reached' : stage'[q] \in Turning \cup {"done"} OBVIOUS
<1>3. \A q \in Prompts : admCancelled'[q] => q \notin reached' OBVIOUS
<1> QED BY <1>1, <1>2, <1>3

\* No step lets a flagged prompt through to the engine.
LEMMA FlagOwnerStep == TypeOK /\ TurnOwner /\ FlagOwner /\ [Next]_vars => FlagOwner'
<1> SUFFICES ASSUME TypeOK, TurnOwner, FlagOwner, [Next]_vars PROVE FlagOwner' OBVIOUS
<1> USE BrokerAssumption
<1>1. ASSUME NEW p \in Prompts, Submit(p) PROVE FlagOwner'
 <2>1. FlagsRest BY <1>1 DEF Submit, TypeOK, PromptTypes, TurnTypes, TurnOwner, Turning, Admission, FlagsRest
 <2> QED BY <2>1, FlagFrame
<1>2. ASSUME NEW p \in Prompts, Lookup(p) PROVE FlagOwner'
 <2>1. FlagsRest BY <1>2 DEF Lookup, Proceed, TypeOK, PromptTypes, TurnTypes, TurnOwner, Turning, Admission, FlagsRest
 <2> QED BY <2>1, FlagFrame
<1>3. ASSUME NEW p \in Prompts, CheckPrompt(p) PROVE FlagOwner'
 <2>1. FlagsRest
   BY <1>3 DEF CheckPrompt, Proceed, Refuse, TypeOK, PromptTypes, TurnTypes, TurnOwner, Turning, Admission, FlagsRest
 <2> QED BY <2>1, FlagFrame
<1>4. ASSUME NEW p \in Prompts, EngineIsReady(p) PROVE FlagOwner'
 <2>1. FlagsRest
   BY <1>4 DEF EngineIsReady, BindFrom, Proceed, Refuse, TypeOK, PromptTypes, TurnTypes, TurnOwner, Turning, Admission, FlagsRest
 <2> QED BY <2>1, FlagFrame
<1>5. ASSUME NEW p \in Prompts, BeginTurn(p) PROVE FlagOwner'
 <2> USE DEF TypeOK, PromptTypes, TurnTypes, HistoryTypes, Admission, Turning, Stages
 <2>1. CASE Refuse(p)
  <3>1. FlagsRest BY <1>5, <2>1 DEF BeginTurn, Refuse, FlagsRest
  <3> QED BY <3>1, FlagFrame
 <2>2. CASE CanRun(ConvOf[p]) /\ StartTurn(p, admCancelled[p])
  <3> USE <1>5, <2>2 DEF BeginTurn, CanRun, StartTurn, FlagOwner, FlaggedNeverRuns
  <3>1. \A q \in Prompts : admCancelled'[q] /\ stage'[q] \in Turning =>
            cancelRequested'[ConvOf[q]]
   <4> SUFFICES ASSUME NEW q \in Prompts, admCancelled'[q], stage'[q] \in Turning
                PROVE cancelRequested'[ConvOf[q]] OBVIOUS
   <4>1. CASE q = p BY <4>1
   <4>2. CASE q # p BY <4>2 DEF TurnOwner
   <4> QED BY <4>1, <4>2
  <3>2. \A q \in reached' : stage'[q] \in Turning \cup {"done"} OBVIOUS
  <3>3. \A q \in Prompts : admCancelled'[q] => q \notin reached' OBVIOUS
  <3> QED BY <3>1, <3>2, <3>3
 <2> QED BY <1>5, <2>1, <2>2 DEF BeginTurn
<1>6. ASSUME NEW p \in Prompts, Echo(p) PROVE FlagOwner'
 <2>1. FlagsRest BY <1>6 DEF Echo, TypeOK, PromptTypes, TurnTypes, TurnOwner, Turning, Admission, FlagsRest
 <2> QED BY <2>1, FlagFrame
<1>7. ASSUME NEW p \in Prompts, SendPrompt(p) PROVE FlagOwner'
 <2> USE <1>7 DEF SendPrompt, Finish, TypeOK, PromptTypes, TurnTypes, HistoryTypes,
              FlagOwner, FlaggedNeverRuns, Turning
 <2>1. \A q \in Prompts : admCancelled'[q] /\ stage'[q] \in Turning =>
           cancelRequested'[ConvOf[q]] OBVIOUS
 <2>2. \A q \in reached' : stage'[q] \in Turning \cup {"done"} OBVIOUS
 <2>3. \A q \in Prompts : admCancelled'[q] => q \notin reached'
  <3>1. admCancelled[p] => cancelRequested[ConvOf[p]] OBVIOUS
  <3>2. cancelRequested[ConvOf[p]] => reached' = reached OBVIOUS
  <3>3. reached' \subseteq reached \cup {p} OBVIOUS
  <3> QED BY <3>1, <3>2, <3>3
 <2> QED BY <2>1, <2>2, <2>3
<1>8. ASSUME NEW p \in Prompts, StartEnd(p) PROVE FlagOwner'
 <2>1. FlagsRest BY <1>8 DEF StartEnd, TypeOK, PromptTypes, TurnTypes, TurnOwner, Turning, Admission, FlagsRest
 <2> QED BY <2>1, FlagFrame
<1>9. ASSUME NEW p \in Prompts, WriteEnd(p) PROVE FlagOwner'
 <2>1. FlagsRest BY <1>9 DEF WriteEnd, TypeOK, PromptTypes, TurnTypes, TurnOwner, Turning, Admission, FlagsRest
 <2> QED BY <2>1, FlagFrame
<1>10. ASSUME NEW p \in Prompts, Answer(p) PROVE FlagOwner'
 <2>1. FlagsRest
   BY <1>10 DEF Answer, Settle, RaceOver, Finish, TypeOK, PromptTypes, TurnTypes, TurnOwner, Turning, Admission, FlagsRest
 <2> QED BY <2>1, FlagFrame
<1>11. ASSUME NEW p \in Prompts, AnswerBusy(p) PROVE FlagOwner'
 <2>1. FlagsRest
   BY <1>11 DEF AnswerBusy, Settle, RaceOver, Finish, TypeOK, PromptTypes, TurnTypes, TurnOwner, Turning, Admission, FlagsRest
 <2> QED BY <2>1, FlagFrame
<1>12. ASSUME NEW p \in Prompts, AnswerNotFound(p) PROVE FlagOwner'
 <2>1. FlagsRest
   BY <1>12 DEF AnswerNotFound, Settle, RaceOver, Finish, TypeOK, PromptTypes, TurnTypes, TurnOwner, Turning, Admission, FlagsRest
 <2> QED BY <2>1, FlagFrame
<1>13. ASSUME NEW p \in Prompts, LateAnswer(p) PROVE FlagOwner'
 <2>1. FlagsRest
   BY <1>13 DEF LateAnswer, Settle, TypeOK, PromptTypes, TurnTypes, TurnOwner, Turning, Admission, FlagsRest
 <2> QED BY <2>1, FlagFrame
<1>14. ASSUME NEW c \in Convs, Bound(c) PROVE FlagOwner'
 <2>1. FlagsRest
   BY <1>14 DEF Bound, BindFails, TypeOK, PromptTypes, TurnTypes, TurnOwner, Turning, Admission, FlagsRest
 <2> QED BY <2>1, FlagFrame
<1>15. ASSUME NEW c \in Convs, Watchdog(c) PROVE FlagOwner'
 <2>1. FlagsRest
   BY <1>15 DEF Watchdog, Finish, TypeOK, PromptTypes, TurnTypes, TurnOwner, Turning, Admission, FlagsRest
 <2> QED BY <2>1, FlagFrame
<1>16. ASSUME NEW c \in Convs, ShutdownCancel(c) PROVE FlagOwner'
 <2> USE <1>16 DEF ShutdownCancel, CancelEffect, Admitting, TypeOK, PromptTypes, TurnTypes,
              HistoryTypes, FlagOwner, FlaggedNeverRuns, Admission, Turning
 <2>1. \A q \in Prompts : admCancelled'[q] /\ stage'[q] \in Turning =>
           cancelRequested'[ConvOf[q]] OBVIOUS
 <2>2. \A q \in reached' : stage'[q] \in Turning \cup {"done"} OBVIOUS
 <2>3. \A q \in Prompts : admCancelled'[q] => q \notin reached' OBVIOUS
 <2> QED BY <2>1, <2>2, <2>3
<1>17. ASSUME NEW c \in Convs, NEW s \in Subs \cup {NoSub}, Cancel(c, s) PROVE FlagOwner'
 <2> USE <1>17 DEF Cancel, CancelEffect, Admitting, TypeOK, PromptTypes, TurnTypes,
              HistoryTypes, FlagOwner, FlaggedNeverRuns, Admission, Turning
 <2>1. \A q \in Prompts : admCancelled'[q] /\ stage'[q] \in Turning =>
           cancelRequested'[ConvOf[q]] OBVIOUS
 <2>2. \A q \in reached' : stage'[q] \in Turning \cup {"done"} OBVIOUS
 <2>3. \A q \in Prompts : admCancelled'[q] => q \notin reached' OBVIOUS
 <2> QED BY <2>1, <2>2, <2>3
<1>18. ASSUME Shutdown PROVE FlagOwner'
 <2>1. FlagsRest BY <1>18 DEF Shutdown, TypeOK, PromptTypes, TurnTypes, TurnOwner, Turning, Admission, FlagsRest
 <2> QED BY <2>1, FlagFrame
<1>19. ASSUME EngineExit PROVE FlagOwner'
 <2>1. FlagsRest
   BY <1>19 DEF EngineExit, EngineGone, TypeOK, PromptTypes, TurnTypes, TurnOwner, Turning, Admission, FlagsRest
 <2> QED BY <2>1, FlagFrame
<1>20. ASSUME EngineReady PROVE FlagOwner'
 <2>1. FlagsRest BY <1>20 DEF EngineReady, TypeOK, PromptTypes, TurnTypes, TurnOwner, Turning, Admission, FlagsRest
 <2> QED BY <2>1, FlagFrame
<1>21. ASSUME ShutdownStop PROVE FlagOwner'
 <2>1. FlagsRest
   BY <1>21 DEF ShutdownStop, EngineGone, TypeOK, PromptTypes, TurnTypes, TurnOwner, Turning, Admission, FlagsRest
 <2> QED BY <2>1, FlagFrame
<1>22. ASSUME UNCHANGED vars PROVE FlagOwner'
 <2>1. FlagsRest BY <1>22 DEF vars, TypeOK, PromptTypes, TurnTypes, TurnOwner, Turning, Admission, FlagsRest
 <2> QED BY <2>1, FlagFrame
<1> QED BY <1>1, <1>2, <1>3, <1>4, <1>5, <1>6, <1>7, <1>8, <1>9, <1>10, <1>11, <1>12,
     <1>13, <1>14, <1>15, <1>16, <1>17, <1>18, <1>19, <1>20, <1>21, <1>22
     DEF Next, PromptStep, EngineAnswers, Quiescent

\* A step that leaves the transcripts and the open turns alone, and sends no
\* prompt back to its echo, keeps the shape of the transcripts.
TranscriptsRest ==
    events' = events /\ current' = current /\ \A q \in Prompts : stage'[q] = "echo" => stage[q] = "echo"

LEMMA TranscriptFrame ==
  ASSUME TypeOK, TurnOwner, OpenEcho, SerialTranscript, TranscriptsRest
  PROVE  (OpenEcho /\ SerialTranscript)'
<1> USE BrokerAssumption DEF TranscriptsRest, TypeOK, TurnTypes
<1>1. OpenEcho' BY DEF OpenEcho
<1>2. SerialTranscript' BY DEF SerialTranscript
<1> QED BY <1>1, <1>2

\* Appending e to conversation c's transcript keeps every transcript serial when
\* e closes the open echo or there is none.
LEMMA TranscriptAppend ==
  ASSUME TypeOK, SerialTranscript, NEW c \in Convs,
         NEW e \in {"echo", "turn_end", "unwritten"} \X Prompts,
         events' = [events EXCEPT ![c] = Append(@, e)],
         LET n == Len(events[c]) IN
           n > 0 /\ events[c][n][1] = "echo" => e[1] # "echo" /\ e[2] = events[c][n][2]
  PROVE  SerialTranscript'
<1> DEFINE E == {"echo", "turn_end", "unwritten"} \X Prompts
<1>1. \A d \in Convs : events[d] \in Seq(E) BY DEF TypeOK, HistoryTypes
<1>2. DOMAIN events = Convs BY DEF TypeOK, HistoryTypes
<1> SUFFICES ASSUME NEW d \in Convs, NEW i \in 1..(Len(events'[d]) - 1),
                    events'[d][i][1] = "echo"
             PROVE  /\ events'[d][i + 1][1] # "echo"
                    /\ events'[d][i + 1][2] = events'[d][i][2] BY DEF SerialTranscript
<1>3. CASE d # c
 <2>1. events'[d] = events[d] BY <1>2, <1>3
 <2>2. i \in 1..(Len(events[d]) - 1) /\ events[d][i][1] = "echo" BY <2>1
 <2> QED BY <2>1, <2>2 DEF SerialTranscript
<1>4. CASE d = c
 <2> DEFINE s == events[c]
            n == Len(s)
 <2>1. s \in Seq(E) /\ n \in Nat BY <1>1
 <2>2. events'[d] = Append(s, e) BY <1>2, <1>4
 <2>3. i \in 1..n /\ Append(s, e)[i] = s[i] /\ s[i][1] = "echo"
  <3> HIDE DEF E, s
  <3>1. Len(Append(s, e)) = n + 1 BY <2>1
  <3>2. i \in 1..n BY <3>1, <2>1, <2>2
  <3>3. Append(s, e)[i] = s[i] BY <3>2, <2>1
  <3> QED BY <3>2, <3>3, <2>2
 <2>4. CASE i < n
  <3>1. i + 1 \in 1..n /\ i \in 1..(n - 1) BY <2>1, <2>3, <2>4
  <3>2. Append(s, e)[i + 1] = s[i + 1]
   <4> HIDE DEF E, s
   <4> QED BY <2>1, <3>1
  <3>3. s[i + 1][1] # "echo" /\ s[i + 1][2] = s[i][2] BY <2>3, <3>1 DEF SerialTranscript
  <3> QED BY <2>2, <2>3, <3>2, <3>3
 <2>5. CASE i = n
  <3>1. Append(s, e)[n + 1] = e
   <4> HIDE DEF E, s
   <4> QED BY <2>1
  <3>2. n > 0 /\ s[n][1] = "echo" BY <2>1, <2>3, <2>5
  <3>3. e[1] # "echo" /\ e[2] = s[n][2] BY <3>2
  <3> QED BY <2>2, <2>3, <2>5, <3>1, <3>3
 <2> QED BY <2>1, <2>3, <2>4, <2>5
<1> QED BY <1>3, <1>4

\* A transcript grows by whole turns.
LEMMA TranscriptStep == TypeOK /\ TurnOwner /\ OpenEcho /\ SerialTranscript /\ [Next]_vars => (OpenEcho /\ SerialTranscript)'
<1> SUFFICES ASSUME TypeOK, TurnOwner, OpenEcho, SerialTranscript, [Next]_vars PROVE (OpenEcho /\ SerialTranscript)'
  OBVIOUS
<1> USE BrokerAssumption
<1>1. ASSUME NEW p \in Prompts, Submit(p) PROVE (OpenEcho /\ SerialTranscript)'
 <2>1. TranscriptsRest BY <1>1 DEF Submit, TypeOK, PromptTypes, TranscriptsRest
 <2> QED BY <2>1, TranscriptFrame
<1>2. ASSUME NEW p \in Prompts, Lookup(p) PROVE (OpenEcho /\ SerialTranscript)'
 <2>1. TranscriptsRest BY <1>2 DEF Lookup, Proceed, TypeOK, PromptTypes, TranscriptsRest
 <2> QED BY <2>1, TranscriptFrame
<1>3. ASSUME NEW p \in Prompts, CheckPrompt(p) PROVE (OpenEcho /\ SerialTranscript)'
 <2>1. TranscriptsRest BY <1>3 DEF CheckPrompt, Proceed, Refuse, TypeOK, PromptTypes, TranscriptsRest
 <2> QED BY <2>1, TranscriptFrame
<1>4. ASSUME NEW p \in Prompts, EngineIsReady(p) PROVE (OpenEcho /\ SerialTranscript)'
 <2>1. TranscriptsRest BY <1>4 DEF EngineIsReady, BindFrom, Proceed, Refuse, TypeOK, PromptTypes, TranscriptsRest
 <2> QED BY <2>1, TranscriptFrame
<1>5. ASSUME NEW p \in Prompts, BeginTurn(p) PROVE (OpenEcho /\ SerialTranscript)'
 <2> USE DEF TypeOK, PromptTypes, TurnTypes
 <2>1. CASE Refuse(p)
  <3>1. TranscriptsRest BY <1>5, <2>1 DEF BeginTurn, Refuse, TranscriptsRest
  <3> QED BY <3>1, TranscriptFrame
 <2>2. CASE CanRun(ConvOf[p]) /\ StartTurn(p, admCancelled[p])
  <3> USE <1>5, <2>2 DEF BeginTurn, CanRun, StartTurn
  <3>1. OpenEcho' BY DEF OpenEcho, TurnOwner, Turning
  <3>2. SerialTranscript' BY DEF SerialTranscript
  <3> QED BY <3>1, <3>2
 <2> QED BY <1>5, <2>1, <2>2 DEF BeginTurn
<1>6. ASSUME NEW p \in Prompts, Echo(p) PROVE (OpenEcho /\ SerialTranscript)'
 <2> DEFINE c == ConvOf[p]
            e == <<"echo", p>>
 <2> USE DEF TypeOK, PromptTypes, TurnTypes, HistoryTypes
 <2>1. c \in Convs /\ current[c] = p /\ e \in {"echo", "turn_end", "unwritten"} \X Prompts
   BY <1>6 DEF Echo, TurnOwner, Turning
 <2>2. Len(events[c]) > 0 => events[c][Len(events[c])][1] # "echo" BY <1>6, <2>1 DEF Echo, OpenEcho
 <2>3. CASE events' = events
  <3>1. TranscriptsRest BY <1>6, <2>3 DEF Echo, TranscriptsRest
  <3> QED BY <3>1, TranscriptFrame
 <2>4. CASE events' = [events EXCEPT ![c] = Append(@, e)]
  <3>1. SerialTranscript' BY <2>1, <2>2, <2>4, TranscriptAppend
  <3>2. OpenEcho'
   <4> SUFFICES ASSUME NEW d \in Convs, Len(events'[d]) > 0,
                       events'[d][Len(events'[d])][1] = "echo"
                PROVE  /\ current'[d] # None
                       /\ events'[d][Len(events'[d])][2] = current'[d]
                       /\ stage'[current'[d]] # "echo" BY DEF OpenEcho
   <4>1. CASE d = c
    <5>1. events[c] \in Seq({"echo", "turn_end", "unwritten"} \X Prompts) BY <2>1
    <5>2. events'[d][Len(events'[d])] = e BY <5>1, <4>1, <2>1, <2>4
    <5>3. stage'[p] # "echo" /\ current' = current BY <1>6 DEF Echo
    <5> QED BY <5>2, <5>3, <4>1, <2>1
   <4>2. CASE d # c
    <5>1. events'[d] = events[d] /\ current' = current BY <4>2, <2>4, <1>6 DEF Echo
    <5>2. \A q \in Prompts : stage'[q] = "echo" => stage[q] = "echo" BY <1>6 DEF Echo
    <5> QED BY <5>1, <5>2 DEF OpenEcho
   <4> QED BY <4>1, <4>2
  <3> QED BY <3>1, <3>2
 <2> QED BY <1>6, <2>3, <2>4 DEF Echo
<1>7. ASSUME NEW p \in Prompts, SendPrompt(p) PROVE (OpenEcho /\ SerialTranscript)'
 <2>1. TranscriptsRest BY <1>7 DEF SendPrompt, Finish, TypeOK, PromptTypes, TranscriptsRest
 <2> QED BY <2>1, TranscriptFrame
<1>8. ASSUME NEW p \in Prompts, StartEnd(p) PROVE (OpenEcho /\ SerialTranscript)'
 <2>1. TranscriptsRest BY <1>8 DEF StartEnd, TypeOK, PromptTypes, TranscriptsRest
 <2> QED BY <2>1, TranscriptFrame
<1>9. ASSUME NEW p \in Prompts, WriteEnd(p) PROVE (OpenEcho /\ SerialTranscript)'
 <2> DEFINE c == ConvOf[p]
 <2> USE DEF TypeOK, PromptTypes, TurnTypes, HistoryTypes
 <2>1. PICK kind \in {"turn_end", "unwritten"} :
          events' = [events EXCEPT ![c] = Append(@, <<kind, p>>)] BY <1>9 DEF WriteEnd
 <2> DEFINE e == <<kind, p>>
 <2>2. c \in Convs /\ current[c] = p /\ e \in {"echo", "turn_end", "unwritten"} \X Prompts
   BY <1>9 DEF WriteEnd, TurnOwner, Turning
 <2>3. Len(events[c]) > 0 /\ events[c][Len(events[c])][1] = "echo" =>
          events[c][Len(events[c])][2] = p BY <2>2 DEF OpenEcho
 <2>4. SerialTranscript' BY <2>1, <2>2, <2>3, TranscriptAppend
 <2>5. OpenEcho'
  <3> SUFFICES ASSUME NEW d \in Convs, Len(events'[d]) > 0,
                      events'[d][Len(events'[d])][1] = "echo"
               PROVE  /\ current'[d] # None
                      /\ events'[d][Len(events'[d])][2] = current'[d]
                      /\ stage'[current'[d]] # "echo" BY DEF OpenEcho
  <3>1. CASE d = c
   <4>1. events[c] \in Seq({"echo", "turn_end", "unwritten"} \X Prompts) BY <2>2
   <4>2. events'[d][Len(events'[d])] = e BY <4>1, <3>1, <2>1, <2>2
   <4> QED BY <4>2
  <3>2. CASE d # c
   <4>1. events'[d] = events[d] /\ current'[d] = current[d] BY <3>2, <2>1, <1>9 DEF WriteEnd
   <4>2. \A q \in Prompts : stage'[q] = "echo" => stage[q] = "echo" BY <1>9 DEF WriteEnd
   <4> QED BY <4>1, <4>2 DEF OpenEcho
  <3> QED BY <3>1, <3>2
 <2> QED BY <2>4, <2>5
<1>10. ASSUME NEW p \in Prompts, Answer(p) PROVE (OpenEcho /\ SerialTranscript)'
 <2>1. TranscriptsRest BY <1>10 DEF Answer, Settle, RaceOver, Finish, TypeOK, PromptTypes, TranscriptsRest
 <2> QED BY <2>1, TranscriptFrame
<1>11. ASSUME NEW p \in Prompts, AnswerBusy(p) PROVE (OpenEcho /\ SerialTranscript)'
 <2>1. TranscriptsRest BY <1>11 DEF AnswerBusy, Settle, RaceOver, Finish, TypeOK, PromptTypes, TranscriptsRest
 <2> QED BY <2>1, TranscriptFrame
<1>12. ASSUME NEW p \in Prompts, AnswerNotFound(p) PROVE (OpenEcho /\ SerialTranscript)'
 <2>1. TranscriptsRest BY <1>12 DEF AnswerNotFound, Settle, RaceOver, Finish, TypeOK, PromptTypes, TranscriptsRest
 <2> QED BY <2>1, TranscriptFrame
<1>13. ASSUME NEW p \in Prompts, LateAnswer(p) PROVE (OpenEcho /\ SerialTranscript)'
 <2>1. TranscriptsRest BY <1>13 DEF LateAnswer, Settle, TypeOK, PromptTypes, TranscriptsRest
 <2> QED BY <2>1, TranscriptFrame
<1>14. ASSUME NEW c \in Convs, Bound(c) PROVE (OpenEcho /\ SerialTranscript)'
 <2>1. TranscriptsRest BY <1>14 DEF Bound, BindFails, TypeOK, PromptTypes, TranscriptsRest
 <2> QED BY <2>1, TranscriptFrame
<1>15. ASSUME NEW c \in Convs, Watchdog(c) PROVE (OpenEcho /\ SerialTranscript)'
 <2>1. TranscriptsRest BY <1>15 DEF Watchdog, Finish, TypeOK, PromptTypes, TranscriptsRest
 <2> QED BY <2>1, TranscriptFrame
<1>16. ASSUME NEW c \in Convs, ShutdownCancel(c) PROVE (OpenEcho /\ SerialTranscript)'
 <2>1. TranscriptsRest
   BY <1>16 DEF ShutdownCancel, CancelEffect, Admitting, Stale, Aims, TypeOK, PromptTypes, TranscriptsRest
 <2> QED BY <2>1, TranscriptFrame
<1>17. ASSUME NEW c \in Convs, NEW s \in Subs \cup {NoSub}, Cancel(c, s) PROVE (OpenEcho /\ SerialTranscript)'
 <2>1. TranscriptsRest BY <1>17 DEF Cancel, CancelEffect, Admitting, Stale, Aims, TypeOK, PromptTypes, TranscriptsRest
 <2> QED BY <2>1, TranscriptFrame
<1>18. ASSUME Shutdown PROVE (OpenEcho /\ SerialTranscript)'
 <2>1. TranscriptsRest BY <1>18 DEF Shutdown, TypeOK, PromptTypes, TranscriptsRest
 <2> QED BY <2>1, TranscriptFrame
<1>19. ASSUME EngineExit PROVE (OpenEcho /\ SerialTranscript)'
 <2>1. TranscriptsRest BY <1>19 DEF EngineExit, EngineGone, TypeOK, PromptTypes, TranscriptsRest
 <2> QED BY <2>1, TranscriptFrame
<1>20. ASSUME EngineReady PROVE (OpenEcho /\ SerialTranscript)'
 <2>1. TranscriptsRest BY <1>20 DEF EngineReady, TypeOK, PromptTypes, TranscriptsRest
 <2> QED BY <2>1, TranscriptFrame
<1>21. ASSUME ShutdownStop PROVE (OpenEcho /\ SerialTranscript)'
 <2>1. TranscriptsRest BY <1>21 DEF ShutdownStop, EngineGone, TypeOK, PromptTypes, TranscriptsRest
 <2> QED BY <2>1, TranscriptFrame
<1>22. ASSUME UNCHANGED vars PROVE (OpenEcho /\ SerialTranscript)'
 <2>1. TranscriptsRest BY <1>22 DEF vars, TypeOK, PromptTypes, TranscriptsRest
 <2> QED BY <2>1, TranscriptFrame
<1> QED BY <1>1, <1>2, <1>3, <1>4, <1>5, <1>6, <1>7, <1>8, <1>9, <1>10, <1>11, <1>12,
     <1>13, <1>14, <1>15, <1>16, <1>17, <1>18, <1>19, <1>20, <1>21, <1>22
     DEF Next, PromptStep, EngineAnswers, Quiescent

\* The invariant that ties prompts, turns, cancels and transcripts together.
LEMMA InvStep == Spec => [](TypeOK /\ IInv)
<1>1. Init => TypeOK /\ IInv
 <2>1. Init => TypeOK BY TypeInit
 <2>2. Init => TurnOwner /\ CancelOwner BY BrokerAssumption DEF Init, TurnOwner, CancelOwner, NoStrayCancel, Turning
 <2>3. Init => FlagOwner /\ OpenEcho /\ SerialTranscript
   BY BrokerAssumption DEF Init, FlagOwner, FlaggedNeverRuns, OpenEcho, SerialTranscript, Turning
 <2> QED BY <2>1, <2>2, <2>3 DEF IInv
<1>2. TypeOK /\ IInv /\ [Next]_vars => (TypeOK /\ IInv)'
  BY TypeStep, TurnOwnerStep, CancelOwnerStep, FlagOwnerStep, TranscriptStep DEF IInv
<1> QED BY <1>1, <1>2, PTL DEF Spec

\* Every transcript is a sequence of whole turns.
THEOREM TranscriptsAreSerial == Spec => []SerialTranscript
<1>1. IInv => SerialTranscript BY DEF IInv
<1> QED BY <1>1, InvStep, PTL

\* The gateway only cancels a turn that some cancel was aimed at.
THEOREM CancelsHitTheirTarget == Spec => []NoStrayCancel
<1>1. IInv => NoStrayCancel BY DEF IInv, CancelOwner
<1> QED BY <1>1, InvStep, PTL

\* A prompt flagged during its admission never reaches the engine.
THEOREM FlaggedPromptsNeverRun == Spec => []FlaggedNeverRuns
<1>1. IInv => FlaggedNeverRuns BY DEF IInv, FlagOwner
<1> QED BY <1>1, InvStep, PTL

--------------------
\* An engine call that outlives its turn is a force-ended turn's, and a forced
\* end stays one; so is whatever the engine is still busy with.
CallOwner ==
    /\ \A p \in Prompts : call[p] # "none" /\ stage[p] # "engine" => result[p] = "forced"
    /\ \A p \in Prompts : result[p] = "forced" => stage[p] \in {"finish", "ending", "done"}
    /\ BusyOnlyAfterForcedEnd

LEMMA CallOwnerStep == TypeOK /\ TurnOwner /\ CallOwner /\ [Next]_vars => CallOwner'
<1> SUFFICES ASSUME TypeOK, TurnOwner, CallOwner, [Next]_vars PROVE CallOwner' OBVIOUS
<1> USE BrokerAssumption DEF TypeOK, PromptTypes, TurnTypes, TurnOwner, CallOwner, BusyOnlyAfterForcedEnd,
        Stages, Admission, Turning
<1>1. ASSUME NEW p \in Prompts, Submit(p) PROVE CallOwner' BY <1>1 DEF Submit
<1>2. ASSUME NEW p \in Prompts, Lookup(p) PROVE CallOwner' BY <1>2 DEF Lookup, Proceed
<1>3. ASSUME NEW p \in Prompts, CheckPrompt(p) PROVE CallOwner' BY <1>3 DEF CheckPrompt, Proceed, Refuse
<1>4. ASSUME NEW p \in Prompts, EngineIsReady(p) PROVE CallOwner' BY <1>4 DEF EngineIsReady, Proceed, Refuse
<1>5. ASSUME NEW p \in Prompts, BeginTurn(p) PROVE CallOwner' BY <1>5 DEF BeginTurn, StartTurn, Refuse
<1>6. ASSUME NEW p \in Prompts, Echo(p) PROVE CallOwner' BY <1>6 DEF Echo
<1>7. ASSUME NEW p \in Prompts, SendPrompt(p) PROVE CallOwner' BY <1>7 DEF SendPrompt, Finish, EngineVerdict
<1>8. ASSUME NEW p \in Prompts, StartEnd(p) PROVE CallOwner' BY <1>8 DEF StartEnd
<1>9. ASSUME NEW p \in Prompts, WriteEnd(p) PROVE CallOwner' BY <1>9 DEF WriteEnd
<1>10. ASSUME NEW p \in Prompts, Answer(p) PROVE CallOwner' BY <1>10 DEF Answer, Settle, Finish
<1>11. ASSUME NEW p \in Prompts, AnswerBusy(p) PROVE CallOwner' BY <1>11 DEF AnswerBusy, Settle, Finish
<1>12. ASSUME NEW p \in Prompts, AnswerNotFound(p) PROVE CallOwner' BY <1>12 DEF AnswerNotFound, Settle, Finish
<1>13. ASSUME NEW p \in Prompts, LateAnswer(p) PROVE CallOwner' BY <1>13 DEF LateAnswer, Settle
<1>14. ASSUME NEW c \in Convs, Bound(c) PROVE CallOwner' BY <1>14 DEF Bound, BindFails
<1>15. ASSUME NEW c \in Convs, Watchdog(c) PROVE CallOwner' BY <1>15 DEF Watchdog, Finish
<1>16. ASSUME NEW c \in Convs, ShutdownCancel(c) PROVE CallOwner' BY <1>16 DEF ShutdownCancel, CancelEffect
<1>17. ASSUME NEW c \in Convs, NEW s \in Subs \cup {NoSub}, Cancel(c, s) PROVE CallOwner'
  BY <1>17 DEF Cancel, CancelEffect
<1>18. ASSUME Shutdown PROVE CallOwner' BY <1>18 DEF Shutdown
<1>19. ASSUME EngineExit PROVE CallOwner' BY <1>19 DEF EngineExit, EngineGone
<1>20. ASSUME EngineReady PROVE CallOwner' BY <1>20 DEF EngineReady
<1>21. ASSUME ShutdownStop PROVE CallOwner' BY <1>21 DEF ShutdownStop, EngineGone
<1>22. ASSUME UNCHANGED vars PROVE CallOwner' BY <1>22 DEF vars
<1> QED BY <1>1, <1>2, <1>3, <1>4, <1>5, <1>6, <1>7, <1>8, <1>9, <1>10, <1>11, <1>12,
     <1>13, <1>14, <1>15, <1>16, <1>17, <1>18, <1>19, <1>20, <1>21, <1>22
     DEF Next, PromptStep, EngineAnswers, Quiescent


\* The engine refuses a prompt as a second active one only behind a force-ended
\* turn of the same conversation: a turn that ends by itself leaves no engine call.
THEOREM BusyIsForced == Spec => []BusyOnlyAfterForcedEnd
<1>1. Init => CallOwner BY DEF Init, CallOwner, BusyOnlyAfterForcedEnd
<1>2. IInv => TurnOwner BY DEF IInv
<1>3. CallOwner => BusyOnlyAfterForcedEnd BY DEF CallOwner
<1> QED BY <1>1, <1>2, <1>3, InvStep, CallOwnerStep, PTL DEF Spec

--------------------
\* The list of submissions: one record for each id, as long as none is
\* dropped for its age.

SubStates == {"running", "done"}

\* Every submission has one record.
Distinct(list) == \A i, j \in DOMAIN list : list[i][1] = list[j][1] => i = j

Records(list) == {list[i] : i \in DOMAIN list}

\* The filter of #rememberSubmission drops the id's record and nothing else.
LEMMA WithoutDrops ==
  ASSUME NEW S, NEW list \in Seq(S \X SubStates), Distinct(list), NEW id
  PROVE  /\ Without(list, id) \in Seq(S \X SubStates) /\ Distinct(Without(list, id))
         /\ \A r : r \in Records(Without(list, id)) <=> r \in Records(list) /\ r[1] # id
<1>0. Len(list) \in Nat /\ DOMAIN list = 1..Len(list) /\ \A k \in 1..Len(list) : list[k] \in S \X SubStates
  BY LenProperties, ElementOfSeq
<1>1. CASE \A j \in DOMAIN list : list[j][1] # id
 <2>1. Without(list, id) = list BY <1>1 DEF Without
 <2> QED BY <1>1, <2>1 DEF Records
<1>2. CASE ~ \A j \in DOMAIN list : list[j][1] # id
 <2> DEFINE i == CHOOSE j \in DOMAIN list : list[j][1] = id
 <2>1. i \in 1..Len(list) /\ list[i][1] = id BY <1>0, <1>2
 <2> DEFINE w == [j \in 1..(Len(list) - 1) |-> list[IF j < i THEN j ELSE j + 1]]
 <2>2. Without(list, id) = w BY <1>2 DEF Without
 <2> HIDE DEF i
 <2>3. DOMAIN w = 1..(Len(list) - 1) /\ Len(list) - 1 \in Nat BY <1>0, <2>1
 <2>4. \A j \in 1..(Len(list) - 1) : w[j] = IF j < i THEN list[j] ELSE list[j + 1] OBVIOUS
 <2>5. w \in Seq(S \X SubStates)
  <3>1. \A j \in 1..(Len(list) - 1) : w[j] \in S \X SubStates BY <1>0, <2>1, <2>4
  <3> QED BY <2>3, <3>1
 <2> HIDE DEF w
 <2>6. Distinct(w)
  <3>1. ASSUME NEW j \in DOMAIN w, NEW k \in DOMAIN w, w[j][1] = w[k][1] PROVE j = k
   <4> DEFINE at(n) == IF n < i THEN n ELSE n + 1
   <4>1. at(j) \in DOMAIN list /\ at(k) \in DOMAIN list BY <1>0, <2>1, <2>3
   <4>2. w[j] = list[at(j)] /\ w[k] = list[at(k)] BY <2>3, <2>4
   <4> HIDE DEF at
   <4>3. at(j) = at(k) BY <3>1, <4>1, <4>2 DEF Distinct
   <4> QED BY <1>0, <2>1, <2>3, <4>3 DEF at
  <3> QED BY <3>1 DEF Distinct
 <2>7. ASSUME NEW r, r \in Records(w) PROVE r \in Records(list) /\ r[1] # id
  <3>1. PICK j \in 1..(Len(list) - 1) : r = w[j] BY <2>3, <2>7 DEF Records
  <3>2. PICK k \in 1..Len(list) : r = list[k] /\ k # i BY <1>0, <2>1, <2>4, <3>1
  <3> QED BY <1>0, <2>1, <3>2 DEF Records, Distinct
 <2>8. ASSUME NEW r, r \in Records(list), r[1] # id PROVE r \in Records(w)
  <3>1. PICK k \in 1..Len(list) : r = list[k] /\ k # i BY <1>0, <2>1, <2>8 DEF Records
  <3>2. \E j \in 1..(Len(list) - 1) : r = w[j]
   <4>1. CASE k < i BY <1>0, <2>1, <2>4, <3>1, <4>1
   <4>2. CASE k > i
    <5>1. k - 1 \in 1..(Len(list) - 1) /\ ~(k - 1 < i) /\ (k - 1) + 1 = k BY <1>0, <2>1, <4>2
    <5> QED BY <2>4, <3>1, <5>1
   <4> QED BY <2>1, <3>1, <4>1, <4>2
  <3> QED BY <2>3, <3>2 DEF Records
 <2> QED BY <2>2, <2>5, <2>6, <2>7, <2>8
<1> QED BY <1>1, <1>2

\* A list with one record for each of at most n ids is no longer than n.
LEMMA DistinctLength ==
  ASSUME NEW S, IsFiniteSet(S), NEW list \in Seq(S \X SubStates), Distinct(list)
  PROVE  Len(list) <= Cardinality(S)
<1>0. Len(list) \in Nat /\ DOMAIN list = 1..Len(list) /\ \A k \in 1..Len(list) : list[k] \in S \X SubStates
  BY LenProperties, ElementOfSeq
<1> DEFINE f == [i \in 1..Len(list) |-> list[i][1]]
<1>1. f \in Injection(1..Len(list), S) BY <1>0 DEF Injection, Distinct, IsInjective
<1>2. Cardinality(1..Len(list)) <= Cardinality(S) BY <1>1, FS_Injection
<1> HIDE DEF f
<1>3. PICK n \in Nat : n = Len(list) BY <1>0
<1>4. Cardinality(1..n) = n
 <2>1. Cardinality(1..n) = IF 1 > n THEN 0 ELSE n - 1 + 1 BY FS_Interval
 <2> QED BY <2>1
<1> QED BY <1>2, <1>3, <1>4

\* As long as there are no more ids than are kept, remembering a submission
\* replaces its record and keeps the others.
LEMMA RememberKeeps ==
  ASSUME NEW S, IsFiniteSet(S), Cardinality(S) <= SubmissionsKept,
         NEW list \in Seq(S \X SubStates), Distinct(list), NEW id \in S, NEW st \in SubStates
  PROVE  /\ Remember(list, id, st) \in Seq(S \X SubStates) /\ Distinct(Remember(list, id, st))
         /\ \A r : r \in Records(Remember(list, id, st)) <=> r = <<id, st>> \/ (r \in Records(list) /\ r[1] # id)
<1> DEFINE o == Without(list, id)
           all == Append(o, <<id, st>>)
<1>1. /\ o \in Seq(S \X SubStates) /\ Distinct(o)
      /\ \A r : r \in Records(o) <=> r \in Records(list) /\ r[1] # id BY WithoutDrops
<1>r. Remember(list, id, st) = IF Len(all) <= SubmissionsKept THEN all
                               ELSE SubSeq(all, Len(all) - SubmissionsKept + 1, Len(all)) BY DEF Remember
<1> HIDE DEF o
<1>2. <<id, st>> \in S \X SubStates /\ <<id, st>>[1] = id OBVIOUS
<1>3. /\ all \in Seq(S \X SubStates) /\ Len(all) = Len(o) + 1 /\ Len(o) \in Nat
      /\ all[Len(o) + 1] = <<id, st>> /\ \A i \in 1..Len(o) : all[i] = o[i]
      /\ DOMAIN all = 1..(Len(o) + 1) /\ DOMAIN o = 1..Len(o) BY <1>1, <1>2, AppendProperties, LenProperties
<1> HIDE DEF all
<1>4. \A i \in 1..Len(o) : o[i][1] # id /\ o[i] \in Records(o) BY <1>1, <1>3 DEF Records
<1>5. Distinct(all)
 <2>1. ASSUME NEW i \in 1..(Len(o) + 1), NEW j \in 1..(Len(o) + 1), all[i][1] = all[j][1] PROVE i = j
  <3>1. CASE i \in 1..Len(o) /\ j \in 1..Len(o) BY <1>1, <1>3, <2>1, <3>1 DEF Distinct
  <3>2. CASE i = Len(o) + 1 /\ j \in 1..Len(o) BY <1>2, <1>3, <1>4, <2>1, <3>2
  <3>3. CASE j = Len(o) + 1 /\ i \in 1..Len(o) BY <1>2, <1>3, <1>4, <2>1, <3>3
  <3> QED BY <1>3, <3>1, <3>2, <3>3
 <2> QED BY <1>3, <2>1 DEF Distinct
<1>6. \A r : r \in Records(all) <=> r = <<id, st>> \/ r \in Records(o)
 <2>1. ASSUME NEW r, r \in Records(all) PROVE r = <<id, st>> \/ r \in Records(o)
  <3>1. PICK i \in 1..(Len(o) + 1) : r = all[i] BY <1>3, <2>1 DEF Records
  <3>2. i = Len(o) + 1 \/ i \in 1..Len(o) BY <1>3
  <3> QED BY <1>3, <1>4, <3>1, <3>2
 <2>2. ASSUME NEW r, r \in Records(o) PROVE r \in Records(all)
  <3>1. PICK i \in 1..Len(o) : r = o[i] BY <1>3, <2>2 DEF Records
  <3>2. i \in DOMAIN all /\ r = all[i] BY <1>3, <3>1
  <3> QED BY <3>2 DEF Records
 <2>3. <<id, st>> \in Records(all)
  <3>1. Len(o) + 1 \in DOMAIN all BY <1>3
  <3> QED BY <1>3, <3>1 DEF Records
 <2> QED BY <2>1, <2>2, <2>3
<1>7. Len(all) <= SubmissionsKept
 <2>1. Len(all) <= Cardinality(S) /\ Cardinality(S) \in Nat /\ Len(all) \in Nat /\ SubmissionsKept \in Nat
   BY <1>3, <1>5, DistinctLength, FS_CardinalityType, BrokerAssumption
 <2> QED BY <2>1
<1> QED BY <1>1, <1>3, <1>5, <1>6, <1>7, <1>r

--------------------
\* The contract.  What it needs beyond TurnOwner: a submission in flight
\* is in flight once, and one whose turn has ended is on record as done,
\* so a second request for it gets no turn of its own.

SubsIn(c) == {SubOf[p] : p \in {q \in Prompts : ConvOf[q] = c}} \ {NoSub}

\* No conversation sees more submissions than the list keeps: what the contract
\* rests on, since a submission whose record was dropped would run again.
KeptLongEnough == \A c \in Convs : Cardinality(SubsIn(c)) <= SubmissionsKept

Same(p, q) == ConvOf[p] = ConvOf[q] /\ SubOf[p] = SubOf[q] /\ SubOf[p] # NoSub

\* The recorded submissions of a conversation are some that it was sent.
ListInv ==
    \A c \in Convs : submissions[c] \in Seq(SubsIn(c) \X SubStates) /\ Distinct(submissions[c])

\* A prompt has its result when its turn has, and at no other time.
ResultsInv ==
    \A p \in Prompts : /\ stage[p] \notin {"finish", "ending", "done"} => result[p] = "none"
                       /\ stage[p] \in {"finish", "ending"} => result[p] # "none"

InFlightOnce ==
    \A p, q \in Prompts :
        Same(p, q) /\ stage[p] \in Admission \cup Turning /\ stage[q] \in Admission \cup Turning => p = q

EndedIsRecorded ==
    \A q \in Prompts :
        stage[q] = "done" /\ result[q] # "none" /\ SubOf[q] # NoSub =>
            <<SubOf[q], "done">> \in Records(submissions[ConvOf[q]])

\* Past the lookup no other request of the submission has begun a turn.
NotTwice ==
    \A p \in Prompts : \A q \in Begun :
        stage[p] \in (Admission \ {"lookup"}) \cup Turning /\ Same(p, q) => p = q

LEMMA ResultsStep == TypeOK /\ TurnOwner /\ ResultsInv /\ [Next]_vars => ResultsInv'
<1> SUFFICES ASSUME TypeOK, TurnOwner, ResultsInv, [Next]_vars PROVE ResultsInv' OBVIOUS
<1> USE BrokerAssumption DEF TypeOK, PromptTypes, TurnTypes, TurnOwner, ResultsInv, Stages, Admission, Turning, Results
<1>1. ASSUME NEW p \in Prompts, Submit(p) PROVE ResultsInv' BY <1>1 DEF Submit
<1>2. ASSUME NEW p \in Prompts, Lookup(p) PROVE ResultsInv' BY <1>2 DEF Lookup, Proceed
<1>3. ASSUME NEW p \in Prompts, CheckPrompt(p) PROVE ResultsInv' BY <1>3 DEF CheckPrompt, Proceed, Refuse
<1>4. ASSUME NEW p \in Prompts, EngineIsReady(p) PROVE ResultsInv' BY <1>4 DEF EngineIsReady, Proceed, Refuse
<1>5. ASSUME NEW p \in Prompts, BeginTurn(p) PROVE ResultsInv' BY <1>5 DEF BeginTurn, StartTurn, Refuse
<1>6. ASSUME NEW p \in Prompts, Echo(p) PROVE ResultsInv' BY <1>6 DEF Echo
<1>7. ASSUME NEW p \in Prompts, SendPrompt(p) PROVE ResultsInv' BY <1>7 DEF SendPrompt, Finish, EngineVerdict
<1>8. ASSUME NEW p \in Prompts, StartEnd(p) PROVE ResultsInv' BY <1>8 DEF StartEnd
<1>9. ASSUME NEW p \in Prompts, WriteEnd(p) PROVE ResultsInv' BY <1>9 DEF WriteEnd
<1>10. ASSUME NEW p \in Prompts, Answer(p) PROVE ResultsInv' BY <1>10 DEF Answer, Settle, Finish
<1>11. ASSUME NEW p \in Prompts, AnswerBusy(p) PROVE ResultsInv' BY <1>11 DEF AnswerBusy, Settle, Finish
<1>12. ASSUME NEW p \in Prompts, AnswerNotFound(p) PROVE ResultsInv' BY <1>12 DEF AnswerNotFound, Settle, Finish
<1>13. ASSUME NEW p \in Prompts, LateAnswer(p) PROVE ResultsInv' BY <1>13 DEF LateAnswer, Settle
<1>14. ASSUME NEW c \in Convs, Bound(c) PROVE ResultsInv' BY <1>14 DEF Bound, BindFails
<1>15. ASSUME NEW c \in Convs, Watchdog(c) PROVE ResultsInv' BY <1>15 DEF Watchdog, Finish
<1>16. ASSUME NEW c \in Convs, ShutdownCancel(c) PROVE ResultsInv' BY <1>16 DEF ShutdownCancel, CancelEffect
<1>17. ASSUME NEW c \in Convs, NEW s \in Subs \cup {NoSub}, Cancel(c, s) PROVE ResultsInv'
  BY <1>17 DEF Cancel, CancelEffect
<1>18. ASSUME Shutdown PROVE ResultsInv' BY <1>18 DEF Shutdown
<1>19. ASSUME EngineExit PROVE ResultsInv' BY <1>19 DEF EngineExit, EngineGone
<1>20. ASSUME EngineReady PROVE ResultsInv' BY <1>20 DEF EngineReady
<1>21. ASSUME ShutdownStop PROVE ResultsInv' BY <1>21 DEF ShutdownStop, EngineGone
<1>22. ASSUME UNCHANGED vars PROVE ResultsInv' BY <1>22 DEF vars
<1> QED BY <1>1, <1>2, <1>3, <1>4, <1>5, <1>6, <1>7, <1>8, <1>9, <1>10, <1>11, <1>12,
     <1>13, <1>14, <1>15, <1>16, <1>17, <1>18, <1>19, <1>20, <1>21, <1>22
     DEF Next, PromptStep, EngineAnswers, Quiescent

LEMMA InFlightStep == TypeOK /\ TurnOwner /\ InFlightOnce /\ [Next]_vars => InFlightOnce'
<1> SUFFICES ASSUME TypeOK, TurnOwner, InFlightOnce, [Next]_vars PROVE InFlightOnce' OBVIOUS
<1> USE BrokerAssumption DEF TypeOK, PromptTypes, InFlightOnce, Same, Stages, Admission, Turning
<1>1. ASSUME NEW p \in Prompts, Submit(p) PROVE InFlightOnce' BY <1>1 DEF Submit, Inflight
<1>2. ASSUME NEW p \in Prompts, Lookup(p) PROVE InFlightOnce' BY <1>2 DEF Lookup, Proceed
<1>3. ASSUME NEW p \in Prompts, CheckPrompt(p) PROVE InFlightOnce' BY <1>3 DEF CheckPrompt, Proceed, Refuse
<1>4. ASSUME NEW p \in Prompts, EngineIsReady(p) PROVE InFlightOnce' BY <1>4 DEF EngineIsReady, Proceed, Refuse
<1>5. ASSUME NEW p \in Prompts, BeginTurn(p) PROVE InFlightOnce' BY <1>5 DEF BeginTurn, StartTurn, Refuse
<1>6. ASSUME NEW p \in Prompts, Echo(p) PROVE InFlightOnce' BY <1>6 DEF Echo
<1>7. ASSUME NEW p \in Prompts, SendPrompt(p) PROVE InFlightOnce' BY <1>7 DEF SendPrompt, Finish, EngineVerdict
<1>8. ASSUME NEW p \in Prompts, StartEnd(p) PROVE InFlightOnce' BY <1>8 DEF StartEnd
<1>9. ASSUME NEW p \in Prompts, WriteEnd(p) PROVE InFlightOnce' BY <1>9 DEF WriteEnd
<1>10. ASSUME NEW p \in Prompts, Answer(p) PROVE InFlightOnce' BY <1>10 DEF Answer, Settle, Finish
<1>11. ASSUME NEW p \in Prompts, AnswerBusy(p) PROVE InFlightOnce' BY <1>11 DEF AnswerBusy, Settle, Finish
<1>12. ASSUME NEW p \in Prompts, AnswerNotFound(p) PROVE InFlightOnce' BY <1>12 DEF AnswerNotFound, Settle, Finish
<1>13. ASSUME NEW p \in Prompts, LateAnswer(p) PROVE InFlightOnce' BY <1>13 DEF LateAnswer, Settle
<1>14. ASSUME NEW c \in Convs, Bound(c) PROVE InFlightOnce' BY <1>14 DEF Bound, BindFails
<1>15. ASSUME NEW c \in Convs, Watchdog(c) PROVE InFlightOnce' BY <1>15 DEF Watchdog, Finish, TurnOwner, TurnTypes
<1>16. ASSUME NEW c \in Convs, ShutdownCancel(c) PROVE InFlightOnce' BY <1>16 DEF ShutdownCancel, CancelEffect
<1>17. ASSUME NEW c \in Convs, NEW s \in Subs \cup {NoSub}, Cancel(c, s) PROVE InFlightOnce'
  BY <1>17 DEF Cancel, CancelEffect
<1>18. ASSUME Shutdown PROVE InFlightOnce' BY <1>18 DEF Shutdown
<1>19. ASSUME EngineExit PROVE InFlightOnce' BY <1>19 DEF EngineExit, EngineGone
<1>20. ASSUME EngineReady PROVE InFlightOnce' BY <1>20 DEF EngineReady
<1>21. ASSUME ShutdownStop PROVE InFlightOnce' BY <1>21 DEF ShutdownStop, EngineGone
<1>22. ASSUME UNCHANGED vars PROVE InFlightOnce' BY <1>22 DEF vars
<1> QED BY <1>1, <1>2, <1>3, <1>4, <1>5, <1>6, <1>7, <1>8, <1>9, <1>10, <1>11, <1>12,
     <1>13, <1>14, <1>15, <1>16, <1>17, <1>18, <1>19, <1>20, <1>21, <1>22
     DEF Next, PromptStep, EngineAnswers, Quiescent


\* The prompts that have begun: a turn of their own, or its result.
LEMMA BegunSplits ==
  ASSUME ResultsInv, TypeOK
  PROVE  \A q \in Begun : stage[q] \in Turning \/ (stage[q] = "done" /\ result[q] # "none")
BY DEF ResultsInv, Begun, TypeOK, PromptTypes, Stages, Admission, Turning

\* Begun grows with the turn that begins, and with nothing else.
OneBegins ==
    \/ Begun' = Begun
    \/ \E p \in Prompts : /\ stage[p] = "usage" /\ CanRun(ConvOf[p]) /\ StartTurn(p, admCancelled[p])
                          /\ Begun' = Begun \cup {p}

LEMMA BegunStep == ASSUME TypeOK, TurnOwner, ResultsInv, [Next]_vars PROVE OneBegins
<1> USE BrokerAssumption DEF OneBegins, TypeOK, PromptTypes, TurnTypes, TurnOwner, ResultsInv, Begun, Stages, Admission, Turning, Results
<1>1. ASSUME NEW p \in Prompts, Submit(p) PROVE OneBegins BY <1>1 DEF Submit
<1>2. ASSUME NEW p \in Prompts, Lookup(p) PROVE OneBegins BY <1>2 DEF Lookup, Proceed
<1>3. ASSUME NEW p \in Prompts, CheckPrompt(p) PROVE OneBegins BY <1>3 DEF CheckPrompt, Proceed, Refuse
<1>4. ASSUME NEW p \in Prompts, EngineIsReady(p) PROVE OneBegins BY <1>4 DEF EngineIsReady, Proceed, Refuse
<1>5. ASSUME NEW p \in Prompts, BeginTurn(p) PROVE OneBegins BY <1>5 DEF BeginTurn, StartTurn, Refuse
<1>6. ASSUME NEW p \in Prompts, Echo(p) PROVE OneBegins BY <1>6 DEF Echo
<1>7. ASSUME NEW p \in Prompts, SendPrompt(p) PROVE OneBegins BY <1>7 DEF SendPrompt, Finish, EngineVerdict
<1>8. ASSUME NEW p \in Prompts, StartEnd(p) PROVE OneBegins BY <1>8 DEF StartEnd
<1>9. ASSUME NEW p \in Prompts, WriteEnd(p) PROVE OneBegins BY <1>9 DEF WriteEnd
<1>10. ASSUME NEW p \in Prompts, Answer(p) PROVE OneBegins BY <1>10 DEF Answer, Settle, Finish
<1>11. ASSUME NEW p \in Prompts, AnswerBusy(p) PROVE OneBegins BY <1>11 DEF AnswerBusy, Settle, Finish
<1>12. ASSUME NEW p \in Prompts, AnswerNotFound(p) PROVE OneBegins BY <1>12 DEF AnswerNotFound, Settle, Finish
<1>13. ASSUME NEW p \in Prompts, LateAnswer(p) PROVE OneBegins BY <1>13 DEF LateAnswer, Settle
<1>14. ASSUME NEW c \in Convs, Bound(c) PROVE OneBegins BY <1>14 DEF Bound, BindFails
<1>15. ASSUME NEW c \in Convs, Watchdog(c) PROVE OneBegins BY <1>15 DEF Watchdog, Finish
<1>16. ASSUME NEW c \in Convs, ShutdownCancel(c) PROVE OneBegins BY <1>16 DEF ShutdownCancel, CancelEffect
<1>17. ASSUME NEW c \in Convs, NEW s \in Subs \cup {NoSub}, Cancel(c, s) PROVE OneBegins
  BY <1>17 DEF Cancel, CancelEffect
<1>18. ASSUME Shutdown PROVE OneBegins BY <1>18 DEF Shutdown
<1>19. ASSUME EngineExit PROVE OneBegins BY <1>19 DEF EngineExit, EngineGone
<1>20. ASSUME EngineReady PROVE OneBegins BY <1>20 DEF EngineReady
<1>21. ASSUME ShutdownStop PROVE OneBegins BY <1>21 DEF ShutdownStop, EngineGone
<1>22. ASSUME UNCHANGED vars PROVE OneBegins BY <1>22 DEF vars
<1> QED BY <1>1, <1>2, <1>3, <1>4, <1>5, <1>6, <1>7, <1>8, <1>9, <1>10, <1>11, <1>12,
     <1>13, <1>14, <1>15, <1>16, <1>17, <1>18, <1>19, <1>20, <1>21, <1>22
     DEF Next, PromptStep, EngineAnswers, Quiescent

Past == (Admission \ {"lookup"}) \cup Turning

\* Nobody gets past the lookup whose submission is on record as done.
FromPast ==
    \A p \in Prompts :
      stage'[p] \in Past => stage[p] \in Past \/ (stage[p] = "lookup" /\ ~SubmissionDone(p)) \/ SubOf[p] = NoSub

LEMMA PastStep == ASSUME TypeOK, TurnOwner, [Next]_vars PROVE FromPast
<1> USE BrokerAssumption DEF FromPast, Past, Admission, Turning, Stages, TypeOK, PromptTypes, TurnTypes, TurnOwner
<1>1. ASSUME NEW p \in Prompts, Submit(p) PROVE FromPast BY <1>1 DEF Submit
<1>2. ASSUME NEW p \in Prompts, Lookup(p) PROVE FromPast BY <1>2 DEF Lookup, Proceed
<1>3. ASSUME NEW p \in Prompts, CheckPrompt(p) PROVE FromPast BY <1>3 DEF CheckPrompt, Proceed, Refuse
<1>4. ASSUME NEW p \in Prompts, EngineIsReady(p) PROVE FromPast BY <1>4 DEF EngineIsReady, Proceed, Refuse
<1>5. ASSUME NEW p \in Prompts, BeginTurn(p) PROVE FromPast BY <1>5 DEF BeginTurn, StartTurn, Refuse
<1>6. ASSUME NEW p \in Prompts, Echo(p) PROVE FromPast BY <1>6 DEF Echo
<1>7. ASSUME NEW p \in Prompts, SendPrompt(p) PROVE FromPast BY <1>7 DEF SendPrompt, Finish, EngineVerdict
<1>8. ASSUME NEW p \in Prompts, StartEnd(p) PROVE FromPast BY <1>8 DEF StartEnd
<1>9. ASSUME NEW p \in Prompts, WriteEnd(p) PROVE FromPast BY <1>9 DEF WriteEnd
<1>10. ASSUME NEW p \in Prompts, Answer(p) PROVE FromPast BY <1>10 DEF Answer, Settle, Finish
<1>11. ASSUME NEW p \in Prompts, AnswerBusy(p) PROVE FromPast BY <1>11 DEF AnswerBusy, Settle, Finish
<1>12. ASSUME NEW p \in Prompts, AnswerNotFound(p) PROVE FromPast BY <1>12 DEF AnswerNotFound, Settle, Finish
<1>13. ASSUME NEW p \in Prompts, LateAnswer(p) PROVE FromPast BY <1>13 DEF LateAnswer, Settle
<1>14. ASSUME NEW c \in Convs, Bound(c) PROVE FromPast BY <1>14 DEF Bound, BindFails
<1>15. ASSUME NEW c \in Convs, Watchdog(c) PROVE FromPast BY <1>15 DEF Watchdog, Finish
<1>16. ASSUME NEW c \in Convs, ShutdownCancel(c) PROVE FromPast BY <1>16 DEF ShutdownCancel, CancelEffect
<1>17. ASSUME NEW c \in Convs, NEW s \in Subs \cup {NoSub}, Cancel(c, s) PROVE FromPast
  BY <1>17 DEF Cancel, CancelEffect
<1>18. ASSUME Shutdown PROVE FromPast BY <1>18 DEF Shutdown
<1>19. ASSUME EngineExit PROVE FromPast BY <1>19 DEF EngineExit, EngineGone
<1>20. ASSUME EngineReady PROVE FromPast BY <1>20 DEF EngineReady
<1>21. ASSUME ShutdownStop PROVE FromPast BY <1>21 DEF ShutdownStop, EngineGone
<1>22. ASSUME UNCHANGED vars PROVE FromPast BY <1>22 DEF vars
<1> QED BY <1>1, <1>2, <1>3, <1>4, <1>5, <1>6, <1>7, <1>8, <1>9, <1>10, <1>11, <1>12,
     <1>13, <1>14, <1>15, <1>16, <1>17, <1>18, <1>19, <1>20, <1>21, <1>22
     DEF Next, PromptStep, EngineAnswers, Quiescent

\* A turn with a result is done only by its end.
LEMMA DoneStep ==
  ASSUME TypeOK, ResultsInv, [Next]_vars
  PROVE  \A q \in Prompts : stage'[q] = "done" /\ result'[q] # "none" =>
                              WriteEnd(q) \/ (stage[q] = "done" /\ result[q] # "none")
<1> USE BrokerAssumption DEF TypeOK, PromptTypes, ResultsInv, Stages, Admission, Turning
<1>1. ASSUME NEW p \in Prompts, Submit(p) PROVE \A q \in Prompts : stage'[q] = "done" /\ result'[q] # "none" =>
                              WriteEnd(q) \/ (stage[q] = "done" /\ result[q] # "none") BY <1>1 DEF Submit
<1>2. ASSUME NEW p \in Prompts, Lookup(p) PROVE \A q \in Prompts : stage'[q] = "done" /\ result'[q] # "none" =>
                              WriteEnd(q) \/ (stage[q] = "done" /\ result[q] # "none") BY <1>2 DEF Lookup, Proceed
<1>3. ASSUME NEW p \in Prompts, CheckPrompt(p) PROVE \A q \in Prompts : stage'[q] = "done" /\ result'[q] # "none" =>
                              WriteEnd(q) \/ (stage[q] = "done" /\ result[q] # "none")
  BY <1>3 DEF CheckPrompt, Proceed, Refuse
<1>4. ASSUME NEW p \in Prompts, EngineIsReady(p) PROVE \A q \in Prompts : stage'[q] = "done" /\ result'[q] # "none" =>
                              WriteEnd(q) \/ (stage[q] = "done" /\ result[q] # "none")
  BY <1>4 DEF EngineIsReady, Proceed, Refuse
<1>5. ASSUME NEW p \in Prompts, BeginTurn(p) PROVE \A q \in Prompts : stage'[q] = "done" /\ result'[q] # "none" =>
                              WriteEnd(q) \/ (stage[q] = "done" /\ result[q] # "none")
  BY <1>5 DEF BeginTurn, StartTurn, Refuse
<1>6. ASSUME NEW p \in Prompts, Echo(p) PROVE \A q \in Prompts : stage'[q] = "done" /\ result'[q] # "none" =>
                              WriteEnd(q) \/ (stage[q] = "done" /\ result[q] # "none") BY <1>6 DEF Echo
<1>7. ASSUME NEW p \in Prompts, SendPrompt(p) PROVE \A q \in Prompts : stage'[q] = "done" /\ result'[q] # "none" =>
                              WriteEnd(q) \/ (stage[q] = "done" /\ result[q] # "none")
  BY <1>7 DEF SendPrompt, Finish, EngineVerdict
<1>8. ASSUME NEW p \in Prompts, StartEnd(p) PROVE \A q \in Prompts : stage'[q] = "done" /\ result'[q] # "none" =>
                              WriteEnd(q) \/ (stage[q] = "done" /\ result[q] # "none") BY <1>8 DEF StartEnd
<1>9. ASSUME NEW p \in Prompts, WriteEnd(p) PROVE \A q \in Prompts : stage'[q] = "done" /\ result'[q] # "none" =>
                              WriteEnd(q) \/ (stage[q] = "done" /\ result[q] # "none") BY <1>9 DEF WriteEnd
<1>10. ASSUME NEW p \in Prompts, Answer(p) PROVE \A q \in Prompts : stage'[q] = "done" /\ result'[q] # "none" =>
                              WriteEnd(q) \/ (stage[q] = "done" /\ result[q] # "none")
  BY <1>10 DEF Answer, Settle, Finish
<1>11. ASSUME NEW p \in Prompts, AnswerBusy(p) PROVE \A q \in Prompts : stage'[q] = "done" /\ result'[q] # "none" =>
                              WriteEnd(q) \/ (stage[q] = "done" /\ result[q] # "none")
  BY <1>11 DEF AnswerBusy, Settle, Finish
<1>12. ASSUME NEW p \in Prompts, AnswerNotFound(p) PROVE \A q \in Prompts : stage'[q] = "done" /\ result'[q] # "none" =>
                              WriteEnd(q) \/ (stage[q] = "done" /\ result[q] # "none")
  BY <1>12 DEF AnswerNotFound, Settle, Finish
<1>13. ASSUME NEW p \in Prompts, LateAnswer(p) PROVE \A q \in Prompts : stage'[q] = "done" /\ result'[q] # "none" =>
                              WriteEnd(q) \/ (stage[q] = "done" /\ result[q] # "none") BY <1>13 DEF LateAnswer, Settle
<1>14. ASSUME NEW c \in Convs, Bound(c) PROVE \A q \in Prompts : stage'[q] = "done" /\ result'[q] # "none" =>
                              WriteEnd(q) \/ (stage[q] = "done" /\ result[q] # "none") BY <1>14 DEF Bound, BindFails
<1>15. ASSUME NEW c \in Convs, Watchdog(c) PROVE \A q \in Prompts : stage'[q] = "done" /\ result'[q] # "none" =>
                              WriteEnd(q) \/ (stage[q] = "done" /\ result[q] # "none") BY <1>15 DEF Watchdog, Finish
<1>16. ASSUME NEW c \in Convs, ShutdownCancel(c) PROVE \A q \in Prompts : stage'[q] = "done" /\ result'[q] # "none" =>
                              WriteEnd(q) \/ (stage[q] = "done" /\ result[q] # "none")
  BY <1>16 DEF ShutdownCancel, CancelEffect
<1>17. ASSUME NEW c \in Convs, NEW s \in Subs \cup {NoSub}, Cancel(c, s) PROVE \A q \in Prompts : stage'[q] = "done" /\ result'[q] # "none" =>
                              WriteEnd(q) \/ (stage[q] = "done" /\ result[q] # "none")
  BY <1>17 DEF Cancel, CancelEffect
<1>18. ASSUME Shutdown PROVE \A q \in Prompts : stage'[q] = "done" /\ result'[q] # "none" =>
                              WriteEnd(q) \/ (stage[q] = "done" /\ result[q] # "none") BY <1>18 DEF Shutdown
<1>19. ASSUME EngineExit PROVE \A q \in Prompts : stage'[q] = "done" /\ result'[q] # "none" =>
                              WriteEnd(q) \/ (stage[q] = "done" /\ result[q] # "none")
  BY <1>19 DEF EngineExit, EngineGone
<1>20. ASSUME EngineReady PROVE \A q \in Prompts : stage'[q] = "done" /\ result'[q] # "none" =>
                              WriteEnd(q) \/ (stage[q] = "done" /\ result[q] # "none") BY <1>20 DEF EngineReady
<1>21. ASSUME ShutdownStop PROVE \A q \in Prompts : stage'[q] = "done" /\ result'[q] # "none" =>
                              WriteEnd(q) \/ (stage[q] = "done" /\ result[q] # "none")
  BY <1>21 DEF ShutdownStop, EngineGone
<1>22. ASSUME UNCHANGED vars PROVE \A q \in Prompts : stage'[q] = "done" /\ result'[q] # "none" =>
                              WriteEnd(q) \/ (stage[q] = "done" /\ result[q] # "none") BY <1>22 DEF vars
<1> QED BY <1>1, <1>2, <1>3, <1>4, <1>5, <1>6, <1>7, <1>8, <1>9, <1>10, <1>11, <1>12,
     <1>13, <1>14, <1>15, <1>16, <1>17, <1>18, <1>19, <1>20, <1>21, <1>22
     DEF Next, PromptStep, EngineAnswers, Quiescent

\* Only three steps touch the open turns or the recorded submissions.
QuietTurns ==
    \/ UNCHANGED <<submissions, current>>
    \/ \E p \in Prompts : BeginTurn(p) /\ StartTurn(p, admCancelled[p])
    \/ \E p \in Prompts : Echo(p) \/ WriteEnd(p)

LEMMA QuietStep == ASSUME [Next]_vars PROVE QuietTurns
<1> USE DEF QuietTurns, Finish, Settle, RaceOver, Proceed, Refuse, BindFails, BindFrom, CancelEffect, EngineGone
<1>1. ASSUME NEW p \in Prompts, Submit(p) PROVE QuietTurns BY <1>1 DEF Submit
<1>2. ASSUME NEW p \in Prompts, Lookup(p) PROVE QuietTurns BY <1>2 DEF Lookup
<1>3. ASSUME NEW p \in Prompts, CheckPrompt(p) PROVE QuietTurns BY <1>3 DEF CheckPrompt
<1>4. ASSUME NEW p \in Prompts, EngineIsReady(p) PROVE QuietTurns BY <1>4 DEF EngineIsReady
<1>5. ASSUME NEW p \in Prompts, BeginTurn(p) PROVE QuietTurns BY <1>5 DEF BeginTurn
<1>6. ASSUME NEW p \in Prompts, Echo(p) PROVE QuietTurns BY <1>6
<1>7. ASSUME NEW p \in Prompts, SendPrompt(p) PROVE QuietTurns BY <1>7 DEF SendPrompt
<1>8. ASSUME NEW p \in Prompts, StartEnd(p) PROVE QuietTurns BY <1>8 DEF StartEnd
<1>9. ASSUME NEW p \in Prompts, WriteEnd(p) PROVE QuietTurns BY <1>9
<1>10. ASSUME NEW p \in Prompts, Answer(p) PROVE QuietTurns BY <1>10 DEF Answer
<1>11. ASSUME NEW p \in Prompts, AnswerBusy(p) PROVE QuietTurns BY <1>11 DEF AnswerBusy
<1>12. ASSUME NEW p \in Prompts, AnswerNotFound(p) PROVE QuietTurns BY <1>12 DEF AnswerNotFound
<1>13. ASSUME NEW p \in Prompts, LateAnswer(p) PROVE QuietTurns BY <1>13 DEF LateAnswer
<1>14. ASSUME NEW c \in Convs, Bound(c) PROVE QuietTurns BY <1>14 DEF Bound
<1>15. ASSUME NEW c \in Convs, Watchdog(c) PROVE QuietTurns BY <1>15 DEF Watchdog
<1>16. ASSUME NEW c \in Convs, ShutdownCancel(c) PROVE QuietTurns BY <1>16 DEF ShutdownCancel
<1>17. ASSUME NEW c \in Convs, NEW s \in Subs \cup {NoSub}, Cancel(c, s) PROVE QuietTurns BY <1>17 DEF Cancel
<1>18. ASSUME Shutdown PROVE QuietTurns BY <1>18 DEF Shutdown
<1>19. ASSUME EngineExit PROVE QuietTurns BY <1>19 DEF EngineExit
<1>20. ASSUME EngineReady PROVE QuietTurns BY <1>20 DEF EngineReady
<1>21. ASSUME ShutdownStop PROVE QuietTurns BY <1>21 DEF ShutdownStop
<1>22. ASSUME UNCHANGED vars PROVE QuietTurns BY <1>22 DEF vars
<1> QED BY <1>1, <1>2, <1>3, <1>4, <1>5, <1>6, <1>7, <1>8, <1>9, <1>10, <1>11, <1>12,
     <1>13, <1>14, <1>15, <1>16, <1>17, <1>18, <1>19, <1>20, <1>21, <1>22
     DEF Next, PromptStep, EngineAnswers, Quiescent


\* What a remembered submission makes of the lists.
LEMMA RememberedKeeps ==
  ASSUME KeptLongEnough, TypeOK, ListInv, NEW p \in Prompts, NEW st \in SubStates, submissions' = Remembered(p, st)
  PROVE  /\ ListInv'
         /\ SubOf[p] # NoSub => <<SubOf[p], st>> \in Records(submissions'[ConvOf[p]])
         /\ \A c \in Convs : \A r \in Records(submissions[c]) :
               r \in Records(submissions'[c]) \/ (c = ConvOf[p] /\ SubOf[p] # NoSub /\ r[1] = SubOf[p])
<1>1. CASE SubOf[p] = NoSub BY <1>1 DEF Remembered, ListInv
<1>2. CASE SubOf[p] # NoSub
 <2> DEFINE c == ConvOf[p]
            S == SubsIn(c)
            new == Remember(submissions[c], SubOf[p], st)
 <2>1. c \in Convs /\ SubOf[p] \in S BY <1>2, BrokerAssumption DEF SubsIn
 <2>2. IsFiniteSet(S)
  <3> DEFINE Q == {q \in Prompts : ConvOf[q] = c}
             T == {SubOf[q] : q \in Q}
  <3>1. IsFiniteSet(Q) BY BrokerAssumption, FS_Subset
  <3>2. [q \in Q |-> SubOf[q]] \in Surjection(Q, T) BY DEF Surjection
  <3>3. IsFiniteSet(T) BY <3>1, <3>2, FS_Surjection
  <3>4. S \subseteq T BY DEF SubsIn
  <3> QED BY <3>3, <3>4, FS_Subset
 <2>3. Cardinality(S) <= SubmissionsKept BY <2>1 DEF KeptLongEnough
 <2>4. submissions[c] \in Seq(S \X SubStates) /\ Distinct(submissions[c]) BY <2>1 DEF ListInv
 <2> HIDE DEF S
 <2>5. /\ new \in Seq(S \X SubStates) /\ Distinct(new)
       /\ \A r : r \in Records(new) <=> r = <<SubOf[p], st>> \/ (r \in Records(submissions[c]) /\ r[1] # SubOf[p])
   BY <2>1, <2>2, <2>3, <2>4, RememberKeeps
 <2>6. submissions' = [submissions EXCEPT ![c] = new] BY <1>2 DEF Remembered
 <2> HIDE DEF new
 <2>7. \A d \in Convs : submissions'[d] = IF d = c THEN new ELSE submissions[d] BY <2>6 DEF TypeOK, HistoryTypes
 <2>8. ListInv' BY <2>5, <2>7 DEF ListInv, S
 <2>9. <<SubOf[p], st>> \in Records(submissions'[c]) BY <2>1, <2>5, <2>7
 <2>10. ASSUME NEW d \in Convs, NEW r \in Records(submissions[d])
        PROVE  r \in Records(submissions'[d]) \/ (d = c /\ r[1] = SubOf[p]) BY <2>5, <2>7, <2>10
 <2> QED BY <1>2, <2>8, <2>9, <2>10
<1> QED BY <1>1, <1>2

LEMMA RecordsStep ==
  ASSUME KeptLongEnough, TypeOK, TurnOwner, ListInv, ResultsInv, EndedIsRecorded, NotTwice, [Next]_vars
  PROVE  ListInv' /\ EndedIsRecorded'
<1>1. CASE UNCHANGED submissions
 <2>1. ListInv' BY <1>1 DEF ListInv
 <2>2. ASSUME NEW q \in Prompts, WriteEnd(q), SubOf[q] # NoSub
       PROVE  <<SubOf[q], "done">> \in Records(submissions'[ConvOf[q]])
  <3>1. submissions' = Remembered(q, "done") BY <2>2 DEF WriteEnd
  <3> QED BY <2>2, <3>1, RememberedKeeps DEF SubStates
 <2>3. EndedIsRecorded' BY <1>1, <2>2, DoneStep DEF EndedIsRecorded
 <2> QED BY <2>1, <2>3
<1>2. ASSUME NEW p \in Prompts, NEW st \in SubStates, submissions' = Remembered(p, st), p \in Begun, stage[p] \in Turning,
             \A q \in Prompts : WriteEnd(q) => q = p /\ st = "done"
      PROVE  ListInv' /\ EndedIsRecorded'
 <2>1. /\ ListInv'
       /\ SubOf[p] # NoSub => <<SubOf[p], st>> \in Records(submissions'[ConvOf[p]])
       /\ \A c \in Convs : \A r \in Records(submissions[c]) :
              r \in Records(submissions'[c]) \/ (c = ConvOf[p] /\ SubOf[p] # NoSub /\ r[1] = SubOf[p])
   BY <1>2, RememberedKeeps
 <2>2. ASSUME NEW q \in Prompts, stage'[q] = "done", result'[q] # "none", SubOf[q] # NoSub
       PROVE  <<SubOf[q], "done">> \in Records(submissions'[ConvOf[q]])
  <3>1. CASE WriteEnd(q) BY <1>2, <2>1, <2>2, <3>1
  <3>2. CASE stage[q] = "done" /\ result[q] # "none"
   <4>1. <<SubOf[q], "done">> \in Records(submissions[ConvOf[q]]) /\ ConvOf[q] \in Convs
     BY <2>2, <3>2, BrokerAssumption DEF EndedIsRecorded
   <4>2. q \in Begun BY <3>2 DEF Begun
   <4>3. ~Same(p, q) BY <1>2, <3>2, <4>2 DEF NotTwice, Turning
   <4> QED BY <2>1, <2>2, <4>1, <4>3 DEF Same
  <3> QED BY <2>2, <3>1, <3>2, DoneStep
 <2> QED BY <2>1, <2>2 DEF EndedIsRecorded
<1>3. ASSUME NEW p \in Prompts, Echo(p) PROVE ListInv' /\ EndedIsRecorded'
 <2>1. stage[p] \in Turning /\ p \in Begun BY <1>3 DEF Echo, Turning, Begun
 <2>2. \A q \in Prompts : ~WriteEnd(q) BY <1>3 DEF Echo, WriteEnd, TypeOK, PromptTypes
 <2>3. submissions' = submissions \/ submissions' = Remembered(p, "running") BY <1>3 DEF Echo
 <2> QED BY <1>1, <1>2, <2>1, <2>2, <2>3 DEF SubStates
<1>4. ASSUME NEW p \in Prompts, WriteEnd(p) PROVE ListInv' /\ EndedIsRecorded'
 <2>1. stage[p] \in Turning /\ p \in Begun /\ submissions' = Remembered(p, "done")
   BY <1>4 DEF WriteEnd, Turning, Begun
 <2>2. ASSUME NEW q \in Prompts, WriteEnd(q) PROVE q = p BY <1>4, <2>2 DEF WriteEnd, TypeOK, PromptTypes
 <2> QED BY <1>2, <2>1, <2>2 DEF SubStates
<1>5. ASSUME NEW p \in Prompts, StartTurn(p, admCancelled[p]) PROVE ListInv' /\ EndedIsRecorded'
  BY <1>1, <1>5 DEF StartTurn
<1> QED BY <1>1, <1>3, <1>4, <1>5, QuietStep DEF QuietTurns

LEMMA NotTwiceStep ==
  ASSUME TypeOK, TurnOwner, ResultsInv, InFlightOnce, EndedIsRecorded, NotTwice, [Next]_vars
  PROVE  NotTwice'
<1> SUFFICES ASSUME NEW p \in Prompts, NEW q \in Begun', stage'[p] \in Past, Same(p, q)
             PROVE  p = q BY DEF NotTwice, Past, Same
<1>1. q \in Prompts /\ (stage[p] \in Past \/ (stage[p] = "lookup" /\ ~SubmissionDone(p)))
  BY PastStep DEF Begun, Same, FromPast
<1>2. CASE q \in Begun
 <2>1. CASE stage[p] \in Past BY <1>2, <2>1 DEF NotTwice, Past
 <2>2. CASE stage[p] = "lookup" /\ ~SubmissionDone(p)
  <3>1. CASE stage[q] \in Turning BY <1>1, <2>2, <3>1 DEF InFlightOnce, Admission
  <3>2. CASE stage[q] = "done" /\ result[q] # "none"
   <4>1. <<SubOf[q], "done">> \in Records(submissions[ConvOf[q]]) BY <1>1, <3>2 DEF EndedIsRecorded, Same
   <4>2. SubmissionDone(p) BY <4>1 DEF Records, Same, SubmissionDone
   <4> QED BY <2>2, <4>2
  <3> QED BY <1>2, <3>1, <3>2, BegunSplits
 <2> QED BY <1>1, <2>1, <2>2
<1>3. CASE q \notin Begun
 <2>1. stage[q] = "usage" BY <1>3, BegunStep DEF OneBegins
 <2>2. stage[p] \in Admission \cup Turning BY <1>1 DEF Past, Admission
 <2> QED BY <1>1, <2>1, <2>2 DEF InFlightOnce, Admission
<1> QED BY <1>2, <1>3

ContractInv == TypeOK /\ TurnOwner /\ ResultsInv /\ InFlightOnce /\ ListInv /\ EndedIsRecorded /\ NotTwice

\* A step of the broker is a step of the contract, or none of its business.
LEMMA ContractStep == ContractInv /\ [Next]_vars => [Contract!Next]_(Contract!vars)
<1> SUFFICES ASSUME ContractInv, [Next]_vars
             PROVE  (\E p \in Prompts : Contract!Begin(p) \/ Contract!End(p)) \/ UNCHANGED <<current, Begun>>
  BY DEF Contract!Next, Contract!vars
<1>0. TypeOK /\ TurnOwner /\ ResultsInv /\ NotTwice BY DEF ContractInv
\* A turn opens.
<1>1. ASSUME NEW p \in Prompts, BeginTurn(p), StartTurn(p, admCancelled[p]) PROVE Contract!Begin(p) \/ UNCHANGED <<current, Begun>>
 <2>1. stage[p] = "usage" /\ current' = [current EXCEPT ![ConvOf[p]] = p] BY <1>1 DEF BeginTurn, StartTurn
 <2>2. p \notin Begun BY <1>0, <2>1 DEF ResultsInv, Begun, Turning
 <2>3. stage'[p] = "echo" BY <1>0, <1>1 DEF StartTurn, TypeOK, PromptTypes
 <2>4. p \in Begun' BY <2>3 DEF Begun, Turning
 <2>5. PICK r \in Prompts : /\ stage[r] = "usage" /\ CanRun(ConvOf[r]) /\ StartTurn(r, admCancelled[r])
                            /\ Begun' = Begun \cup {r} BY <1>0, <2>2, <2>4, BegunStep DEF OneBegins
 <2>6. r = p BY <2>2, <2>4, <2>5
 <2>7. current[ConvOf[p]] = None BY <1>0, <2>5, <2>6, BrokerAssumption DEF CanRun, TurnOwner
 <2>8. \A q \in Begun : ~Contract!SameSubmission(p, q)
   BY <1>0, <2>1, <2>2 DEF NotTwice, Same, Contract!SameSubmission, Admission
 <2>9. Contract!Cardinality(Contract!OpenTurns) < MaxRunning
  <3>1. Contract!OpenTurns = Running BY <1>0 DEF Contract!OpenTurns, Running, TurnOwner
  <3>2. Cardinality(Running) < MaxRunning BY <2>5 DEF CanRun
  <3>3. Contract!Cardinality(Running) = Cardinality(Running) BY DEF Cardinality, Contract!Cardinality
  <3> QED BY <3>1, <3>2, <3>3
 <2>10. Begun' = Begun \cup {p} BY <2>5, <2>6
 <2> QED BY <2>1, <2>2, <2>7, <2>8, <2>9, <2>10 DEF Contract!Begin
\* A turn ends.
<1>2. ASSUME NEW p \in Prompts, WriteEnd(p) PROVE Contract!End(p)
 <2>1. stage[p] = "ending" /\ current' = [current EXCEPT ![ConvOf[p]] = None] BY <1>2 DEF WriteEnd
 <2>2. current[ConvOf[p]] = p BY <1>0, <2>1 DEF TurnOwner, Turning
 <2>3. Begun' = Begun BY <1>0, <1>2, BegunStep DEF WriteEnd, StartTurn, TypeOK, PromptTypes, OneBegins
 <2> QED BY <2>1, <2>2, <2>3 DEF Contract!End
\* The transcript is echoed: the contract does not see it.
<1>3. ASSUME NEW p \in Prompts, Echo(p) PROVE UNCHANGED <<current, Begun>>
 <2>1. stage[p] = "echo" /\ UNCHANGED current BY <1>3 DEF Echo
 <2>2. \A q \in Prompts : ~(stage[q] = "usage" /\ StartTurn(q, admCancelled[q]))
   BY <1>0, <1>3 DEF Echo, StartTurn, TypeOK, PromptTypes
 <2>3. Begun' = Begun BY <1>0, <2>2, BegunStep DEF OneBegins
 <2> QED BY <2>1, <2>3
<1>4. CASE UNCHANGED <<submissions, current>>
 <2>1. CASE Begun' = Begun BY <1>4, <2>1
 <2>2. ASSUME NEW p \in Prompts, stage[p] = "usage", CanRun(ConvOf[p]), StartTurn(p, admCancelled[p])
       PROVE  FALSE
  <3>1. current[ConvOf[p]] = None /\ current'[ConvOf[p]] = p /\ p # None
    BY <1>0, <2>2, BrokerAssumption DEF StartTurn, CanRun, TurnOwner, TypeOK, TurnTypes
  <3> QED BY <1>4, <3>1
 <2> QED BY <1>0, <2>1, <2>2, BegunStep DEF OneBegins
<1> QED BY <1>1, <1>2, <1>3, <1>4, QuietStep DEF QuietTurns

\* The broker implements the contract: one open turn per conversation, at most
\* MaxRunning in all, a submission's turn begins once (#promptOnce: the in-flight
\* map, #findSubmission and #assertCanRun together), and a turn that began ends
\* before the next one begins, as long as no conversation sees more submissions
\* than #rememberSubmission keeps.
THEOREM BrokerKeepsTheContract == ASSUME KeptLongEnough PROVE Spec => RefinesContract
<1>1. Init => Contract!Init BY DEF Init, Contract!Init, Begun, Turning
<1>2. Init => ResultsInv /\ InFlightOnce /\ ListInv /\ EndedIsRecorded /\ NotTwice
 <2> SUFFICES ASSUME Init PROVE ResultsInv /\ InFlightOnce /\ ListInv /\ EndedIsRecorded /\ NotTwice OBVIOUS
 <2>1. \A p \in Prompts : stage[p] = "unsent" /\ result[p] = "none" BY DEF Init
 <2>2. ListInv
  <3>1. \A c \in Convs : submissions[c] = <<>> BY DEF Init
  <3>2. ASSUME NEW c \in Convs PROVE submissions[c] \in Seq(SubsIn(c) \X SubStates) /\ Distinct(submissions[c])
   <4>1. <<>> \in Seq(SubsIn(c) \X SubStates) /\ DOMAIN <<>> = {} BY EmptySeq
   <4> QED BY <3>1, <4>1 DEF Distinct
  <3> QED BY <3>2 DEF ListInv
 <2> QED BY <2>1, <2>2 DEF ResultsInv, InFlightOnce, EndedIsRecorded, NotTwice, Admission, Turning
<1>3. TypeOK /\ TurnOwner /\ ResultsInv /\ InFlightOnce /\ ListInv /\ EndedIsRecorded /\ NotTwice /\ [Next]_vars
        => (ResultsInv /\ InFlightOnce /\ ListInv /\ EndedIsRecorded /\ NotTwice)'
  BY ResultsStep, InFlightStep, RecordsStep, NotTwiceStep
<1>4. IInv => TurnOwner BY DEF IInv
<1>5. Spec => []ContractInv BY <1>2, <1>3, <1>4, InvStep, PTL DEF Spec, ContractInv
<1> QED BY <1>1, <1>5, ContractStep, PTL DEF Spec, RefinesContract, Contract!Spec

=============================================================================
