---------------------------- MODULE Cloud_proofs ----------------------------
(***************************************************************************)
(* Proofs about CloudSync, for any paths, owners, local operations, lost   *)
(* answers, expired cursors and crashes: the walk over the cloud's changes *)
(* skips none, and a remote change destroys nothing that was not copied to *)
(* a recovery capture first.                                               *)
(***************************************************************************)
EXTENDS CloudSync, Sublists_proofs, FiniteSetTheorems, TLAPS

\* The walk over the cloud's changes skips none.

SyncShape ==
    /\ \E S : cloud \in Seq(S)
    /\ \A k \in 1 .. Len(cloud) : /\ cloud[k].from \in CloudPaths \cup {Nil} /\ cloud[k].to \in CloudPaths \cup {Nil}
                                  /\ cloud[k].from = Nil => cloud[k].to # Nil
    /\ DOMAIN head = CloudPaths
    /\ \A p \in CloudPaths : {"seq", "known"} \subseteq DOMAIN head[p] /\ head[p].seq \in 0 .. Len(cloud)
    /\ DOMAIN loc = Locals /\ \A o \in Locals : /\ {"kind", "from", "to", "st", "push"} \subseteq DOMAIN loc[o]
                                                /\ loc[o].from \in CloudPaths \cup {Nil} /\ loc[o].to \in CloudPaths \cup {Nil}
                                                /\ loc[o].kind = "upload" => loc[o].to # Nil
                                                /\ loc[o].kind \in {"delete", "move"} => loc[o].from # Nil
                                                /\ loc[o].st # Nil => loc[o].kind \in {"upload", "delete", "move"}
    /\ \A i \in DOMAIN app : "st" \in DOMAIN app[i]
    /\ DOMAIN thread = Clients /\ \A t \in Clients : {"id", "at"} \subseteq DOMAIN thread[t]
    /\ {"id", "at"} \subseteq DOMAIN pushing /\ {"through", "gone", "left"} \subseteq DOMAIN snap

\* An application is of paths of one change.
IdHolds(id) ==
    /\ id.seq \in 1 .. Len(cloud) /\ id.path \in id.paths /\ id.paths \subseteq CloudPaths
    /\ \A p \in id.paths : p \in Touches(id.seq)

Ids ==
    /\ \A i \in DOMAIN app : IdHolds(i)
    /\ \A t \in Clients : IF thread[t].at = Nil THEN thread[t].id = NoId ELSE IdHolds(thread[t].id)
    /\ thread["client"].at # Nil => thread["client"].id.via = "choice"
    /\ thread["worker"].at # Nil => thread["worker"].id.via \in {"import", "change", "snapshot"}

\* How far an application is; the heads stay under one that holds the lock.
StageAt(t) ==
    /\ thread[t].at = "stage" => thread[t].id \in DOMAIN app /\ app[thread[t].id].st = "accepted"
    /\ thread[t].at \in {"publish", "final"} => thread[t].id \in DOMAIN app /\ app[thread[t].id].st = "staged"
    /\ thread[t].at \in {"publishing", "commit"} =>
         /\ thread[t].id \in DOMAIN app /\ app[thread[t].id].st = "publishing" /\ held = t
         /\ \A p \in thread[t].id.paths : head[p].seq <= thread[t].id.seq

Stages ==
    /\ \A t \in Clients : StageAt(t)
    /\ syncMode # "up" => pushing.at = Nil /\ \A t \in Clients : thread[t].at = Nil

\* Where the walk and the snapshot are, and what the worker applies for them.
Walks ==
    /\ cur \in 0 .. Len(cloud) /\ ckpt \in 0 .. cur /\ thru \in 0 .. Len(cloud)
    /\ thru = 0 => cur = ckpt
    /\ thru # 0 => cur <= thru /\ ckpt # 0
    /\ ckpt # 0 => snap.gone = {}
    /\ snap.through \in 0 .. Len(cloud) /\ snap.left \subseteq CloudPaths /\ snap.left \cap snap.gone = {}
    /\ \A p \in snap.left : HeadAt(p, snap.through) # 0
    /\ thread["worker"].at # Nil /\ thread["worker"].id.via = "change" =>
         thru # 0 /\ thread["worker"].id.seq = cur + 1 /\ cur < thru /\ thread["worker"].id.paths = Touches(cur + 1)
    /\ thread["worker"].at # Nil /\ thread["worker"].id.via = "snapshot" =>
         /\ ckpt = 0 /\ thread["worker"].id.path \in snap.left
         /\ thread["worker"].id.paths = {thread["worker"].id.path}
         /\ thread["worker"].id.seq = HeadAt(thread["worker"].id.path, snap.through)

\* What the cloud has of a local operation was committed here.
Pushes ==
    /\ \A k \in 1 .. Len(cloud) : cloud[k].by # Nil => cloud[k].by \in Locals /\ loc[cloud[k].by].st = "committed"
    /\ pushing.at # Nil => /\ pushing.id \in Locals /\ loc[pushing.id].st = "committed" /\ loc[pushing.id].push = "transfer"
                           /\ pushing.at = "ready" => Accepted(pushing.id) # {}

\* Whatever may still be applied to a path, or acknowledged, is not before the n-th change.
LateApps(p, h) == \A i \in DOMAIN app : p \in i.paths /\ app[i].st # "committed" => i.seq >= h
LateRuns(p, h) == \A t \in Clients : p \in thread[t].id.paths => thread[t].id.seq >= h
LatePushes(p, h) ==
    \A k \in 1 .. Len(cloud) : p \in Touches(k) /\ cloud[k].by # Nil /\ loc[cloud[k].by].push # "clean" => k >= h
Late(p, n) == LateApps(p, HeadAt(p, n)) /\ LateRuns(p, HeadAt(p, n)) /\ LatePushes(p, HeadAt(p, n))

Reached(p, n) == head[p].seq >= HeadAt(p, n)
Excused(p, n) == ~head[p].known \/ (head[p].seq = 0 /\ WrittenAt(HeadAt(p, n), p) = Nil)
Purged(p, n) == p \in snap.gone /\ WrittenAt(HeadAt(p, n), p) = Nil

\* No change up to n is skipped: a purged tombstone is, but nothing older is to come.
Covered(p, n) == Reached(p, n) \/ (Excused(p, n) /\ Late(p, n))
SnapCovered(p, n) == Reached(p, n) \/ (Purged(p, n) /\ Late(p, n))

Frontiers ==
    /\ \A n \in {ckpt, cur} : \A p \in CloudPaths : Covered(p, n)
    /\ \A n \in {snap.through} : \A p \in CloudPaths \ snap.left : SnapCovered(p, n)

SyncInv == SyncShape /\ Ids /\ Stages /\ Walks /\ Pushes /\ Frontiers

--------------------
\* The largest of a set of numbers, and what HeadAt is: the last change of a path.
TopOf(s) == IF s = {} THEN 0 ELSE CHOOSE k \in s : \A j \in s : j <= k

LEMMA TopFacts ==
  ASSUME NEW n \in Nat, NEW s \in SUBSET (1 .. n)
  PROVE  TopOf(s) \in 0 .. n /\ (TopOf(s) # 0 => TopOf(s) \in s) /\ \A k \in s : k <= TopOf(s)
<1>1. CASE s = {} BY <1>1 DEF TopOf
<1>2. CASE s # {}
 <2> DEFINE T == {m \in Nat : \E k \in s : m = n - k}
 <2>1. T \in SUBSET Nat /\ T # {}
  <3>1. PICK k \in s : k \in 1 .. n BY <1>2
  <3>2. n - k \in T BY <3>1
  <3> QED BY <3>2
 <2>2. PICK m \in T : \A j \in T : m <= j
  <3> HIDE DEF T
  <3> QED BY <2>1, SmallestExists
 <2>3. PICK k \in s : m = n - k BY <2>2
 <2>4. ASSUME NEW j \in s PROVE j <= k
  <3>1. n - j \in T OBVIOUS
  <3>2. m <= n - j BY <2>2, <3>1
  <3> QED BY <2>3, <3>2
 <2> HIDE DEF T
 <2>5. TopOf(s) \in s /\ \A j \in s : j <= TopOf(s) BY <1>2, <2>3, <2>4 DEF TopOf
 <2>6. TopOf(s) \in 1 .. n BY <2>5
 <2> QED BY <2>5, <2>6
<1> QED BY <1>1, <1>2

LEMMA HeadAtFacts ==
  ASSUME NEW p, NEW n \in Nat
  PROVE  /\ HeadAt(p, n) \in 0 .. n /\ (HeadAt(p, n) # 0 => p \in Touches(HeadAt(p, n)))
         /\ \A k \in 1 .. n : p \in Touches(k) => k <= HeadAt(p, n)
<1> DEFINE s == {k \in 1 .. n : p \in Touches(k)}
<1>1. HeadAt(p, n) = TopOf(s) BY DEF HeadAt, TopOf
<1>2. s \in SUBSET (1 .. n) OBVIOUS
<1> HIDE DEF s
<1>3. TopOf(s) \in 0 .. n /\ (TopOf(s) # 0 => TopOf(s) \in s) /\ \A k \in s : k <= TopOf(s) BY <1>2, TopFacts
<1> QED BY <1>1, <1>3 DEF s

LEMMA HeadAtNext ==
  ASSUME NEW p, NEW n \in Nat
  PROVE  HeadAt(p, n + 1) = IF p \in Touches(n + 1) THEN n + 1 ELSE HeadAt(p, n)
<1>1. /\ HeadAt(p, n + 1) \in 0 .. n + 1 /\ (HeadAt(p, n + 1) # 0 => p \in Touches(HeadAt(p, n + 1)))
      /\ \A k \in 1 .. n + 1 : p \in Touches(k) => k <= HeadAt(p, n + 1) BY HeadAtFacts
<1>2. /\ HeadAt(p, n) \in 0 .. n /\ (HeadAt(p, n) # 0 => p \in Touches(HeadAt(p, n)))
      /\ \A k \in 1 .. n : p \in Touches(k) => k <= HeadAt(p, n) BY HeadAtFacts
<1>3. CASE p \in Touches(n + 1) BY <1>1, <1>3
<1>4. CASE p \notin Touches(n + 1) BY <1>1, <1>2, <1>4
<1> QED BY <1>3, <1>4

\* The cloud only grows, and what it said stays.
Grows == cloud' = cloud \/ \E e : cloud' = Append(cloud, e)

LEMMA CloudKept ==
  ASSUME SyncShape, Grows
  PROVE  /\ Len(cloud) \in Nat /\ Len(cloud') \in Nat /\ Len(cloud') >= Len(cloud)
         /\ \A k \in 1 .. Len(cloud) : /\ cloud'[k] = cloud[k] /\ Touches(k)' = Touches(k)
                                       /\ \A p : WrittenAt(k, p)' = WrittenAt(k, p)
         /\ \A n \in 0 .. Len(cloud) : \A p : HeadAt(p, n)' = HeadAt(p, n)
         /\ \E S : cloud' \in Seq(S)
<1>1. PICK S : cloud \in Seq(S) BY DEF SyncShape
<1>2. /\ Len(cloud) \in Nat /\ Len(cloud') \in Nat /\ Len(cloud') >= Len(cloud)
      /\ \A k \in 1 .. Len(cloud) : cloud'[k] = cloud[k]
      /\ \E Q : cloud' \in Seq(Q)
 <2>1. CASE cloud' = cloud BY <1>1, <2>1
 <2>2. CASE \E e : cloud' = Append(cloud, e)
  <3>1. PICK e : cloud' = Append(cloud, e) BY <2>2
  <3>2. cloud \in Seq(S \cup {e}) /\ e \in S \cup {e} BY <1>1
  <3> QED BY <3>1, <3>2
 <2> QED BY <2>1, <2>2 DEF Grows
<1>3. \A k \in 1 .. Len(cloud) : Touches(k)' = Touches(k) /\ \A p : WrittenAt(k, p)' = WrittenAt(k, p)
  BY <1>2 DEF Touches, WrittenAt
<1>4. ASSUME NEW n \in 0 .. Len(cloud), NEW p PROVE HeadAt(p, n)' = HeadAt(p, n)
 <2>1. HeadAt(p, n) = TopOf({k \in 1 .. n : p \in Touches(k)}) BY DEF HeadAt, TopOf
 <2>2. HeadAt(p, n)' = TopOf({k \in 1 .. n : p \in Touches(k)'}) BY DEF HeadAt, TopOf
 <2>3. {k \in 1 .. n : p \in Touches(k)'} = {k \in 1 .. n : p \in Touches(k)} BY <1>2, <1>3
 <2> QED BY <2>1, <2>2, <2>3
<1> QED BY <1>2, <1>3, <1>4

\* What is late stays late when nothing older is begun, and what was reached stays
\* reached when a head moves to a change of what could still be applied.
Sourced(p, q) ==
    \/ \E i \in DOMAIN app : p \in i.paths /\ app[i].st # "committed" /\ i.seq = q
    \/ \E t \in Clients : p \in thread[t].id.paths /\ thread[t].id.seq = q
    \/ \E k \in 1 .. Len(cloud) : p \in Touches(k) /\ cloud[k].by # Nil /\ loc[cloud[k].by].push # "clean" /\ k = q

AppsFrom == \A i \in DOMAIN app' : app'[i].st # "committed" =>
    \/ i \in DOMAIN app /\ app[i].st # "committed"
    \/ \E t \in Clients : thread[t].id = i
ThreadsFrom == \A t \in Clients : thread'[t].id \in {thread[t].id, NoId}
LocsFrom == \A o \in Locals : loc[o].st = "committed" =>
    loc'[o].st = "committed" /\ (loc[o].push = "clean" => loc'[o].push = "clean")
HeadsFrom == \A p \in CloudPaths :
    head'[p] = head[p] \/ (head'[p].seq >= head[p].seq /\ Sourced(p, head'[p].seq))

LEMMA LateKeeps ==
  ASSUME SyncShape, SyncShape', Grows, Pushes, AppsFrom, LocsFrom, NEW p \in CloudPaths, NEW n \in 0 .. Len(cloud), Late(p, n),
         \A t \in Clients : p \in thread'[t].id.paths => thread'[t].id.seq >= HeadAt(p, n)
  PROVE  Late(p, n)'
<1> DEFINE h == HeadAt(p, n)
<1>0. /\ Len(cloud) \in Nat /\ Len(cloud') \in Nat /\ Len(cloud') >= Len(cloud)
      /\ \A k \in 1 .. Len(cloud) : cloud'[k] = cloud[k] /\ Touches(k)' = Touches(k)
      /\ HeadAt(p, n)' = h /\ h \in 0 .. n BY CloudKept, HeadAtFacts
<1>1. LateApps(p, h) /\ LateRuns(p, h) /\ LatePushes(p, h) BY DEF Late
<1>2. ASSUME NEW i \in DOMAIN app', p \in i.paths, app'[i].st # "committed" PROVE i.seq >= h
 <2>1. CASE i \in DOMAIN app /\ app[i].st # "committed" BY <1>1, <1>2, <2>1 DEF LateApps
 <2>2. CASE \E t \in Clients : thread[t].id = i BY <1>1, <1>2, <2>2 DEF LateRuns
 <2> QED BY <1>2, <2>1, <2>2 DEF AppsFrom
<1>3. ASSUME NEW k \in 1 .. Len(cloud'), p \in Touches(k)', cloud'[k].by # Nil, loc'[cloud'[k].by].push # "clean"
      PROVE  k >= h
 <2>1. CASE k \in 1 .. Len(cloud)
  <3>1. cloud[k].by # Nil /\ p \in Touches(k) /\ loc'[cloud[k].by].push # "clean" BY <1>0, <1>3, <2>1
  <3>2. loc[cloud[k].by].push # "clean" BY <2>1, <3>1 DEF Pushes, LocsFrom
  <3> QED BY <1>1, <2>1, <3>1, <3>2 DEF LatePushes
 <2>2. CASE k \notin 1 .. Len(cloud) BY <1>0, <2>2
 <2> QED BY <2>1, <2>2
<1> HIDE DEF h
<1>4. LateApps(p, h)' BY <1>0, <1>2 DEF LateApps, h
<1>5. LateRuns(p, h)' /\ LatePushes(p, h)' BY <1>0, <1>3 DEF LateRuns, LatePushes, h
<1> QED BY <1>0, <1>4, <1>5 DEF Late, h

LEMMA CoveredKeeps ==
  ASSUME SyncShape, SyncShape', Grows, Pushes, AppsFrom, LocsFrom, HeadsFrom, NEW p \in CloudPaths, NEW n \in 0 .. Len(cloud),
         Late(p, n) => \A t \in Clients : p \in thread'[t].id.paths => thread'[t].id.seq >= HeadAt(p, n)
  PROVE  /\ Reached(p, n) => Reached(p, n)'
         /\ Covered(p, n) => Covered(p, n)'
         /\ SnapCovered(p, n) /\ snap'.gone = snap.gone => SnapCovered(p, n)'
<1>0. /\ Len(cloud) \in Nat /\ HeadAt(p, n)' = HeadAt(p, n) /\ HeadAt(p, n) \in 0 .. n
      /\ HeadAt(p, n) # 0 => WrittenAt(HeadAt(p, n), p)' = WrittenAt(HeadAt(p, n), p)
      /\ head[p].seq \in 0 .. Len(cloud) /\ head'[p].seq \in 0 .. Len(cloud')
 <2>1. HeadAt(p, n) \in 0 .. n /\ HeadAt(p, n)' = HeadAt(p, n) /\ Len(cloud) \in Nat BY CloudKept, HeadAtFacts
 <2>2. ASSUME HeadAt(p, n) # 0 PROVE WrittenAt(HeadAt(p, n), p)' = WrittenAt(HeadAt(p, n), p)
  <3>1. HeadAt(p, n) \in 1 .. Len(cloud) BY <2>1, <2>2
  <3>2. \A k \in 1 .. Len(cloud) : cloud'[k] = cloud[k] BY CloudKept
  <3>3. cloud'[HeadAt(p, n)] = cloud[HeadAt(p, n)] BY <3>1, <3>2
  <3> QED BY <2>1, <3>3 DEF WrittenAt
 <2> QED BY <2>1, <2>2 DEF SyncShape
<1>1. Late(p, n) => Late(p, n)' BY LateKeeps
<1>2. Reached(p, n) => Reached(p, n)' BY <1>0 DEF Reached, HeadsFrom, SyncShape
<1>3. ASSUME Late(p, n), head'[p] # head[p] PROVE Reached(p, n)'
 <2>1. Sourced(p, head'[p].seq) BY <1>3 DEF HeadsFrom
 <2>2. head'[p].seq >= HeadAt(p, n) BY <1>3, <2>1 DEF Late, LateApps, LateRuns, LatePushes, Sourced
 <2> QED BY <1>0, <2>2 DEF Reached
<1>4. ASSUME ~Reached(p, n), head'[p] = head[p] PROVE (Excused(p, n) => Excused(p, n)') /\ (Purged(p, n) /\ snap'.gone = snap.gone => Purged(p, n)')
 <2>1. HeadAt(p, n) # 0 BY <1>0, <1>4 DEF Reached
 <2> QED BY <1>0, <1>4, <2>1 DEF Excused, Purged
<1> QED BY <1>1, <1>2, <1>3, <1>4 DEF Covered, SnapCovered

\* A step that moves no frontier and begins nothing.
LEMMA FrontiersKeep ==
  ASSUME SyncInv, SyncShape', Grows, AppsFrom, ThreadsFrom, LocsFrom, HeadsFrom,
         {ckpt', cur'} \subseteq {ckpt, cur, 0}, snap' = snap
  PROVE  Frontiers'
<1>0. SyncShape /\ Pushes /\ Walks /\ Frontiers /\ Len(cloud) \in Nat BY CloudKept DEF SyncInv
<1>1. ASSUME NEW p \in CloudPaths, NEW n \in 0 .. Len(cloud), Late(p, n)
      PROVE  \A t \in Clients : p \in thread'[t].id.paths => thread'[t].id.seq >= HeadAt(p, n)
  BY <1>1 DEF Late, LateRuns, ThreadsFrom, NoId
<1>2. ASSUME NEW p \in CloudPaths, NEW n \in 0 .. Len(cloud)
      PROVE  (Covered(p, n) => Covered(p, n)') /\ (SnapCovered(p, n) => SnapCovered(p, n)')
  BY <1>0, <1>1, CoveredKeeps
<1>3. ASSUME NEW p \in CloudPaths PROVE Covered(p, 0)'
 <2>1. HeadAt(p, 0)' = 0
  <3>1. HeadAt(p, 0) \in 0 .. 0 /\ HeadAt(p, 0)' = HeadAt(p, 0) BY <1>0, CloudKept, HeadAtFacts
  <3> QED BY <3>1
 <2>2. head'[p].seq \in Nat BY <1>0 DEF SyncShape
 <2> QED BY <2>1, <2>2 DEF Covered, Reached
<1>4. ASSUME NEW n \in {ckpt', cur'}, NEW p \in CloudPaths PROVE Covered(p, n)'
 <2>1. n \in {ckpt, cur, 0} /\ ckpt \in 0 .. Len(cloud) /\ cur \in 0 .. Len(cloud) BY <1>0 DEF Walks
 <2>2. CASE n \in {ckpt, cur}
  <3>1. Covered(p, n) /\ n \in 0 .. Len(cloud) BY <1>0, <2>1, <2>2 DEF Frontiers
  <3> QED BY <1>2, <3>1
 <2> QED BY <1>3, <2>1, <2>2
<1>5. ASSUME NEW n \in {snap'.through}, NEW p \in CloudPaths \ snap'.left PROVE SnapCovered(p, n)'
 <2>1. SnapCovered(p, n) /\ n \in 0 .. Len(cloud) BY <1>0 DEF Frontiers, Walks
 <2> QED BY <1>2, <2>1
<1> QED BY <1>4, <1>5 DEF Frontiers

\* A step of another writer or of a push: applications, the walk and its frontiers stay.
LEMMA QuietKeeps ==
  ASSUME SyncInv, SyncShape', Pushes', Grows, LocsFrom, HeadsFrom, UNCHANGED <<app, thread, held, walk, syncMode>>,
         held = Nil \/ head' = head, syncMode = "up" \/ pushing' = pushing
  PROVE  SyncInv'
<1>0. SyncShape /\ Ids /\ Stages /\ Walks BY DEF SyncInv
<1>1. AppsFrom /\ ThreadsFrom BY DEF AppsFrom, ThreadsFrom
<1>2. /\ Len(cloud) \in Nat /\ Len(cloud') >= Len(cloud) /\ Len(cloud') \in Nat
      /\ \A k \in 1 .. Len(cloud) : Touches(k)' = Touches(k)
      /\ \A n \in 0 .. Len(cloud) : \A p : HeadAt(p, n)' = HeadAt(p, n) BY <1>0, CloudKept
<1>3. Frontiers'
 <2>1. {ckpt', cur'} \subseteq {ckpt, cur, 0} /\ snap' = snap BY DEF walk
 <2> QED BY <1>1, <2>1, FrontiersKeep
<1>4. Ids'
 <2>1. ASSUME NEW id, IdHolds(id) PROVE IdHolds(id)' BY <1>2, <2>1 DEF IdHolds
 <2> QED BY <1>0, <2>1 DEF Ids
<1>5. Stages' BY <1>0 DEF Stages, StageAt, Nil, Clients
<1>6. Walks'
 <2>1. thread' = thread /\ ckpt' = ckpt /\ cur' = cur /\ thru' = thru /\ snap' = snap BY DEF walk
 <2>2. \A p \in snap.left : HeadAt(p, snap.through)' = HeadAt(p, snap.through) BY <1>0, <1>2, <2>1 DEF Walks
 <2>3. cur < thru => Touches(cur + 1)' = Touches(cur + 1) BY <1>0, <1>2, <2>1 DEF Walks
 <2> QED BY <1>0, <1>2, <2>1, <2>2, <2>3 DEF Walks
<1> QED BY <1>3, <1>4, <1>5, <1>6 DEF SyncInv

\* The cloud gets one change more.
LEMMA CloudGrows ==
  ASSUME SyncShape, NEW e, cloud' = Append(cloud, e),
         e.from \in CloudPaths \cup {Nil}, e.to \in CloudPaths \cup {Nil}, e.from = Nil => e.to # Nil
  PROVE  /\ \E S : cloud' \in Seq(S)
         /\ Len(cloud) \in Nat /\ Len(cloud') = Len(cloud) + 1 /\ cloud'[Len(cloud) + 1] = e
         /\ \A k \in 1 .. Len(cloud) : cloud'[k] = cloud[k]
         /\ \A k \in 1 .. Len(cloud') : /\ cloud'[k].from \in CloudPaths \cup {Nil} /\ cloud'[k].to \in CloudPaths \cup {Nil}
                                        /\ cloud'[k].from = Nil => cloud'[k].to # Nil
<1>1. PICK S : cloud \in Seq(S) BY DEF SyncShape
<1>2. cloud \in Seq(S \cup {e}) /\ e \in S \cup {e} BY <1>1
<1>3. /\ cloud' \in Seq(S \cup {e}) /\ Len(cloud) \in Nat /\ Len(cloud') = Len(cloud) + 1
      /\ cloud'[Len(cloud) + 1] = e /\ \A k \in 1 .. Len(cloud) : cloud'[k] = cloud[k] BY <1>2
<1> QED BY <1>3 DEF SyncShape

LEMMA CloudChangeKeeps ==
  ASSUME SyncInv, CloudChange
  PROVE  SyncInv'
<1>0. SyncShape /\ Pushes /\ Len(cloud) \in Nat /\ UNCHANGED <<loc, head, app, thread, held, pushing, walk, syncMode>>
  BY CloudKept DEF SyncInv, CloudChange, local
<1>1. PICK e : /\ cloud' = Append(cloud, e) /\ e.by = Nil
               /\ e.from \in CloudPaths \cup {Nil} /\ e.to \in CloudPaths \cup {Nil} /\ (e.from = Nil => e.to # Nil)
 <2>1. PICK p \in CloudPaths, f \in CloudPaths \cup {Nil}, q \in CloudPaths \cup {Nil} :
         (\E v : cloud' = Append(cloud, [from |-> f, to |-> q, v |-> v, by |-> Nil])) /\ p \in {f, q}
  <3>1. CASE \E p \in CloudPaths, v \in Remotes : cloud' = Append(cloud, [from |-> Nil, to |-> p, v |-> v, by |-> Nil])
    BY <3>1
  <3>2. CASE \E p \in CloudPaths, q \in CloudPaths \cup {Nil} : \E v :
               cloud' = Append(cloud, [from |-> p, to |-> q, v |-> v, by |-> Nil]) BY <3>2
  <3> QED BY <3>1, <3>2 DEF CloudChange
 <2>2. PICK v : cloud' = Append(cloud, [from |-> f, to |-> q, v |-> v, by |-> Nil]) BY <2>1
 <2>3. p # Nil BY SyncAssumption DEF Nil
 <2> DEFINE e == [from |-> f, to |-> q, v |-> v, by |-> Nil]
 <2>4. e.from = f /\ e.to = q /\ e.by = Nil OBVIOUS
 <2>5. f = Nil => q # Nil BY <2>1, <2>3
 <2>6. cloud' = Append(cloud, e) BY <2>2
 <2> HIDE DEF e
 <2> QED BY <2>4, <2>5, <2>6
<1>2. /\ \E S : cloud' \in Seq(S)
      /\ Len(cloud) \in Nat /\ Len(cloud') = Len(cloud) + 1 /\ cloud'[Len(cloud) + 1] = e
      /\ \A k \in 1 .. Len(cloud) : cloud'[k] = cloud[k]
      /\ \A k \in 1 .. Len(cloud') : /\ cloud'[k].from \in CloudPaths \cup {Nil} /\ cloud'[k].to \in CloudPaths \cup {Nil}
                                     /\ cloud'[k].from = Nil => cloud'[k].to # Nil BY <1>0, <1>1, CloudGrows
<1>3. SyncShape' /\ Grows BY <1>0, <1>1, <1>2 DEF SyncShape, Grows, walk
<1>4. Pushes'
 <2>1. \A o : Accepted(o) \subseteq Accepted(o)' BY <1>2 DEF Accepted
 <2> QED BY <1>0, <1>1, <1>2, <2>1 DEF Pushes
<1>5. LocsFrom /\ HeadsFrom BY <1>0 DEF LocsFrom, HeadsFrom
<1> QED BY <1>0, <1>3, <1>4, <1>5, QuietKeeps

LEMMA OthersKeep ==
  ASSUME SyncInv, ProgramWrites \/ LosePush
  PROVE  SyncInv'
<1>0. /\ SyncShape /\ Pushes /\ UNCHANGED <<cloud, loc, head, app, thread, held, walk, syncMode>>
      /\ pushing' \in {pushing, NoPush} /\ (syncMode = "up" \/ pushing' = pushing)
  BY DEF SyncInv, ProgramWrites, LosePush, local, SyncUp
<1>1. SyncShape' /\ Grows /\ LocsFrom /\ HeadsFrom BY <1>0 DEF SyncShape, Grows, LocsFrom, HeadsFrom, walk, NoPush
<1>2. Pushes' BY <1>0 DEF Pushes, NoPush, Accepted
<1> QED BY <1>0, <1>1, <1>2, QuietKeeps

LEMMA LocalKeeps ==
  ASSUME SyncInv, NEW o \in Locals, LocalAccept(o) \/ LocalCommit(o)
  PROVE  SyncInv'
<1>0. SyncShape /\ Pushes /\ UNCHANGED <<cloud, head, app, thread, held, pushing, walk, syncMode>>
  BY DEF SyncInv, LocalAccept, LocalCommit, syncBudget
<1>1. /\ loc[o].st # "committed" /\ DOMAIN loc' = Locals
      /\ \A x \in Locals : x # o => loc'[x] = loc[x]
      /\ {"kind", "from", "to", "st", "push"} \subseteq DOMAIN loc'[o]
      /\ loc'[o].from \in CloudPaths \cup {Nil} /\ loc'[o].to \in CloudPaths \cup {Nil}
      /\ (loc'[o].kind = "upload" => loc'[o].to # Nil) /\ (loc'[o].kind \in {"delete", "move"} => loc'[o].from # Nil)
      /\ loc'[o].st # Nil /\ loc'[o].kind \in {"upload", "delete", "move"}
 <2>1. CASE LocalAccept(o)
  <3>0. \E k \in {"upload", "delete", "move"}, p \in CloudPaths, q \in CloudPaths \cup {Nil} :
           (k = "upload" => q = p) /\ loc' = [loc EXCEPT ![o] = LocalEntry(k, p, q)] BY <2>1 DEF LocalAccept
  <3>5. \A k, p, q : /\ DOMAIN LocalEntry(k, p, q) = {"kind", "from", "to", "st", "obs", "push", "base"}
                     /\ LocalEntry(k, p, q).kind = k /\ LocalEntry(k, p, q).from = p /\ LocalEntry(k, p, q).to = q
                     /\ LocalEntry(k, p, q).st = "accepted" BY DEF LocalEntry
  <3>1. PICK k \in {"upload", "delete", "move"}, p \in CloudPaths, q \in CloudPaths \cup {Nil} :
          (k = "upload" => q = p) /\ loc' = [loc EXCEPT ![o] = LocalEntry(k, p, q)] BY <3>0
  <3>2. p # Nil BY SyncAssumption DEF Nil
  <3>3. loc[o].st = Nil BY <2>1 DEF LocalAccept
  <3> QED BY <1>0, <3>1, <3>2, <3>3, <3>5 DEF SyncShape, Nil
 <2>2. CASE LocalCommit(o) BY <1>0, <2>2 DEF LocalCommit, SyncShape, Nil
 <2> QED BY <2>1, <2>2
<1>2. SyncShape' BY <1>0, <1>1 DEF SyncShape, walk
<1>3. Pushes' /\ Grows /\ LocsFrom /\ HeadsFrom BY <1>0, <1>1 DEF Pushes, Grows, LocsFrom, HeadsFrom, Accepted
<1> QED BY <1>0, <1>2, <1>3, QuietKeeps

LEMMA PushKeeps ==
  ASSUME SyncInv, (\E o \in Locals : BeginPush(o)) \/ PushConflict
  PROVE  SyncInv'
<1>0. SyncShape /\ Pushes /\ UNCHANGED <<cloud, head, app, thread, held, walk, syncMode>> /\ syncMode = "up"
  BY DEF SyncInv, BeginPush, PushConflict, syncBudget, LockFree, SyncUp
<1>1. PICK o \in Locals, w \in {"transfer", "conflict"} :
        /\ loc' = [loc EXCEPT ![o].push = w] /\ loc[o].st = "committed" /\ loc[o].push # "clean"
        /\ (pushing' = pushing /\ pushing.at = Nil) \/ pushing' = NoPush
           \/ (w = "transfer" /\ pushing' = [id |-> o, at |-> "send"])
 <2>1. CASE \E o \in Locals : BeginPush(o) BY <2>1 DEF BeginPush, Pushable, Idle, Nil
 <2>2. CASE PushConflict
  <3>1. pushing.id \in Locals /\ loc[pushing.id].st = "committed" /\ loc[pushing.id].push = "transfer"
    BY <1>0, <2>2 DEF PushConflict, Pushes, Nil
  <3> QED BY <2>2, <3>1 DEF PushConflict
 <2> QED BY <2>1, <2>2
<1>2. /\ DOMAIN loc' = Locals /\ \A x \in Locals \ {o} : loc'[x] = loc[x]
      /\ loc'[o] = [loc[o] EXCEPT !.push = w] /\ "push" \in DOMAIN loc[o] BY <1>0, <1>1 DEF SyncShape
<1>3. SyncShape' BY <1>0, <1>1, <1>2 DEF SyncShape, walk, NoPush
<1>4. Pushes' /\ Grows /\ LocsFrom /\ HeadsFrom
  BY <1>0, <1>1, <1>2 DEF Pushes, Grows, LocsFrom, HeadsFrom, Accepted, NoPush, Nil
<1> QED BY <1>0, <1>3, <1>4, QuietKeeps

LEMMA SendKeeps ==
  ASSUME SyncInv, SendPush
  PROVE  SyncInv'
<1> DEFINE o == pushing.id
<1>0. /\ SyncShape /\ Pushes /\ UNCHANGED <<loc, head, app, thread, held, walk, syncMode>> /\ syncMode = "up"
      /\ o \in Locals /\ loc[o].st = "committed" /\ loc[o].push = "transfer" /\ {"id", "at"} \subseteq DOMAIN pushing
  BY DEF SyncInv, SendPush, SyncUp, local, syncBudget, Pushes, SyncShape, Nil
<1>1. LocsFrom /\ HeadsFrom BY <1>0 DEF LocsFrom, HeadsFrom
<1>2. CASE cloud' = cloud
 <2>1. pushing' \in {[pushing EXCEPT !.at = "ready"], [pushing EXCEPT !.at = "conflict"]} BY DEF SendPush
 <2>2. /\ {"id", "at"} \subseteq DOMAIN pushing' /\ pushing'.id = o
       /\ pushing'.at = "ready" => Accepted(o) # {}
  <3>1. CASE Accepted(o) # {} BY <1>0, <2>1, <3>1
  <3>2. CASE Accepted(o) = {}
   <4>1. Len(cloud) \in Nat BY <1>0 DEF SyncShape
   <4>2. pushing'.at = "conflict" \/ \E e : cloud' = Append(cloud, e) BY <1>0, <3>2 DEF SendPush
   <4>3. \A e : cloud # Append(cloud, e)
    <5>1. PICK S : cloud \in Seq(S) BY <1>0 DEF SyncShape
    <5>2. ASSUME NEW e PROVE Len(Append(cloud, e)) = Len(cloud) + 1
     <6>1. cloud \in Seq(S \cup {e}) /\ e \in S \cup {e} BY <5>1
     <6> QED BY <6>1
    <5> QED BY <4>1, <5>2
   <4> QED BY <1>0, <1>2, <2>1, <4>2, <4>3
  <3> QED BY <3>1, <3>2
 <2>3. SyncShape' /\ Grows BY <1>0, <1>2, <2>2 DEF SyncShape, Grows, walk
 <2>4. Pushes' BY <1>0, <1>2, <2>2 DEF Pushes, Accepted
 <2> QED BY <1>0, <1>1, <2>3, <2>4, QuietKeeps
<1>3. CASE cloud' # cloud
 <2> DEFINE e == [from |-> IF loc[o].kind = "upload" THEN Nil ELSE loc[o].from, to |-> loc[o].to, v |-> NowAt(o), by |-> o]
 <2>1. cloud' = Append(cloud, e) /\ pushing' = [pushing EXCEPT !.at = "ready"] BY <1>3 DEF SendPush
 <2>2. /\ e.from \in CloudPaths \cup {Nil} /\ e.to \in CloudPaths \cup {Nil} /\ e.by = o
       /\ e.from = Nil => e.to # Nil BY <1>0 DEF SyncShape, Nil
 <2> HIDE DEF e
 <2>3. /\ \E S : cloud' \in Seq(S)
       /\ Len(cloud) \in Nat /\ Len(cloud') = Len(cloud) + 1 /\ cloud'[Len(cloud) + 1] = e
       /\ \A k \in 1 .. Len(cloud) : cloud'[k] = cloud[k]
       /\ \A k \in 1 .. Len(cloud') : /\ cloud'[k].from \in CloudPaths \cup {Nil} /\ cloud'[k].to \in CloudPaths \cup {Nil}
                                      /\ cloud'[k].from = Nil => cloud'[k].to # Nil BY <1>0, <2>1, <2>2, CloudGrows
 <2>4. /\ {"id", "at"} \subseteq DOMAIN pushing' /\ pushing'.id = o BY <1>0, <2>1
 <2>5. SyncShape' /\ Grows BY <1>0, <2>1, <2>3, <2>4 DEF SyncShape, Grows, walk
 <2>6. Len(cloud) + 1 \in Accepted(o)' BY <2>2, <2>3, <2>4 DEF Accepted
 <2>7. Pushes' BY <1>0, <2>2, <2>3, <2>4, <2>6 DEF Pushes
 <2> QED BY <1>0, <1>1, <2>5, <2>7, QuietKeeps
<1> QED BY <1>2, <1>3

LEMMA AcknowledgeKeeps ==
  ASSUME SyncInv, RecordAcknowledgement
  PROVE  SyncInv'
<1> DEFINE o == pushing.id
           n == CHOOSE k \in Accepted(o) : TRUE
<1>0. /\ SyncShape /\ Pushes /\ UNCHANGED <<cloud, app, thread, held, walk, syncMode>> /\ syncMode = "up" /\ held = Nil
      /\ o \in Locals /\ loc[o].st = "committed" /\ loc[o].push = "transfer" /\ Accepted(o) # {}
      /\ pushing' = NoPush /\ loc' = [loc EXCEPT ![o].push = "clean"]
      /\ head' = [p \in CloudPaths |-> IF p \in Touches(n) THEN AcknowledgedHead(o, n, p) ELSE head[p]]
  BY DEF SyncInv, RecordAcknowledgement, LockFree, SyncUp, syncBudget, Pushes, Nil
<1>1. n \in 1 .. Len(cloud) /\ cloud[n].by = o BY <1>0 DEF Accepted
<1>2. /\ DOMAIN loc' = Locals /\ \A x \in Locals \ {o} : loc'[x] = loc[x]
      /\ loc'[o] = [loc[o] EXCEPT !.push = "clean"] /\ "push" \in DOMAIN loc[o] BY <1>0 DEF SyncShape
<1> HIDE DEF n, o
<1>3. ASSUME NEW p \in CloudPaths, head'[p] # head[p]
      PROVE  p \in Touches(n) /\ head'[p].seq = n /\ head[p].seq <= n /\ {"seq", "known"} \subseteq DOMAIN head'[p]
 <2>1. p \in Touches(n) /\ head'[p] = AcknowledgedHead(o, n, p) BY <1>0, <1>3
 <2>2. ~(head[p].seq > n) BY <1>3, <2>1 DEF AcknowledgedHead
 <2>3. \E x : head'[p] = [seq |-> n, known |-> TRUE, obs |-> x] BY <2>1, <2>2 DEF AcknowledgedHead
 <2>4. head[p].seq \in Nat /\ n \in Nat BY <1>0, <1>1 DEF SyncShape
 <2> QED BY <2>1, <2>2, <2>3, <2>4
<1>4. HeadsFrom
 <2>1. ASSUME NEW p \in CloudPaths, head'[p] # head[p] PROVE Sourced(p, n)
  <3>1. o # Nil BY <1>0, SyncAssumption DEF Nil
  <3> QED BY <1>0, <1>1, <1>3, <2>1, <3>1 DEF Sourced
 <2> QED BY <1>3, <2>1 DEF HeadsFrom
<1>5. SyncShape'
 <2>1. \A p \in CloudPaths : {"seq", "known"} \subseteq DOMAIN head'[p] /\ head'[p].seq \in 0 .. Len(cloud')
   BY <1>0, <1>1, <1>3 DEF SyncShape
 <2>2. DOMAIN head' = CloudPaths BY <1>0
 <2> QED BY <1>0, <1>2, <2>1, <2>2 DEF SyncShape, NoPush, walk
<1>6. Pushes' /\ Grows /\ LocsFrom BY <1>0, <1>2 DEF Pushes, NoPush, Nil, Grows, LocsFrom
<1> QED BY <1>0, <1>4, <1>5, <1>6, QuietKeeps

\* Crash, recovery and restart.
LEMMA SameCloud ==
  ASSUME cloud' = cloud
  PROVE  /\ \A id : IdHolds(id)' = IdHolds(id)
         /\ \A p, n : HeadAt(p, n)' = HeadAt(p, n)
         /\ \A k : Touches(k)' = Touches(k) /\ \A p : WrittenAt(k, p)' = WrittenAt(k, p)
         /\ \A o : Accepted(o)' = Accepted(o) BY DEF IdHolds, HeadAt, Touches, WrittenAt, Accepted

LEMMA SyncCrashKeeps ==
  ASSUME SyncInv, SyncCrash
  PROVE  SyncInv'
<1>0. /\ SyncShape /\ Ids /\ Stages /\ Walks /\ Pushes /\ UNCHANGED <<cloud, head, app, ckpt, snap>>
      /\ thread' = [t \in Clients |-> NoRun] /\ pushing' = NoPush /\ cur' = ckpt /\ thru' = 0 /\ syncMode' = "recover"
      /\ loc' = [o \in Locals |-> IF loc[o].st = "accepted" THEN [loc[o] EXCEPT !.st = "failed"] ELSE loc[o]]
  BY DEF SyncInv, SyncCrash
<1>1. \A o \in Locals : /\ {"kind", "from", "to", "st", "push"} \subseteq DOMAIN loc'[o]
                        /\ loc'[o].kind = loc[o].kind /\ loc'[o].from = loc[o].from /\ loc'[o].to = loc[o].to
                        /\ loc'[o].st = IF loc[o].st = "accepted" THEN "failed" ELSE loc[o].st
                        /\ loc'[o].push = loc[o].push BY <1>0 DEF SyncShape
<1>2. SyncShape' /\ LocsFrom /\ HeadsFrom /\ Grows
  BY <1>0, <1>1 DEF SyncShape, LocsFrom, HeadsFrom, Grows, NoPush, NoRun, Nil
<1>3. AppsFrom /\ ThreadsFrom BY <1>0 DEF AppsFrom, ThreadsFrom, NoRun
<1>4. Frontiers' BY <1>0, <1>2, <1>3, FrontiersKeep
<1>5. Ids' /\ Stages' /\ Pushes'
 <2>1. \A id : IdHolds(id)' = IdHolds(id) BY <1>0, SameCloud
 <2> QED BY <1>0, <1>1, <2>1 DEF Ids, Stages, StageAt, Pushes, NoRun, NoPush, Nil, Clients
<1>6. Walks'
 <2>1. \A p, n : HeadAt(p, n)' = HeadAt(p, n) BY <1>0, SameCloud
 <2> QED BY <1>0, <2>1 DEF Walks, NoRun, Nil, Clients, SyncShape
<1> QED BY <1>2, <1>4, <1>5, <1>6 DEF SyncInv

LEMMA RecoverKeeps ==
  ASSUME SyncInv, NEW id \in DOMAIN app, Recover(id)
  PROVE  SyncInv'
<1>0. /\ SyncShape /\ Ids /\ Stages /\ Walks /\ Pushes
      /\ UNCHANGED <<cloud, loc, thread, held, pushing, walk, syncMode>>
      /\ syncMode # "up" /\ app[id].st # "committed" /\ \A p \in id.paths : head[p].seq <= id.seq
  BY DEF SyncInv, Recover, EffectProved, syncBudget
<1>1. /\ app' = [app EXCEPT ![id].st = "committed"]
      /\ head' = [p \in CloudPaths |->
           IF p \in id.paths THEN [seq |-> id.seq, obs |-> cloudFile[p], known |-> TRUE] ELSE head[p]]
  BY DEF Recover, Committed
<1>2. /\ \A i : IdHolds(i)' = IdHolds(i)
      /\ \A p, n : HeadAt(p, n)' = HeadAt(p, n)
      /\ \A k : Touches(k)' = Touches(k)
      /\ \A o : Accepted(o)' = Accepted(o) BY <1>0, SameCloud
<1>3. IdHolds(id) BY <1>0 DEF Ids
<1>4. /\ DOMAIN app' = DOMAIN app /\ app'[id] = [app[id] EXCEPT !.st = "committed"] /\ "st" \in DOMAIN app[id]
      /\ \A i \in DOMAIN app : i # id => app'[i] = app[i] BY <1>0, <1>1 DEF SyncShape
<1>5. SyncShape'
 <2>1. \A p \in CloudPaths : {"seq", "known"} \subseteq DOMAIN head'[p] /\ head'[p].seq \in 0 .. Len(cloud')
   BY <1>0, <1>1, <1>3 DEF SyncShape, IdHolds
 <2>2. DOMAIN head' = CloudPaths /\ \A i \in DOMAIN app' : "st" \in DOMAIN app'[i] BY <1>0, <1>1, <1>4 DEF SyncShape
 <2> QED BY <1>0, <2>1, <2>2 DEF SyncShape, walk
<1>6. AppsFrom /\ ThreadsFrom /\ LocsFrom /\ Grows BY <1>0, <1>4 DEF AppsFrom, ThreadsFrom, LocsFrom, Grows
<1>7. HeadsFrom BY <1>0, <1>1 DEF HeadsFrom, Sourced
<1>8. Frontiers'
 <2>1. {ckpt', cur'} \subseteq {ckpt, cur, 0} /\ snap' = snap BY <1>0 DEF walk
 <2> QED BY <1>5, <1>6, <1>7, <2>1, FrontiersKeep
<1>9. Ids' /\ Stages' /\ Pushes' BY <1>0, <1>2, <1>4 DEF Ids, Stages, StageAt, Pushes, Nil, Clients
<1>10. Walks' BY <1>0, <1>2 DEF Walks, walk, Nil
<1> QED BY <1>5, <1>8, <1>9, <1>10 DEF SyncInv

\* A step of the walk alone.
LEMMA WalkKeeps ==
  ASSUME SyncInv, SyncShape', Walks', Frontiers', UNCHANGED <<cloud, loc, app, thread, held, pushing>>,
         syncMode' \in {syncMode, "up"}, \A p \in CloudPaths : head'[p].seq = head[p].seq
  PROVE  SyncInv'
<1>0. SyncShape /\ Ids /\ Stages /\ Pushes BY DEF SyncInv
<1>1. /\ \A i : IdHolds(i)' = IdHolds(i)
      /\ \A o : Accepted(o)' = Accepted(o) BY SameCloud
<1>2. Ids' /\ Pushes' BY <1>0, <1>1 DEF Ids, Pushes
<1>3. ASSUME NEW t \in Clients PROVE StageAt(t)'
 <2>1. StageAt(t) BY <1>0 DEF Stages
 <2>2. thread[t].at # Nil => thread[t].id.paths \subseteq CloudPaths BY <1>0 DEF Ids, IdHolds
 <2> QED BY <2>1, <2>2 DEF StageAt, Nil
<1>4. Stages' BY <1>0, <1>3 DEF Stages
<1> QED BY <1>2, <1>4 DEF SyncInv

LEMMA ReadyKeeps ==
  ASSUME SyncInv, SyncReady
  PROVE  SyncInv'
<1>0. /\ SyncShape /\ Walks /\ UNCHANGED <<cloud, loc, head, app, thread, held, pushing, walk>> /\ syncMode' = "up"
  BY DEF SyncInv, SyncReady, local
<1>1. SyncShape' /\ Grows /\ AppsFrom /\ ThreadsFrom /\ LocsFrom /\ HeadsFrom
  BY <1>0 DEF SyncShape, Grows, AppsFrom, ThreadsFrom, LocsFrom, HeadsFrom, walk
<1>2. Frontiers'
 <2>1. {ckpt', cur'} \subseteq {ckpt, cur, 0} /\ snap' = snap BY <1>0 DEF walk
 <2> QED BY <1>1, <2>1, FrontiersKeep
<1>3. Walks'
 <2>1. (\A p, n : HeadAt(p, n)' = HeadAt(p, n)) /\ (\A k : Touches(k)' = Touches(k)) BY <1>0, SameCloud
 <2> QED BY <1>0, <2>1 DEF Walks, walk
<1> QED BY <1>0, <1>1, <1>2, <1>3, WalkKeeps

LEMMA HeadAtGrows ==
  ASSUME NEW p, NEW n \in Nat, NEW m \in 0 .. n
  PROVE  HeadAt(p, m) <= HeadAt(p, n)
<1>1. /\ HeadAt(p, m) \in 0 .. m /\ (HeadAt(p, m) # 0 => p \in Touches(HeadAt(p, m)))
      /\ HeadAt(p, n) \in 0 .. n /\ \A k \in 1 .. n : p \in Touches(k) => k <= HeadAt(p, n) BY HeadAtFacts
<1> QED BY <1>1

\* The walk begins and ends, and starts over.
LEMMA PagesKeep ==
  ASSUME SyncInv, ReadChanges \/ SaveCheckpoint \/ (CursorExpires /\ ckpt # 0)
  PROVE  SyncInv'
<1>0. /\ SyncShape /\ Walks /\ Frontiers /\ UNCHANGED <<cloud, loc, head, app, thread, held, pushing, snap, syncMode>>
      /\ thread["worker"].at = Nil /\ Len(cloud) \in Nat
  BY CloudKept DEF SyncInv, ReadChanges, SaveCheckpoint, CursorExpires, Idle, local, syncBudget
<1>1. SyncShape' /\ Grows /\ AppsFrom /\ ThreadsFrom /\ LocsFrom /\ HeadsFrom
  BY <1>0 DEF SyncShape, Grows, AppsFrom, ThreadsFrom, LocsFrom, HeadsFrom
<1>2. /\ ckpt' \in {ckpt, cur, 0} /\ cur' \in {ckpt, cur, 0} /\ ckpt' = cur' /\ thru' \in 0 .. Len(cloud)
      /\ thru' # 0 => ckpt' # 0 /\ thru' = Len(cloud)
      /\ ckpt' # 0 => ckpt # 0
 <2>1. CASE ReadChanges BY <1>0, <2>1 DEF ReadChanges, Walks
 <2>2. CASE SaveCheckpoint BY <1>0, <2>2 DEF SaveCheckpoint, Walks, NextOfWalk
 <2>3. CASE CursorExpires /\ ckpt # 0 BY <1>0, <2>3 DEF CursorExpires, Walks
 <2> QED BY <2>1, <2>2, <2>3
<1>3. Frontiers' BY <1>0, <1>1, <1>2, FrontiersKeep
<1>4. Walks'
 <2>1. \A p, n : HeadAt(p, n)' = HeadAt(p, n) BY <1>0, SameCloud
 <2> QED BY <1>0, <1>2, <2>1 DEF Walks
<1> QED BY <1>0, <1>1, <1>3, <1>4, WalkKeeps

\* What holds of a path up to a change is not touched when only the walk moves.
LEMMA SameCover ==
  ASSUME UNCHANGED <<cloud, loc, head, app, thread>>, NEW p \in CloudPaths, NEW n
  PROVE  /\ Late(p, n)' = Late(p, n) /\ Reached(p, n)' = Reached(p, n) /\ Covered(p, n)' = Covered(p, n)
         /\ snap'.gone = snap.gone => SnapCovered(p, n)' = SnapCovered(p, n)
<1>1. /\ HeadAt(p, n)' = HeadAt(p, n) /\ \A k : Touches(k)' = Touches(k) /\ WrittenAt(k, p)' = WrittenAt(k, p)
  BY SameCloud
<1>2. Late(p, n)' = Late(p, n) BY <1>1 DEF Late, LateApps, LateRuns, LatePushes
<1>3. Reached(p, n)' = Reached(p, n) /\ Excused(p, n)' = Excused(p, n) BY <1>1 DEF Reached, Excused
<1> QED BY <1>1, <1>2, <1>3 DEF Covered, SnapCovered, Purged

LEMMA TakeSnapshotKeeps ==
  ASSUME SyncInv, TakeSnapshot
  PROVE  SyncInv'
<1>0. /\ SyncShape /\ Walks /\ Frontiers /\ Len(cloud) \in Nat
      /\ UNCHANGED <<cloud, loc, head, app, thread, held, pushing, ckpt, cur, thru, syncMode>>
      /\ ckpt = 0 /\ thread["worker"].at = Nil BY CloudKept DEF SyncInv, TakeSnapshot, Idle, local, syncBudget
<1>1. PICK gone \in SUBSET {p \in CloudPaths : CloudHead(p) # 0 /\ WrittenAt(CloudHead(p), p) = Nil /\ ~Unsettled(p)} :
        snap' = [through |-> Len(cloud), gone |-> gone, left |-> {p \in CloudPaths : CloudHead(p) # 0} \ gone]
  BY DEF TakeSnapshot
<1>2. /\ snap'.through = Len(cloud) /\ snap'.gone = gone /\ snap'.left = {p \in CloudPaths : CloudHead(p) # 0} \ gone
      /\ {"through", "gone", "left"} \subseteq DOMAIN snap' BY <1>1
<1>3. SyncShape' BY <1>0, <1>2 DEF SyncShape
<1>4. /\ \A p, n : HeadAt(p, n)' = HeadAt(p, n)
      /\ \A k, p : WrittenAt(k, p)' = WrittenAt(k, p) BY <1>0, SameCloud
<1>5. Walks' BY <1>0, <1>2, <1>4 DEF Walks, CloudHead
<1>6. ASSUME NEW p \in CloudPaths \ snap'.left PROVE SnapCovered(p, Len(cloud))'
 <2>1. CASE CloudHead(p) = 0
  <3>1. Reached(p, Len(cloud)) BY <1>0, <2>1 DEF Reached, CloudHead, SyncShape
  <3> QED BY <1>0, <3>1, SameCover DEF SnapCovered
 <2>2. CASE CloudHead(p) # 0
  <3>1. p \in gone BY <1>2, <2>2
  <3>2. WrittenAt(HeadAt(p, Len(cloud)), p) = Nil /\ ~Unsettled(p) BY <3>1 DEF CloudHead
  <3>3. Late(p, Len(cloud)) BY <3>2 DEF Late, LateApps, LateRuns, LatePushes, Unsettled
  <3>4. Late(p, Len(cloud))' /\ Purged(p, Len(cloud))' BY <1>0, <1>2, <1>4, <3>1, <3>2, <3>3, SameCover DEF Purged
  <3> QED BY <3>4 DEF SnapCovered
 <2> QED BY <2>1, <2>2
<1>7. Frontiers'
 <2>1. \A n \in {ckpt, cur} : \A p \in CloudPaths : Covered(p, n)' BY <1>0, SameCover DEF Frontiers
 <2> QED BY <1>0, <1>2, <1>6, <2>1 DEF Frontiers
<1> QED BY <1>0, <1>3, <1>5, <1>7, WalkKeeps

\* Before the first change every path is reached.
LEMMA NothingBefore ==
  ASSUME SyncShape, NEW p \in CloudPaths
  PROVE  HeadAt(p, 0) = 0 /\ Reached(p, 0)
<1>1. HeadAt(p, 0) \in 0 .. 0 BY HeadAtFacts
<1>2. HeadAt(p, 0) = 0 BY <1>1
<1> QED BY <1>2 DEF Reached, SyncShape

LEMMA SnapshotGone ==
  ASSUME SyncInv, CursorExpires, ckpt = 0
  PROVE  SyncInv'
<1>0. /\ SyncShape /\ Walks /\ Frontiers
      /\ UNCHANGED <<cloud, loc, head, app, thread, held, pushing, ckpt, cur, thru, syncMode>>
      /\ snap' = NoSnapshot /\ thread["worker"].at = Nil BY DEF SyncInv, CursorExpires, Idle, local
<1>1. SyncShape' BY <1>0 DEF SyncShape, NoSnapshot
<1>2. Walks'
 <2>1. Len(cloud) \in Nat BY <1>0 DEF SyncShape
 <2> QED BY <1>0, <2>1 DEF Walks, NoSnapshot
<1>3. Frontiers'
 <2>1. \A n \in {ckpt, cur} : \A p \in CloudPaths : Covered(p, n)' BY <1>0, SameCover DEF Frontiers
 <2>2. \A p \in CloudPaths : Reached(p, 0)' BY <1>0, NothingBefore, SameCover
 <2> QED BY <1>0, <2>1, <2>2 DEF Frontiers, SnapCovered, NoSnapshot
<1> QED BY <1>0, <1>1, <1>2, <1>3, WalkKeeps

\* The snapshot is complete: the checkpoint takes its place.
LEMMA EndSnapshotKeeps ==
  ASSUME SyncInv, EndSnapshot
  PROVE  SyncInv'
<1> DEFINE n == snap.through
<1>0. /\ SyncShape /\ Walks /\ Frontiers /\ n \in 0 .. Len(cloud) /\ Len(cloud) \in Nat
      /\ UNCHANGED <<cloud, loc, app, thread, held, pushing, thru, syncMode>>
      /\ ckpt = 0 /\ thru = 0 /\ snap.left = {} /\ thread["worker"].at = Nil
      /\ head' = [p \in CloudPaths |->
           IF head[p].seq \in 1 .. n /\ p \in snap.gone THEN [head[p] EXCEPT !.known = FALSE] ELSE head[p]]
      /\ ckpt' = n /\ cur' = n /\ snap' = NoSnapshot
  BY CloudKept DEF SyncInv, EndSnapshot, Idle, local, syncBudget, Walks
<1>1. \A p \in CloudPaths : /\ head'[p].seq = head[p].seq /\ {"seq", "known"} \subseteq DOMAIN head'[p]
                            /\ head[p].seq \in 1 .. n /\ p \in snap.gone => ~head'[p].known BY <1>0 DEF SyncShape
<1>2. SyncShape' BY <1>0, <1>1 DEF SyncShape, NoSnapshot
<1>3. Walks' BY <1>0 DEF Walks, NoSnapshot, SyncShape
<1>4. ASSUME NEW p \in CloudPaths PROVE \A m \in {n} : Covered(p, m)'
 <2>1. SnapCovered(p, n) /\ HeadAt(p, n) \in 0 .. n BY <1>0, HeadAtFacts DEF Frontiers
 <2>2. ASSUME NEW m \in {n} PROVE /\ HeadAt(p, m)' = HeadAt(p, m) /\ WrittenAt(HeadAt(p, m), p)' = WrittenAt(HeadAt(p, m), p)
                                 /\ Late(p, m)' = Late(p, m)
  <3>1. /\ \A k : HeadAt(p, k)' = HeadAt(p, k)
        /\ \A k : Touches(k)' = Touches(k) /\ WrittenAt(k, p)' = WrittenAt(k, p) BY <1>0, SameCloud
  <3> QED BY <1>0, <3>1 DEF Late, LateApps, LateRuns, LatePushes
 <2>3. CASE Reached(p, n) BY <1>1, <2>2, <2>3 DEF Covered, Reached
 <2>4. CASE ~Reached(p, n)
  <3>1. Purged(p, n) /\ Late(p, n) BY <2>1, <2>4 DEF SnapCovered
  <3>2. head[p].seq \in Nat /\ ~(head[p].seq >= HeadAt(p, n)) BY <1>0, <2>4 DEF Reached, SyncShape
  <3>3. head[p].seq = 0 \/ head[p].seq \in 1 .. n BY <1>0, <2>1, <3>2
  <3>5. \A m \in {n} : Excused(p, m)' BY <1>1, <2>2, <3>1, <3>3 DEF Excused, Purged
  <3> QED BY <2>2, <3>1, <3>5 DEF Covered
 <2> QED BY <2>3, <2>4
<1>5. Frontiers'
 <2>1. ASSUME NEW p \in CloudPaths PROVE Reached(p, 0)'
  <3>1. HeadAt(p, 0)' = HeadAt(p, 0) BY <1>0, SameCloud
  <3>2. Reached(p, 0) BY <1>0, NothingBefore
  <3> QED BY <1>1, <3>1, <3>2 DEF Reached
 <2> QED BY <1>0, <1>4, <2>1 DEF Frontiers, SnapCovered, NoSnapshot
<1> QED BY <1>0, <1>1, <1>2, <1>3, <1>5, WalkKeeps

\* The worker or the client begins to apply a change.
LEMMA StartKeeps ==
  ASSUME SyncInv, NEW t \in Clients, NEW id, thread[t].at = Nil, Start(t, id), IdHolds(id),
         id.via \in IF t = "client" THEN {"choice"} ELSE {"import", "change", "snapshot"},
         syncMode = "up", UNCHANGED <<cloud, loc, head, app, held, pushing, walk, syncMode>>, Walks',
         \A n \in {ckpt, cur} : \A p \in id.paths : Late(p, n) => Reached(p, n) \/ id.seq >= HeadAt(p, n),
         \A n \in {snap.through} : \A p \in id.paths \ snap.left : Late(p, n) => Reached(p, n) \/ id.seq >= HeadAt(p, n)
  PROVE  SyncInv'
<1>0. /\ SyncShape /\ Ids /\ Stages /\ Pushes /\ Frontiers /\ Walks /\ DOMAIN thread = Clients
      /\ ckpt' = ckpt /\ cur' = cur /\ snap' = snap BY DEF SyncInv, SyncShape, walk
<1>1. /\ DOMAIN thread' = Clients /\ thread'[t].id = id /\ thread'[t].at = "prepare" /\ {"id", "at"} \subseteq DOMAIN thread'[t]
      /\ \A u \in Clients \ {t} : thread'[u] = thread[u] BY <1>0 DEF Start
<1>2. SyncShape' BY <1>0, <1>1 DEF SyncShape, walk
<1>3. Grows /\ LocsFrom /\ HeadsFrom /\ AppsFrom BY DEF Grows, LocsFrom, HeadsFrom, AppsFrom
<1>4. /\ \A i : IdHolds(i)' = IdHolds(i)
      /\ \A o : Accepted(o)' = Accepted(o)
      /\ \A p, n : HeadAt(p, n)' = HeadAt(p, n) BY SameCloud
<1>5. Ids' BY <1>0, <1>1, <1>4 DEF Ids, Clients, Nil
<1>6. Stages' /\ Pushes' BY <1>0, <1>1, <1>4 DEF Stages, StageAt, Pushes, Nil
<1>7. ASSUME NEW p \in CloudPaths, NEW n \in 0 .. Len(cloud),
             p \in id.paths => (Late(p, n) => Reached(p, n) \/ id.seq >= HeadAt(p, n))
      PROVE  (Covered(p, n) => Covered(p, n)') /\ (SnapCovered(p, n) => SnapCovered(p, n)')
 <2>1. CASE Reached(p, n) BY <1>4, <2>1 DEF Reached, Covered, SnapCovered
 <2>2. CASE ~Reached(p, n)
  <3>1. ASSUME Late(p, n), NEW u \in Clients, p \in thread'[u].id.paths PROVE thread'[u].id.seq >= HeadAt(p, n)
    BY <1>1, <1>7, <2>2, <3>1 DEF Late, LateRuns
  <3> QED BY <1>0, <1>2, <1>3, <3>1, CoveredKeeps
 <2> QED BY <2>1, <2>2
<1>8. ckpt \in 0 .. Len(cloud) /\ cur \in 0 .. Len(cloud) /\ snap.through \in 0 .. Len(cloud)
  BY <1>0 DEF Walks, SyncShape
<1>9. \A n \in {ckpt, cur} : \A p \in CloudPaths : Covered(p, n)' BY <1>0, <1>7, <1>8 DEF Frontiers
<1>10. \A n \in {snap.through} : \A p \in CloudPaths \ snap.left : SnapCovered(p, n)'
  BY <1>0, <1>7, <1>8 DEF Frontiers
<1>11. Frontiers' BY <1>0, <1>9, <1>10 DEF Frontiers
<1> QED BY <1>2, <1>5, <1>6, <1>11 DEF SyncInv

\* The last change of a path is not before any frontier.
LEMMA LatestStarts ==
  ASSUME SyncInv, NEW p \in CloudPaths, NEW id, id.seq = CloudHead(p)
  PROVE  \A n \in {ckpt, cur, snap.through} : id.seq >= HeadAt(p, n)
<1>1. /\ Len(cloud) \in Nat /\ ckpt \in 0 .. Len(cloud) /\ cur \in 0 .. Len(cloud) /\ snap.through \in 0 .. Len(cloud)
  BY DEF SyncInv, SyncShape, Walks
<1>2. ASSUME NEW n \in {ckpt, cur, snap.through} PROVE id.seq >= HeadAt(p, n)
 <2>1. HeadAt(p, n) <= HeadAt(p, Len(cloud)) /\ n \in Nat BY <1>1, HeadAtGrows
 <2>2. HeadAt(p, n) \in 0 .. n /\ HeadAt(p, Len(cloud)) \in 0 .. Len(cloud) BY <1>1, <2>1, HeadAtFacts
 <2> QED BY <1>1, <2>1, <2>2 DEF CloudHead
<1> QED BY <1>2

\* A single file's application, while the walk stays where it is.
LEMMA WalksStay ==
  ASSUME SyncInv, cloud' = cloud, walk' = walk,
         \/ thread'["worker"] = thread["worker"]
         \/ thread'["worker"].at = Nil \/ thread'["worker"].id.via = "import"
  PROVE  Walks'
<1>1. (\A p, n : HeadAt(p, n)' = HeadAt(p, n)) /\ (\A k : Touches(k)' = Touches(k)) BY SameCloud
<1>2. Walks /\ UNCHANGED <<ckpt, cur, thru, snap>> BY DEF SyncInv, walk
<1> QED BY <1>1, <1>2 DEF Walks

LEMMA ImportKeeps ==
  ASSUME SyncInv, Import
  PROVE  SyncInv'
<1>0. /\ SyncShape /\ UNCHANGED <<cloud, loc, head, app, held, pushing, walk, syncMode>>
      /\ syncMode = "up" /\ thread["worker"].at = Nil /\ Len(cloud) \in Nat
  BY CloudKept DEF SyncInv, Import, Idle, SyncUp, local, syncBudget
<1>1. PICK n \in 1 .. Len(cloud) :
        LET id == SingleId("import", n, cloud[n].to) IN
        /\ cloud[n].from = Nil
        /\ id \in DOMAIN app \/ n = CloudHead(cloud[n].to)
        /\ ~(id \in DOMAIN app /\ app[id].st = "committed")
        /\ Start("worker", id) BY DEF Import
<1> DEFINE id == SingleId("import", n, cloud[n].to)
           p == cloud[n].to
<1>2. id.via = "import" /\ id.seq = n /\ id.paths = {p} /\ id.path = p BY DEF SingleId
<1>3. p \in CloudPaths /\ p # Nil /\ p \in Touches(n) BY <1>0, <1>1 DEF SyncShape, Touches
<1>4. /\ id \in DOMAIN app \/ n = CloudHead(p)
      /\ ~(id \in DOMAIN app /\ app[id].st = "committed")
      /\ Start("worker", id) BY <1>1
<1>5. thread'["worker"].id = id BY <1>0, <1>4 DEF Start, SyncShape, Clients
<1> HIDE DEF id, p
<1>6. IdHolds(id) BY <1>2, <1>3 DEF IdHolds
<1>7. ASSUME NEW m \in {ckpt, cur, snap.through}, NEW q \in id.paths, Late(q, m) PROVE id.seq >= HeadAt(q, m)
 <2>1. CASE id \in DOMAIN app BY <1>2, <1>4, <1>7, <2>1 DEF Late, LateApps
 <2>2. CASE n = CloudHead(p) BY <1>2, <1>3, <2>2, LatestStarts
 <2> QED BY <1>4, <2>1, <2>2
<1>8. Walks' BY <1>0, <1>2, <1>5, WalksStay
<1> QED BY <1>0, <1>2, <1>4, <1>6, <1>7, <1>8, StartKeeps DEF Clients

LEMMA ChooseKeeps ==
  ASSUME SyncInv, Choose
  PROVE  SyncInv'
<1>0. /\ SyncShape /\ UNCHANGED <<cloud, loc, head, app, held, pushing, walk, syncMode>>
      /\ syncMode = "up" /\ thread["client"].at = Nil /\ Len(cloud) \in Nat
  BY CloudKept DEF SyncInv, Choose, SyncUp, local, syncBudget
<1>1. PICK p \in CloudPaths : /\ pending[p] # 0 /\ CloudHead(p) = pending[p]
                              /\ Start("client", SingleId("choice", pending[p], p)) BY DEF Choose
<1> DEFINE id == SingleId("choice", pending[p], p)
<1>2. id.via = "choice" /\ id.seq = CloudHead(p) /\ id.paths = {p} /\ id.path = p /\ id.seq # 0 BY <1>1 DEF SingleId
<1>3. Start("client", id) BY <1>1
<1> HIDE DEF id
<1>4. IdHolds(id)
 <2>1. CloudHead(p) \in 0 .. Len(cloud) /\ (CloudHead(p) # 0 => p \in Touches(CloudHead(p)))
   BY <1>0, HeadAtFacts DEF CloudHead
 <2> QED BY <1>2, <2>1 DEF IdHolds
<1>5. thread'["worker"] = thread["worker"] BY <1>0, <1>3 DEF Start, SyncShape, Clients
<1>6. \A m \in {ckpt, cur, snap.through} : \A q \in id.paths : id.seq >= HeadAt(q, m) BY <1>2, LatestStarts
<1>7. Walks' BY <1>0, <1>5, WalksStay
<1> QED BY <1>0, <1>2, <1>3, <1>4, <1>6, <1>7, StartKeeps DEF Clients

LEMMA SnapshotEntryKeeps ==
  ASSUME SyncInv, ApplySnapshotEntry
  PROVE  SyncInv'
<1>0. /\ SyncShape /\ Ids /\ Walks /\ Frontiers
      /\ UNCHANGED <<cloud, loc, head, app, held, pushing, ckpt, cur, thru, syncMode>>
      /\ syncMode = "up" /\ thread["worker"].at = Nil /\ Len(cloud) \in Nat /\ ckpt = 0
  BY CloudKept DEF SyncInv, ApplySnapshotEntry, Idle, SyncUp, local, syncBudget
<1>1. PICK p \in snap.left :
        LET id == SingleId("snapshot", HeadAt(p, snap.through), p) IN
        IF KnownHead(id) THEN snap' = [snap EXCEPT !.left = @ \ {p}] /\ UNCHANGED thread
        ELSE Start("worker", id) /\ UNCHANGED snap BY DEF ApplySnapshotEntry
<1> DEFINE id == SingleId("snapshot", HeadAt(p, snap.through), p)
<1>2. id.via = "snapshot" /\ id.seq = HeadAt(p, snap.through) /\ id.paths = {p} /\ id.path = p BY DEF SingleId
<1>3. IF KnownHead(id) THEN snap' = [snap EXCEPT !.left = @ \ {p}] /\ UNCHANGED thread
      ELSE Start("worker", id) /\ UNCHANGED snap BY <1>1
<1> HIDE DEF id
<1>4. /\ p \in CloudPaths /\ HeadAt(p, snap.through) \in 1 .. Len(cloud) /\ p \in Touches(HeadAt(p, snap.through))
      /\ cur = 0 /\ thru = 0
 <2>1. snap.through \in 0 .. Len(cloud) /\ HeadAt(p, snap.through) # 0 /\ p \in CloudPaths /\ cur = 0 /\ thru = 0
   BY <1>0 DEF Walks
 <2>2. HeadAt(p, snap.through) \in 0 .. snap.through /\ p \in Touches(HeadAt(p, snap.through))
   BY <1>0, <2>1, HeadAtFacts
 <2> QED BY <1>0, <2>1, <2>2
<1>5. (\A q, n : HeadAt(q, n)' = HeadAt(q, n)) /\ (\A k : Touches(k)' = Touches(k)) BY <1>0, SameCloud
<1>6. CASE KnownHead(id)
 <2>1. /\ snap' = [snap EXCEPT !.left = @ \ {p}] /\ thread' = thread
       /\ snap'.left = snap.left \ {p} /\ snap'.gone = snap.gone /\ snap'.through = snap.through
       /\ {"through", "gone", "left"} \subseteq DOMAIN snap' BY <1>0, <1>3, <1>6 DEF SyncShape
 <2>2. Reached(p, snap.through) BY <1>2, <1>6 DEF KnownHead, Reached
 <2>3. SyncShape' BY <1>0, <2>1 DEF SyncShape
 <2>4. Walks' BY <1>0, <1>5, <2>1 DEF Walks
 <2>5. Frontiers'
  <3>1. ASSUME NEW q \in CloudPaths PROVE /\ \A n : Covered(q, n)' = Covered(q, n)
                                         /\ \A n : SnapCovered(q, n)' = SnapCovered(q, n) BY <1>0, <2>1, SameCover
  <3>2. SnapCovered(p, snap.through) BY <2>2 DEF SnapCovered
  <3> QED BY <1>0, <2>1, <3>1, <3>2 DEF Frontiers
 <2> QED BY <1>0, <2>1, <2>3, <2>4, <2>5, WalkKeeps
<1>7. CASE ~KnownHead(id)
 <2>1. Start("worker", id) /\ snap' = snap BY <1>3, <1>7
 <2>2. IdHolds(id) BY <1>2, <1>4 DEF IdHolds
 <2>3. thread'["worker"].id = id BY <1>0, <2>1 DEF Start, SyncShape, Clients
 <2>4. Walks' BY <1>0, <1>2, <1>5, <2>1, <2>3 DEF Walks
 <2>5. \A n \in {ckpt, cur} : \A q \in id.paths : Reached(q, n) BY <1>0, <1>2, <1>4, NothingBefore
 <2>6. walk' = walk BY <1>0, <2>1 DEF walk
 <2>7. \A q \in id.paths : q \in snap.left BY <1>2
 <2> QED BY <1>0, <1>2, <2>1, <2>2, <2>4, <2>5, <2>6, <2>7, StartKeeps DEF Clients
<1> QED BY <1>6, <1>7

\* The next change of the walk.
LEMMA NextFacts ==
  ASSUME NEW n \in Nat, NextOfWalk(n) # {}, thru \in Nat
  PROVE  n < thru /\ (CHOOSE k \in NextOfWalk(n) : \A j \in NextOfWalk(n) : k <= j) = n + 1
<1>1. n < thru /\ n + 1 \in NextOfWalk(n) /\ \A j \in NextOfWalk(n) : n + 1 <= j BY DEF NextOfWalk
<1> DEFINE m == CHOOSE k \in NextOfWalk(n) : \A j \in NextOfWalk(n) : k <= j
<1>2. m \in NextOfWalk(n) /\ \A j \in NextOfWalk(n) : m <= j BY <1>1
<1> HIDE DEF m
<1>3. m = n + 1 BY <1>1, <1>2 DEF NextOfWalk
<1> QED BY <1>1, <1>3 DEF m

\* A path's cover up to one change more.
LEMMA CoverNext ==
  ASSUME NEW p \in CloudPaths, NEW n \in Nat
  PROVE  /\ p \notin Touches(n + 1) => Covered(p, n + 1) = Covered(p, n)
         /\ p \in Touches(n + 1) /\ head[p].seq >= n + 1 => Covered(p, n + 1)
<1>1. HeadAt(p, n + 1) = IF p \in Touches(n + 1) THEN n + 1 ELSE HeadAt(p, n) BY HeadAtNext
<1>2. ASSUME p \notin Touches(n + 1) PROVE Covered(p, n + 1) = Covered(p, n)
  BY <1>1, <1>2 DEF Covered, Reached, Excused, Late
<1>3. ASSUME p \in Touches(n + 1), head[p].seq >= n + 1 PROVE Covered(p, n + 1) BY <1>1, <1>3 DEF Covered, Reached
<1> QED BY <1>2, <1>3

LEMMA ApplyChangeKeeps ==
  ASSUME SyncInv, ApplyChange
  PROVE  SyncInv'
<1> DEFINE n == cur + 1
           id == [via |-> "change", seq |-> n, paths |-> Touches(n),
                  path |-> IF cloud[n].to # Nil THEN cloud[n].to ELSE cloud[n].from]
<1>0. /\ SyncShape /\ Ids /\ Walks /\ Frontiers
      /\ UNCHANGED <<cloud, loc, head, app, held, pushing, snap, syncMode>>
      /\ syncMode = "up" /\ thread["worker"].at = Nil /\ Len(cloud) \in Nat /\ ckpt # 0 /\ thru # 0
  BY CloudKept DEF SyncInv, ApplyChange, Idle, SyncUp, local, syncBudget
<1>1. cur \in 0 .. Len(cloud) /\ thru \in 0 .. Len(cloud) /\ cur < thru /\ n \in 1 .. Len(cloud) /\ ckpt \in 0 .. cur
      /\ (CHOOSE k \in NextOfWalk(cur) : \A j \in NextOfWalk(cur) : k <= j) = n
 <2>1. cur \in 0 .. Len(cloud) /\ thru \in 0 .. Len(cloud) /\ NextOfWalk(cur) # {} /\ ckpt \in 0 .. cur
   BY <1>0 DEF Walks, ApplyChange
 <2>2. cur < thru /\ (CHOOSE k \in NextOfWalk(cur) : \A j \in NextOfWalk(cur) : k <= j) = n BY <1>0, <2>1, NextFacts
 <2> QED BY <1>0, <2>1, <2>2
<1>2. IF KnownHead(id) THEN cur' = n /\ UNCHANGED <<thread, ckpt, thru>>
      ELSE IF \E p \in id.paths : head[p].seq > n
      THEN ckpt' = 0 /\ cur' = 0 /\ thru' = 0 /\ UNCHANGED thread
      ELSE Start("worker", id) /\ UNCHANGED <<cur, ckpt, thru>> BY <1>1 DEF ApplyChange
<1>3. id.via = "change" /\ id.seq = n /\ id.paths = Touches(n)
      /\ id.path = IF cloud[n].to # Nil THEN cloud[n].to ELSE cloud[n].from OBVIOUS
<1> HIDE DEF id
<1>4. Touches(n) \subseteq CloudPaths /\ id.path \in Touches(n) BY <1>0, <1>1, <1>3 DEF SyncShape, Touches
<1>5. (\A q, m : HeadAt(q, m)' = HeadAt(q, m)) /\ (\A k : Touches(k)' = Touches(k)) BY <1>0, SameCloud
<1>6. CASE KnownHead(id)
 <2>1. cur' = n /\ UNCHANGED <<thread, ckpt, thru>> BY <1>2, <1>6
 <2>2. SyncShape' BY <1>0, <2>1 DEF SyncShape
 <2>3. Walks' BY <1>0, <1>1, <1>5, <2>1 DEF Walks
 <2>4. ASSUME NEW p \in CloudPaths PROVE Covered(p, n)
  <3>1. CASE p \in Touches(n)
   <4>1. head[p].seq >= cur + 1 BY <1>3, <1>6, <3>1 DEF KnownHead
   <4> QED BY <1>1, <3>1, <4>1, CoverNext
  <3>2. CASE p \notin Touches(n)
   <4>1. Covered(p, cur) BY <1>0 DEF Frontiers
   <4> QED BY <1>1, <3>2, <4>1, CoverNext
  <3> QED BY <3>1, <3>2
 <2> HIDE DEF n
 <2>5. Frontiers'
  <3>1. ASSUME NEW p \in CloudPaths, NEW m PROVE Covered(p, m)' = Covered(p, m) /\ SnapCovered(p, m)' = SnapCovered(p, m)
    BY <1>0, <2>1, SameCover
  <3>2. ASSUME NEW p \in CloudPaths, NEW m \in {ckpt', cur'} PROVE Covered(p, m)'
   <4>1. Covered(p, m) BY <1>0, <2>1, <2>4, <3>2 DEF Frontiers
   <4> QED BY <3>1, <4>1
  <3>3. ASSUME NEW m \in {snap'.through}, NEW p \in CloudPaths \ snap'.left PROVE SnapCovered(p, m)'
    BY <1>0, <3>1, <3>3 DEF Frontiers
  <3> QED BY <3>2, <3>3 DEF Frontiers
 <2> QED BY <1>0, <2>1, <2>2, <2>3, <2>5, WalkKeeps
<1>7. CASE ~KnownHead(id) /\ \E p \in id.paths : head[p].seq > n
 <2>1. ckpt' = 0 /\ cur' = 0 /\ thru' = 0 /\ UNCHANGED thread BY <1>2, <1>7
 <2>2. SyncShape' /\ Grows /\ AppsFrom /\ ThreadsFrom /\ LocsFrom /\ HeadsFrom
   BY <1>0, <2>1 DEF SyncShape, Grows, AppsFrom, ThreadsFrom, LocsFrom, HeadsFrom
 <2>3. Frontiers' BY <1>0, <2>1, <2>2, FrontiersKeep
 <2>4. Walks' BY <1>0, <1>5, <2>1 DEF Walks
 <2> QED BY <1>0, <2>1, <2>2, <2>3, <2>4, WalkKeeps
<1>8. CASE ~KnownHead(id) /\ ~\E p \in id.paths : head[p].seq > n
 <2>1. Start("worker", id) /\ UNCHANGED <<cur, ckpt, thru>> BY <1>2, <1>8
 <2>2. IdHolds(id) BY <1>1, <1>3, <1>4 DEF IdHolds
 <2>3. thread'["worker"].id = id BY <1>0, <2>1 DEF Start, SyncShape, Clients
 <2>4. Walks' BY <1>0, <1>1, <1>3, <1>5, <2>1, <2>3 DEF Walks
 <2>5. ASSUME NEW m \in {ckpt, cur}, NEW q \in id.paths PROVE id.seq >= HeadAt(q, m)
  <3>1. m \in 0 .. cur BY <1>1
  <3>2. HeadAt(q, m) \in 0 .. m BY <1>1, <3>1, HeadAtFacts
  <3> QED BY <1>1, <1>3, <3>1, <3>2
 <2>6. ASSUME NEW m \in {snap.through}, NEW q \in id.paths \ snap.left PROVE Reached(q, m)
  <3>1. SnapCovered(q, m) /\ q \notin snap.gone BY <1>0, <1>3, <1>4 DEF Frontiers, Walks
  <3> QED BY <3>1 DEF SnapCovered, Purged
 <2>7. walk' = walk BY <1>0, <2>1 DEF walk
 <2> QED BY <1>0, <1>3, <2>1, <2>2, <2>4, <2>5, <2>6, <2>7, StartKeeps DEF Clients
<1> QED BY <1>6, <1>7, <1>8

\* The worker and the client apply different things.
LEMMA RunsDiffer ==
  ASSUME SyncInv, NEW t \in Clients, NEW u \in Clients \ {t}, thread[t].at # Nil
  PROVE  thread[u].id # thread[t].id
<1>1. thread[t].id.via \in IF t = "client" THEN {"choice"} ELSE {"import", "change", "snapshot"}
  BY DEF SyncInv, Ids, Clients
<1>2. thread[u].id = NoId \/ thread[u].id.via \in IF u = "client" THEN {"choice"} ELSE {"import", "change", "snapshot"}
  BY DEF SyncInv, Ids, Clients
<1> QED BY <1>1, <1>2 DEF NoId, Nil, Clients

\* A step of an application keeps everything but the walk and its frontiers.
LEMMA ApplyKeeps ==
  ASSUME SyncInv, SyncShape', NEW t \in Clients, thread[t].at # Nil, syncMode = "up", syncMode' = "up",
         UNCHANGED <<cloud, loc, pushing>>,
         \A u \in Clients \ {t} : thread'[u] = thread[u],
         (thread'[t].id = thread[t].id /\ thread'[t].at # Nil) \/ thread'[t] = NoRun,
         DOMAIN app \subseteq DOMAIN app', DOMAIN app' \subseteq DOMAIN app \cup {thread[t].id},
         \A i \in DOMAIN app : i # thread[t].id => app'[i].st = app[i].st,
         StageAt(t)',
         (head' = head /\ held' = held) \/ \A u \in Clients \ {t} : thread[u].at \notin {"publishing", "commit"}
  PROVE  Ids' /\ Stages' /\ Pushes' /\ AppsFrom /\ ThreadsFrom /\ LocsFrom /\ Grows
<1>0. SyncShape /\ Ids /\ Stages /\ Pushes BY DEF SyncInv
<1>1. (\A i : IdHolds(i)' = IdHolds(i)) /\ \A o : Accepted(o)' = Accepted(o) BY SameCloud
<1>2. IdHolds(thread[t].id) BY <1>0 DEF Ids
<1>3. Ids'
 <2>1. \A i \in DOMAIN app' : IdHolds(i)' BY <1>0, <1>1, <1>2 DEF Ids
 <2>2. \A u \in Clients : IF thread'[u].at = Nil THEN thread'[u].id = NoId ELSE IdHolds(thread'[u].id)
   BY <1>0, <1>1, <1>2 DEF Ids, NoRun
 <2>3. /\ thread'["client"].at # Nil => thread'["client"].id.via = "choice"
       /\ thread'["worker"].at # Nil => thread'["worker"].id.via \in {"import", "change", "snapshot"}
   BY <1>0 DEF Ids, NoRun, Clients
 <2> QED BY <1>1, <2>1, <2>2, <2>3 DEF Ids
<1>4. ASSUME NEW u \in Clients \ {t} PROVE StageAt(u)'
 <2>1. StageAt(u) /\ thread[u].id # thread[t].id BY <1>0, RunsDiffer DEF Stages
 <2> QED BY <2>1 DEF StageAt
<1>5. Stages' BY <1>4 DEF Stages
<1>6. Pushes' /\ AppsFrom /\ ThreadsFrom /\ LocsFrom /\ Grows
  BY <1>0, <1>1 DEF Pushes, AppsFrom, ThreadsFrom, LocsFrom, Grows, NoRun
<1> QED BY <1>3, <1>5, <1>6

\* The walk stays while an application goes on.
LEMMA GoesOn ==
  ASSUME SyncInv, SyncShape', Ids', Stages', Pushes', AppsFrom, ThreadsFrom, LocsFrom, Grows, NEW t \in Clients,
         UNCHANGED <<cloud, head, walk>>, \A u \in Clients \ {t} : thread'[u] = thread[u],
         thread'[t].id = thread[t].id, thread[t].at # Nil, thread'[t].at # Nil
  PROVE  SyncInv'
<1>1. (\A p, n : HeadAt(p, n)' = HeadAt(p, n)) /\ (\A k : Touches(k)' = Touches(k)) BY SameCloud
<1>2. Walks /\ UNCHANGED <<ckpt, cur, thru, snap>> BY DEF SyncInv, walk
<1>3. Walks' BY <1>1, <1>2 DEF Walks, Clients
<1>4. HeadsFrom BY DEF HeadsFrom
<1>5. Frontiers' BY <1>2, <1>4, FrontiersKeep
<1> QED BY <1>3, <1>5 DEF SyncInv

LEMMA PrepareKeeps ==
  ASSUME SyncInv, NEW t \in Clients, Prepare(t)
  PROVE  SyncInv'
<1> DEFINE id == thread[t].id
<1>0. /\ SyncShape /\ Stages /\ UNCHANGED <<cloud, loc, head, pushing, held, walk, syncMode>>
      /\ syncMode = "up" /\ thread[t].at = "prepare" BY DEF SyncInv, Prepare, LockFree, SyncUp, Stay, syncBudget
<1>1. /\ DOMAIN app' = DOMAIN app \cup {id}
      /\ \A i \in DOMAIN app : i # id => app'[i] = app[i]
      /\ "st" \in DOMAIN app'[id]
      /\ \/ app'[id].st = "accepted" /\ Enter(t, "stage")
         \/ app'[id].st = "staged" /\ Enter(t, "publish")
 <2>1. CASE id \notin DOMAIN app
  <3> DEFINE r == [st |-> "accepted", base |-> Bases(id), copied |-> FALSE, copies |-> {}, evidence |-> Nil,
                   applied |-> FALSE]
  <3>1. app' = Overlay(app, [i \in {id} |-> r]) /\ Enter(t, "stage") BY <2>1 DEF Prepare, Run
  <3>2. "st" \in DOMAIN r /\ r.st = "accepted" OBVIOUS
  <3> HIDE DEF r
  <3>3. DOMAIN [i \in {id} |-> r] = {id} /\ [i \in {id} |-> r][id] = r OBVIOUS
  <3> DEFINE g == [i \in {id} |-> r]
  <3>4. /\ app' = [x \in DOMAIN app \cup DOMAIN g |-> IF x \in DOMAIN g THEN g[x] ELSE app[x]]
        /\ DOMAIN g = {id} /\ g[id] = r BY <3>1, <3>3 DEF Overlay
  <3> HIDE DEF g, id
  <3> QED BY <3>1, <3>2, <3>4
 <2>2. CASE id \in DOMAIN app
  <3>1. /\ app' = app /\ app[id].st \in {"accepted", "staged"}
        /\ Enter(t, IF app[id].st = "accepted" THEN "stage" ELSE "publish") BY <2>2 DEF Prepare, Run, App
  <3> QED BY <1>0, <2>2, <3>1 DEF SyncShape
 <2> QED BY <2>1, <2>2
<1>2. /\ DOMAIN thread' = Clients /\ \A u \in Clients \ {t} : thread'[u] = thread[u]
      /\ {"id", "at"} \subseteq DOMAIN thread'[t] /\ thread'[t].id = id
      /\ \/ app'[id].st = "accepted" /\ thread'[t].at = "stage"
         \/ app'[id].st = "staged" /\ thread'[t].at = "publish" BY <1>0, <1>1 DEF SyncShape, Enter
<1>3. SyncShape' BY <1>0, <1>1, <1>2 DEF SyncShape, walk
<1>4. StageAt(t)' BY <1>0, <1>1, <1>2 DEF StageAt
<1> HIDE DEF id
<1>5. thread[t].at # Nil /\ thread'[t].at # Nil /\ thread'[t].id = thread[t].id /\ DOMAIN app' = DOMAIN app \cup {thread[t].id}
      /\ \A i \in DOMAIN app : i # thread[t].id => app'[i] = app[i] BY <1>0, <1>1, <1>2 DEF id, Nil
<1>6. Ids' /\ Stages' /\ Pushes' /\ AppsFrom /\ ThreadsFrom /\ LocsFrom /\ Grows
  BY <1>0, <1>2, <1>3, <1>4, <1>5, ApplyKeeps
<1> QED BY <1>0, <1>2, <1>3, <1>5, <1>6, GoesOn

\* A step that leaves the application where it is, in a later stage.
LEMMA AdvanceKeeps ==
  ASSUME SyncInv, NEW t \in Clients, NEW where, NEW stage, syncMode = "up", syncMode' = "up",
         UNCHANGED <<cloud, loc, head, pushing, walk>>,
         thread[t].id \in DOMAIN app, DOMAIN app' = DOMAIN app, app'[thread[t].id].st = stage,
         \A i \in DOMAIN app : "st" \in DOMAIN app'[i] /\ (i # thread[t].id => app'[i].st = app[i].st),
         thread[t].at # Nil, Enter(t, where),
         \/ where \in {"publish", "final"} /\ stage = "staged" /\ held' = held
         \/ /\ where \in {"publishing", "commit"} /\ stage = "publishing" /\ held' = t /\ held \in {Nil, t}
            /\ \A p \in thread[t].id.paths : head[p].seq <= thread[t].id.seq
  PROVE  SyncInv'
<1>0. SyncShape /\ Stages BY DEF SyncInv
<1>1. /\ DOMAIN thread' = Clients /\ \A u \in Clients \ {t} : thread'[u] = thread[u]
      /\ {"id", "at"} \subseteq DOMAIN thread'[t] /\ thread'[t].id = thread[t].id /\ thread'[t].at = where /\ where # Nil
  BY <1>0 DEF SyncShape, Enter, Nil
<1>2. SyncShape' BY <1>0, <1>1 DEF SyncShape, walk
<1>3. StageAt(t)' BY <1>1 DEF StageAt
<1>4. (head' = head /\ held' = held) \/ \A u \in Clients \ {t} : thread[u].at \notin {"publishing", "commit"}
  BY <1>0 DEF Stages, StageAt, Clients, Nil
<1>5. Ids' /\ Stages' /\ Pushes' /\ AppsFrom /\ ThreadsFrom /\ LocsFrom /\ Grows BY <1>1, <1>2, <1>3, <1>4, ApplyKeeps
<1> QED BY <1>1, <1>2, <1>5, GoesOn

LEMMA StagesAdvance ==
  ASSUME SyncInv, NEW t \in Clients, StageSource(t) \/ BeginCandidate(t) \/ Publishing(t) \/ ApplyEffect(t)
  PROVE  SyncInv'
<1> DEFINE id == thread[t].id
<1>0. /\ SyncShape /\ Stages /\ StageAt(t) /\ UNCHANGED <<cloud, loc, head, pushing, walk, syncMode>> /\ syncMode = "up"
  BY DEF SyncInv, Stages, StageSource, BeginCandidate, Publishing, ApplyEffect, LockFree, SyncUp, Stay, syncBudget
<1>1. CASE StageSource(t)
 <2>1. /\ id \in DOMAIN app /\ app' = [app EXCEPT ![id].st = "staged"] /\ Enter(t, "publish") /\ held' = held
       /\ thread[t].at = "stage" BY <1>0, <1>1 DEF StageSource, StageAt, Run
 <2>2. /\ DOMAIN app' = DOMAIN app /\ app'[id].st = "staged"
       /\ \A i \in DOMAIN app : "st" \in DOMAIN app'[i] /\ (i # id => app'[i].st = app[i].st)
   BY <1>0, <2>1 DEF SyncShape
 <2> QED BY <1>0, <2>1, <2>2, AdvanceKeeps DEF Nil
<1>2. CASE BeginCandidate(t)
 <2>1. /\ id \in DOMAIN app /\ app[id].st = "staged" /\ Enter(t, "final") /\ held' = held /\ thread[t].at = "publish"
   BY <1>0, <1>2 DEF BeginCandidate, StageAt, Run
 <2>2. \E a, b, c, d : app' = [app EXCEPT ![id].base = a, ![id].copies = b, ![id].copied = c, ![id].evidence = d]
   BY <1>2 DEF BeginCandidate, Run
 <2>3. /\ DOMAIN app' = DOMAIN app /\ app'[id].st = "staged"
       /\ \A i \in DOMAIN app : "st" \in DOMAIN app'[i] /\ (i # id => app'[i].st = app[i].st)
   BY <1>0, <2>1, <2>2 DEF SyncShape
 <2> QED BY <1>0, <2>1, <2>3, AdvanceKeeps DEF Nil
<1>3. CASE Publishing(t)
 <2>1. /\ id \in DOMAIN app /\ app' = [app EXCEPT ![id].st = "publishing"] /\ Enter(t, "publishing")
       /\ held' = t /\ held = Nil /\ thread[t].at = "final"
       /\ \A p \in id.paths : head[p].seq <= id.seq BY <1>0, <1>3 DEF Publishing, LockFree, Check, StageAt, Run
 <2>2. /\ DOMAIN app' = DOMAIN app /\ app'[id].st = "publishing"
       /\ \A i \in DOMAIN app : "st" \in DOMAIN app'[i] /\ (i # id => app'[i].st = app[i].st)
   BY <1>0, <2>1 DEF SyncShape
 <2> QED BY <1>0, <2>1, <2>2, AdvanceKeeps DEF Nil
<1>4. CASE ApplyEffect(t)
 <2>1. /\ id \in DOMAIN app /\ app[id].st = "publishing" /\ Enter(t, "commit")
       /\ held' = held /\ held = t /\ thread[t].at = "publishing"
       /\ \A p \in id.paths : head[p].seq <= id.seq BY <1>0, <1>4 DEF ApplyEffect, StageAt
 <2>2. \/ app' = app
       \/ \E a, b : app' = [app EXCEPT ![id].applied = a, ![id].evidence = b]
       \/ \E a : app' = [app EXCEPT ![id].applied = a] BY <1>4 DEF ApplyEffect, Run
 <2>3. /\ DOMAIN app' = DOMAIN app /\ app'[id].st = "publishing"
       /\ \A i \in DOMAIN app : "st" \in DOMAIN app'[i] /\ (i # id => app'[i].st = app[i].st)
  <3>1. CASE app' = app BY <1>0, <2>1, <3>1 DEF SyncShape
  <3>2. CASE \E a, b : app' = [app EXCEPT ![id].applied = a, ![id].evidence = b] BY <1>0, <2>1, <3>2 DEF SyncShape
  <3>3. CASE \E a : app' = [app EXCEPT ![id].applied = a] BY <1>0, <2>1, <3>3 DEF SyncShape
  <3> QED BY <2>2, <3>1, <3>2, <3>3
 <2> QED BY <1>0, <2>1, <2>3, AdvanceKeeps DEF Nil
<1> QED BY <1>1, <1>2, <1>3, <1>4

\* A pass of the walk ends with the application that failed.
LEMMA FailureKeeps ==
  ASSUME SyncInv, NEW t \in Clients, thread[t].at # Nil, syncMode = "up", syncMode' = "up",
         UNCHANGED <<cloud, loc, head, pushing>>, PutOff(t, thread[t].id), WalkFails(thread[t].id),
         DOMAIN app' = DOMAIN app,
         \A i \in DOMAIN app : "st" \in DOMAIN app'[i] /\ (i # thread[t].id => app'[i].st = app[i].st),
         held' = held \/ \A u \in Clients \ {t} : thread[u].at \notin {"publishing", "commit"}
  PROVE  SyncInv'
<1>0. SyncShape /\ Ids /\ Stages /\ Walks BY DEF SyncInv
<1>1. /\ DOMAIN thread' = Clients /\ thread'[t] = NoRun /\ \A u \in Clients \ {t} : thread'[u] = thread[u]
  BY <1>0 DEF SyncShape, PutOff
<1>2. SyncShape' /\ StageAt(t)'
 <2>1. snap' = snap BY DEF WalkFails, walk
 <2>2. {"id", "at"} \subseteq DOMAIN NoRun /\ NoRun.at = Nil BY DEF NoRun
 <2>3. \A u \in Clients : {"id", "at"} \subseteq DOMAIN thread'[u] BY <1>0, <1>1, <2>2 DEF SyncShape
 <2>4. SyncShape' BY <1>0, <1>1, <2>1, <2>3 DEF SyncShape
 <2>5. StageAt(t)' BY <1>1, <2>2 DEF StageAt, Nil
 <2> QED BY <2>4, <2>5
<1>3. Ids' /\ Stages' /\ Pushes' /\ AppsFrom /\ ThreadsFrom /\ LocsFrom /\ Grows BY <1>1, <1>2, ApplyKeeps
<1>4. HeadsFrom BY DEF HeadsFrom
<1>5. /\ (ckpt' \in {0, ckpt} /\ cur' = ckpt' /\ thru' = 0 /\ snap' = snap) \/ walk' = walk
      /\ t = "client" => walk' = walk
 <2>1. t = "client" => thread[t].id.via = "choice" BY <1>0 DEF Ids
 <2> QED BY <2>1 DEF WalkFails
<1>6. {ckpt', cur'} \subseteq {ckpt, cur, 0} /\ snap' = snap BY <1>5 DEF walk
<1>7. Frontiers' BY <1>2, <1>3, <1>4, <1>6, FrontiersKeep
<1>8. Walks'
 <2>1. (\A p, n : HeadAt(p, n)' = HeadAt(p, n)) /\ (\A k : Touches(k)' = Touches(k)) BY SameCloud
 <2>2. CASE t = "worker" BY <1>0, <1>1, <1>5, <2>1, <2>2 DEF Walks, walk, NoRun, Nil
 <2>3. CASE t = "client"
  <3>1. thread'["worker"] = thread["worker"] /\ walk' = walk BY <1>1, <1>5, <2>3 DEF Clients
  <3> QED BY <3>1, WalksStay
 <2> QED BY <2>2, <2>3 DEF Clients
<1> QED BY <1>2, <1>3, <1>7, <1>8 DEF SyncInv

LEMMA RefusalKeeps ==
  ASSUME SyncInv, NEW t \in Clients, RefuseApply(t) \/ PublishFails(t)
  PROVE  SyncInv'
<1> DEFINE id == thread[t].id
<1>0. /\ SyncShape /\ StageAt(t) /\ Stages
      /\ UNCHANGED <<cloud, loc, head, pushing, syncMode>> /\ syncMode = "up"
      /\ PutOff(t, id) /\ WalkFails(id) /\ thread[t].at # Nil
  BY DEF SyncInv, Stages, RefuseApply, PublishFails, SyncUp, Run, Nil
<1>1. CASE RefuseApply(t)
 <2>1. app' = app /\ held' = held BY <1>1 DEF RefuseApply
 <2>2. \A i \in DOMAIN app : "st" \in DOMAIN app'[i] BY <1>0, <2>1 DEF SyncShape
 <2> QED BY <1>0, <2>1, <2>2, FailureKeeps
<1>2. CASE PublishFails(t)
 <2>1. thread[t].at \in {"publishing", "commit"} /\ app' = [app EXCEPT ![id].st = "indeterminate"]
   BY <1>2 DEF PublishFails, Run
 <2>2. held = t /\ id \in DOMAIN app BY <1>0, <2>1 DEF StageAt
 <2>3. \A u \in Clients \ {t} : thread[u].at \notin {"publishing", "commit"} BY <1>0, <2>2 DEF Stages, StageAt
 <2>4. DOMAIN app' = DOMAIN app /\ \A i \in DOMAIN app : "st" \in DOMAIN app'[i] /\ (i # id => app'[i].st = app[i].st)
   BY <1>0, <2>1 DEF SyncShape
 <2> QED BY <1>0, <2>3, <2>4, FailureKeeps
<1> QED BY <1>1, <1>2

\* A change is applied: its paths have the new baseline, and the walk goes on.
LEMMA SyncCommitKeeps ==
  ASSUME SyncInv, NEW t \in Clients, CommitApply(t)
  PROVE  SyncInv'
<1> DEFINE id == thread[t].id
<1>0. /\ SyncShape /\ Ids /\ Stages /\ Walks /\ Pushes /\ Frontiers /\ StageAt(t) /\ Len(cloud) \in Nat
      /\ UNCHANGED <<cloud, loc, pushing, syncMode>> /\ syncMode = "up" /\ thread[t].at = "commit"
      /\ app' = [app EXCEPT ![id].st = "committed"]
      /\ head' = [p \in CloudPaths |->
           IF p \in id.paths THEN [seq |-> id.seq, obs |-> cloudFile[p], known |-> TRUE] ELSE head[p]]
      /\ thread' = [thread EXCEPT ![t] = NoRun]
      /\ cur' = IF id.via = "change" THEN id.seq ELSE cur
      /\ snap' = IF id.via = "snapshot" THEN [snap EXCEPT !.left = @ \ {id.path}] ELSE snap
      /\ ckpt' = ckpt /\ thru' = thru
  BY CloudKept DEF SyncInv, CommitApply, Committed, ApplyDone, Walked, Run, Stages, SyncUp, syncBudget
<1>1. /\ id \in DOMAIN app /\ held = t /\ \A p \in id.paths : head[p].seq <= id.seq
      /\ IdHolds(id) /\ \A u \in Clients \ {t} : thread[u].at \notin {"publishing", "commit"}
  BY <1>0 DEF Ids, Stages, StageAt, Nil
<1>2. /\ DOMAIN thread' = Clients /\ thread'[t] = NoRun /\ \A u \in Clients \ {t} : thread'[u] = thread[u]
      /\ {"id", "at"} \subseteq DOMAIN NoRun /\ NoRun.at = Nil BY <1>0 DEF SyncShape, NoRun
<1>3. /\ DOMAIN app' = DOMAIN app
      /\ \A i \in DOMAIN app : "st" \in DOMAIN app'[i] /\ (i # id => app'[i].st = app[i].st) BY <1>0 DEF SyncShape
<1>4. /\ {"through", "gone", "left"} \subseteq DOMAIN snap' /\ snap'.through = snap.through /\ snap'.gone = snap.gone
      /\ snap'.left = IF id.via = "snapshot" THEN snap.left \ {id.path} ELSE snap.left BY <1>0 DEF SyncShape
<1>5. \A p \in CloudPaths : IF p \in id.paths THEN head'[p].seq = id.seq /\ {"seq", "known"} \subseteq DOMAIN head'[p]
                            ELSE head'[p] = head[p] BY <1>0
<1>6. SyncShape'
 <2>1. \A u \in Clients : {"id", "at"} \subseteq DOMAIN thread'[u] BY <1>0, <1>2 DEF SyncShape
 <2>2. \A p \in CloudPaths : {"seq", "known"} \subseteq DOMAIN head'[p] /\ head'[p].seq \in 0 .. Len(cloud')
   BY <1>0, <1>1, <1>5 DEF SyncShape, IdHolds
 <2>3. DOMAIN head' = CloudPaths BY <1>0
 <2> HIDE DEF id
 <2> QED BY <1>0, <1>2, <1>3, <1>4, <2>1, <2>2, <2>3 DEF SyncShape
<1>7. StageAt(t)' BY <1>2 DEF StageAt, Nil
<1>8. Ids' /\ Stages' /\ Pushes' /\ AppsFrom /\ ThreadsFrom /\ LocsFrom /\ Grows
 <2>1. /\ syncMode' = "up" /\ thread[t].at # Nil /\ DOMAIN app \subseteq DOMAIN app'
       /\ DOMAIN app' \subseteq DOMAIN app \cup {thread[t].id} /\ thread'[t] = NoRun
       /\ \A i \in DOMAIN app : i # thread[t].id => app'[i].st = app[i].st BY <1>0, <1>2, <1>3 DEF Nil
 <2> HIDE DEF id
 <2> QED BY <1>0, <1>1, <1>2, <1>6, <1>7, <2>1, ApplyKeeps
<1>9. HeadsFrom
 <2>1. \A p \in id.paths : Sourced(p, id.seq) BY DEF Sourced
 <2> QED BY <1>1, <1>5, <2>1 DEF HeadsFrom
<1>10. (\A p, n : HeadAt(p, n)' = HeadAt(p, n)) /\ (\A k : Touches(k)' = Touches(k)) BY <1>0, SameCloud
<1>11. /\ id.via \in IF t = "client" THEN {"choice"} ELSE {"import", "change", "snapshot"}
       /\ id.via = "change" => id.seq = cur + 1 /\ cur < thru /\ thru # 0 /\ id.paths = Touches(cur + 1)
       /\ id.via = "snapshot" => /\ ckpt = 0 /\ id.path \in snap.left /\ id.paths = {id.path}
                                 /\ id.seq = HeadAt(id.path, snap.through) BY <1>0 DEF Ids, Walks, Clients, Nil
<1>12. Walks'
 <2>1. CASE t = "client"
  <3>1. cur' = cur /\ snap' = snap /\ thread'["worker"] = thread["worker"] BY <1>0, <1>2, <1>11, <2>1 DEF Clients
  <3>2. walk' = walk BY <1>0, <3>1 DEF walk
  <3> QED BY <1>0, <3>1, <3>2, WalksStay
 <2>2. CASE t = "worker"
  <3>1. thread'["worker"].at = Nil BY <1>2, <2>2
  <3> HIDE DEF id
  <3> QED BY <1>0, <1>4, <1>10, <1>11, <3>1 DEF Walks
 <2> QED BY <2>1, <2>2 DEF Clients
<1>13. ASSUME NEW p \in CloudPaths, NEW n \in 0 .. Len(cloud)
       PROVE  (Covered(p, n) => Covered(p, n)') /\ (SnapCovered(p, n) => SnapCovered(p, n)')
 <2>1. Late(p, n) => \A u \in Clients : p \in thread'[u].id.paths => thread'[u].id.seq >= HeadAt(p, n)
   BY <1>8 DEF Late, LateRuns, ThreadsFrom, NoId
 <2> QED BY <1>0, <1>4, <1>6, <1>8, <1>9, <2>1, CoveredKeeps
<1>14. ckpt \in 0 .. Len(cloud) /\ cur \in 0 .. Len(cloud) /\ snap.through \in 0 .. Len(cloud) BY <1>0 DEF Walks
<1> HIDE DEF id
<1>15. ASSUME NEW p \in CloudPaths, NEW n \in {ckpt', cur'} PROVE Covered(p, n)'
 <2>1. CASE n \in {ckpt, cur} BY <1>0, <1>13, <1>14, <2>1 DEF Frontiers
 <2>2. CASE n \notin {ckpt, cur}
  <3>1. n = cur + 1 /\ id.via = "change" /\ id.seq = n /\ id.paths = Touches(n) BY <1>0, <1>11, <1>15, <2>2
  <3>2. HeadAt(p, n)' = (IF p \in Touches(n) THEN n ELSE HeadAt(p, cur))
   <4>1. cur \in Nat BY <1>0, <1>14
   <4>2. HeadAt(p, cur + 1) = IF p \in Touches(cur + 1) THEN cur + 1 ELSE HeadAt(p, cur) BY <4>1, HeadAtNext
   <4>3. HeadAt(p, n)' = HeadAt(p, n) BY <1>10
   <4> QED BY <3>1, <4>2, <4>3
  <3>3. CASE p \in Touches(n)
   <4>1. head'[p].seq = n BY <1>5, <3>1, <3>3
   <4> QED BY <1>14, <3>1, <3>2, <3>3, <4>1 DEF Covered, Reached
  <3>4. CASE p \notin Touches(n)
   <4>1. \A m \in {cur} : Covered(p, m)' BY <1>0, <1>13, <1>14 DEF Frontiers
   <4>2. \A m \in {cur} : HeadAt(p, n)' = HeadAt(p, m)' BY <3>2, <3>4, <1>10
   <4> QED BY <4>1, <4>2 DEF Covered, Reached, Excused, Late
  <3> QED BY <3>3, <3>4
 <2> QED BY <2>1, <2>2
<1>16. ASSUME NEW n \in {snap'.through}, NEW p \in CloudPaths \ snap'.left PROVE SnapCovered(p, n)'
 <2>1. n = snap.through BY <1>4
 <2>2. CASE p \notin snap.left BY <1>0, <1>13, <1>14, <2>1, <2>2 DEF Frontiers
 <2>3. CASE p \in snap.left
  <3>1. p = id.path /\ p \in id.paths /\ id.seq = HeadAt(p, n) BY <1>4, <1>11, <1>16, <2>1, <2>3
  <3>2. head'[p].seq = HeadAt(p, n) /\ HeadAt(p, n)' = HeadAt(p, n) /\ HeadAt(p, n) \in 0 .. n
    BY <1>5, <1>10, <1>14, <2>1, <3>1, HeadAtFacts
  <3> QED BY <1>14, <2>1, <3>2 DEF SnapCovered, Reached
 <2> QED BY <2>2, <2>3
<1>17. Frontiers' BY <1>15, <1>16 DEF Frontiers
<1> QED BY <1>6, <1>8, <1>12, <1>17 DEF SyncInv

--------------------
LEMMA SyncInitHolds == SyncInit => SyncInv
<1> SUFFICES ASSUME SyncInit PROVE SyncInv OBVIOUS
<1> DEFINE e(p) == [from |-> Nil, to |-> p, v |-> FirstVersion, by |-> Nil]
<1>1. PICK p \in CloudPaths :
        /\ cloud = <<e(p)>>
        /\ head = [x \in CloudPaths |-> IF x = p THEN [seq |-> 1, obs |-> FirstVersion, known |-> TRUE]
                                        ELSE [seq |-> 0, obs |-> Nil, known |-> TRUE]] BY DEF SyncInit
<1>2. e(p).from = Nil /\ e(p).to = p /\ e(p).by = Nil OBVIOUS
<1> HIDE DEF e
<1>3. cloud \in Seq({e(p)}) /\ Len(cloud) = 1 /\ cloud[1] = e(p) BY <1>1
<1>4. p # Nil BY SyncAssumption DEF Nil
<1>5. /\ app = <<>> /\ thread = [t \in Clients |-> NoRun] /\ pushing = NoPush
      /\ ckpt = 1 /\ cur = 1 /\ thru = 0 /\ snap = NoSnapshot /\ syncMode = "up"
      /\ loc = [o \in Locals |-> [kind |-> Nil, from |-> Nil, to |-> Nil, st |-> Nil, base |-> <<>>, obs |-> Nil,
                                  push |-> Nil]] BY DEF SyncInit
<1>6. DOMAIN app = {} BY <1>5
<1>7. Touches(1) = {p} BY <1>2, <1>3, <1>4 DEF Touches
<1>8. SyncShape
 <2>1. \A x \in CloudPaths : {"seq", "known"} \subseteq DOMAIN head[x] /\ head[x].seq \in 0 .. Len(cloud)
   BY <1>1, <1>3
 <2>2. DOMAIN head = CloudPaths BY <1>1
 <2>3. DOMAIN loc = Locals /\ \A o \in Locals : /\ {"kind", "from", "to", "st", "push"} \subseteq DOMAIN loc[o]
                                                /\ loc[o].from = Nil /\ loc[o].to = Nil /\ loc[o].kind = Nil /\ loc[o].st = Nil
   BY <1>5
 <2>4. DOMAIN thread = Clients /\ \A t \in Clients : {"id", "at"} \subseteq DOMAIN thread[t] BY <1>5 DEF NoRun
 <2>5. {"id", "at"} \subseteq DOMAIN pushing /\ {"through", "gone", "left"} \subseteq DOMAIN snap
   BY <1>5 DEF NoPush, NoSnapshot
 <2>6. \A k \in 1 .. Len(cloud) : /\ cloud[k].from \in CloudPaths \cup {Nil} /\ cloud[k].to \in CloudPaths \cup {Nil}
                                  /\ cloud[k].from = Nil => cloud[k].to # Nil BY <1>2, <1>3, <1>4
 <2>7. \E S : cloud \in Seq(S) BY <1>3
 <2> QED BY <1>6, <2>1, <2>2, <2>3, <2>4, <2>5, <2>6, <2>7 DEF SyncShape, Nil
<1>9. Ids /\ Stages BY <1>5, <1>6 DEF Ids, Stages, StageAt, NoRun, NoPush, Nil, Clients
<1>10. Walks BY <1>3, <1>5 DEF Walks, NoSnapshot, NoRun, Nil, Clients
<1>11. Pushes BY <1>2, <1>3, <1>5 DEF Pushes, NoPush, Nil
<1>12. Frontiers
 <2>1. ASSUME NEW x \in CloudPaths PROVE Reached(x, 1)
  <3>1. /\ HeadAt(x, 1) \in 0 .. 1 /\ (HeadAt(x, 1) # 0 => x \in Touches(HeadAt(x, 1))) BY HeadAtFacts
  <3>2. x # p => HeadAt(x, 1) = 0 BY <1>7, <3>1
  <3> QED BY <1>1, <3>1, <3>2 DEF Reached
 <2>2. \A x \in CloudPaths : Reached(x, 0) BY <1>8, NothingBefore
 <2> QED BY <1>5, <2>1, <2>2 DEF Frontiers, Covered, SnapCovered, NoSnapshot
<1> QED BY <1>8, <1>9, <1>10, <1>11, <1>12 DEF SyncInv

LEMMA SyncStutter ==
  ASSUME SyncInv, UNCHANGED syncVars
  PROVE  SyncInv'
<1>1. /\ SyncShape /\ Pushes
      /\ UNCHANGED <<cloud, loc, head, app, thread, held, pushing, walk, syncMode>>
  BY DEF SyncInv, syncVars, local, syncBudget
<1>2. SyncShape' /\ Grows /\ LocsFrom /\ HeadsFrom BY <1>1 DEF SyncShape, Grows, LocsFrom, HeadsFrom, walk
<1>3. Pushes' BY <1>1 DEF Pushes, Accepted
<1> QED BY <1>1, <1>2, <1>3, QuietKeeps

LEMMA SyncStep == SyncInv /\ [SyncNext]_syncVars => SyncInv'
<1> SUFFICES ASSUME SyncInv, [SyncNext]_syncVars PROVE SyncInv' OBVIOUS
<1>1. CASE CloudChange BY <1>1, CloudChangeKeeps
<1>2. CASE ProgramWrites \/ LosePush BY <1>2, OthersKeep
<1>3. CASE \E o \in Locals : LocalAccept(o) \/ LocalCommit(o) BY <1>3, LocalKeeps
<1>4. CASE (\E o \in Locals : BeginPush(o)) \/ PushConflict BY <1>4, PushKeeps
<1>5. CASE SendPush BY <1>5, SendKeeps
<1>6. CASE RecordAcknowledgement BY <1>6, AcknowledgeKeeps
<1>7. CASE \E t \in Clients : ApplyStep(t)
 <2>1. PICK t \in Clients : ApplyStep(t) BY <1>7
 <2>2. CASE Prepare(t) BY <2>2, PrepareKeeps
 <2>3. CASE StageSource(t) \/ BeginCandidate(t) \/ Publishing(t) \/ ApplyEffect(t) BY <2>3, StagesAdvance
 <2>4. CASE CommitApply(t) BY <2>4, SyncCommitKeeps
 <2>5. CASE RefuseApply(t) \/ PublishFails(t) BY <2>5, RefusalKeeps
 <2> QED BY <2>1, <2>2, <2>3, <2>4, <2>5 DEF ApplyStep
<1>8. CASE Import BY <1>8, ImportKeeps
<1>9. CASE TakeSnapshot BY <1>9, TakeSnapshotKeeps
<1>10. CASE ApplySnapshotEntry BY <1>10, SnapshotEntryKeeps
<1>11. CASE EndSnapshot BY <1>11, EndSnapshotKeeps
<1>12. CASE ReadChanges \/ SaveCheckpoint \/ CursorExpires
 <2>1. CASE CursorExpires /\ ckpt = 0 BY <2>1, SnapshotGone
 <2>2. CASE ~(CursorExpires /\ ckpt = 0) BY <1>12, <2>2, PagesKeep
 <2> QED BY <2>1, <2>2
<1>13. CASE ApplyChange BY <1>13, ApplyChangeKeeps
<1>14. CASE Choose BY <1>14, ChooseKeeps
<1>15. CASE SyncCrash BY <1>15, SyncCrashKeeps
<1>16. CASE SyncReady BY <1>16, ReadyKeeps
<1>17. CASE \E id \in DOMAIN app : Recover(id) BY <1>17, RecoverKeeps
<1>18. CASE UNCHANGED syncVars BY <1>18, SyncStutter
<1> QED
  BY <1>1, <1>2, <1>3, <1>4, <1>5, <1>6, <1>7, <1>8, <1>9, <1>10, <1>11, <1>12, <1>13, <1>14, <1>15, <1>16, <1>17,
     <1>18 DEF SyncNext

\* Part of SyncPromises: every change of the cloud at or below the checkpoint
\* has been applied or is the baseline of its path, whatever was put off, lost,
\* expired or restarted on the way.
THEOREM ChangesAreNotSkipped == SyncSpec => []NoChangeSkipped
<1>1. SyncInv => NoChangeSkipped BY DEF SyncInv, Frontiers, Covered, Reached, Excused, NoChangeSkipped
<1> QED BY <1>1, SyncInitHolds, SyncStep, PTL DEF SyncSpec

--------------------
\* A remote change destroys nothing that was not copied.

Source(i) == cloud[i.seq].from
Place(i) == cloud[i.seq].to

LocShape(o) ==
    /\ {"base", "obs"} \subseteq DOMAIN loc[o]
    /\ loc[o].st # Nil => DOMAIN loc[o].base = {loc[o].from, loc[o].to} \ {Nil}
    /\ loc[o].kind = "move" => loc[o].obs # Nil /\ loc[o].from # loc[o].to
    /\ loc[o].kind = "delete" => loc[o].to = Nil
EntryShape(k) ==
    /\ cloud[k].from # cloud[k].to /\ (cloud[k].from # Nil /\ cloud[k].to # Nil => cloud[k].v # Nil)
    /\ cloud[k].by # Nil /\ cloud[k].from = Nil => loc[cloud[k].by].kind = "upload" /\ cloud[k].v = cloud[k].by

KeptShape ==
    /\ DOMAIN cloudFile = CloudPaths /\ DOMAIN gen = CloudPaths
    /\ \A p \in CloudPaths : "obs" \in DOMAIN head[p]
    /\ \A o \in Locals : LocShape(o)
    /\ \A i \in DOMAIN app : {"base", "copied", "copies", "evidence", "applied"} \subseteq DOMAIN app[i]
    /\ \A k \in 1..Len(cloud) : EntryShape(k)

\* What an application is of, by who asked for it.
Form(i) ==
    /\ i.via \in {"import", "choice", "snapshot", "change"}
    /\ i = [via |-> i.via, seq |-> i.seq, paths |-> i.paths, path |-> i.path]
    /\ i.via = "change" => i.paths = Touches(i.seq) /\ i.path = IF Place(i) # Nil THEN Place(i) ELSE Source(i)
    /\ i.via # "change" => i.paths = {i.path}
    /\ i.via = "import" => cloud[i.seq].by = Nil
    /\ i.via = "choice" => Source(i) = Nil
Forms == (\A i \in DOMAIN app : Form(i)) /\ \A t \in Clients : thread[t].at # Nil => Form(thread[t].id)

\* A baseline shows its change, but for what an acknowledgement found at the path.
Shown(p, n) == (cloud[n].by = Nil \/ loc[cloud[n].by].push # "clean") => head[p].obs = WrittenAt(n, p)
BaselinesShow == \A p \in CloudPaths : head[p].seq # 0 => Shown(p, head[p].seq)

\* The worker does one thing at a time.
PushesAlone == pushing.at # Nil => thread["worker"].at = Nil

\* What last committed at a path did so once: a base that is behind stays behind.
Used(g) ==
    \/ g = NoId
    \/ \E o \in Locals : g = Generation(o) /\ loc[o].st = "committed"
    \/ g \in DOMAIN app /\ app[g].st = "committed"
GensUsed == (\A p \in CloudPaths : Used(gen[p])) /\ \A i \in DOMAIN app : \A p \in i.paths : Used(app[i].base[p].gen)
Stale(i, p) == app[i].base[p].gen # gen[p]

InCopies(i, p) == app[i].base[p].obs \in app[i].copies \cup {Nil, WrittenAt(i.seq, p)}
Writes(i) == ~IsMove(i) /\ WrittenAt(i.seq, i.path) # Nil

CopiesHold == \A i \in DOMAIN app : app[i].copied => app[i].st # "accepted" /\ (Writes(i) => InCopies(i, i.path))

\* A file that is written has its base copied, or is the file the baseline names.
Backed(i) == app[i].evidence = WrittenAt(i.seq, i.path) /\ InCopies(i, i.path)
Reused(i) == Reuse(i, app[i].base) /\ app[i].evidence \in {WrittenAt(i.seq, i.path), app[i].base[i.path].obs}

FinalAt(t) ==
    thread[t].at = "final" =>
      /\ Writes(thread[t].id) => \/ Stale(thread[t].id, thread[t].id.path) \/ head[thread[t].id.path].seq > thread[t].id.seq
                                 \/ Backed(thread[t].id) \/ Reused(thread[t].id)
      /\ IsMove(thread[t].id) => app[thread[t].id].copied

\* From the last check to the effect only another program can write there.
PublishingAt(t) ==
    /\ thread[t].at \in {"publishing", "commit"} => \A p \in thread[t].id.paths : ~Stale(thread[t].id, p)
    /\ thread[t].at = "publishing" =>
         /\ \A p \in thread[t].id.paths : cloudFile[p] = app[thread[t].id].base[p].obs \/ cloudFile[p] \in raced
         /\ Writes(thread[t].id) => Backed(thread[t].id) \/ Reused(thread[t].id)
         /\ IsMove(thread[t].id) => InCopies(thread[t].id, Place(thread[t].id))

\* A change that was passed by the walk is passed for good; a move may only be tried
\* again while no later change is.
Passed(k) == \A p \in Touches(k) : head[p].seq >= k
Retriable(i) == ckpt # 0 /\ i.seq > ckpt /\ ~Passed(i.seq)
OrderOf(i) ==
    /\ ckpt # 0 => \A k \in (ckpt + 1)..(i.seq - 1) : Passed(k)
    /\ snap # NoSnapshot => i.seq <= snap.through
    /\ thread["worker"].at # Nil /\ thread["worker"].id.via = "change" /\ thread["worker"].id # i => ~Retriable(i)
Order ==
    /\ ckpt # 0 => snap = NoSnapshot /\ \A k \in (ckpt + 1)..cur : Passed(k)
    /\ \A i \in DOMAIN app : i.via = "change" => OrderOf(i)

\* j has put version v at p, and is not over.
Covers(j, p, v) ==
    /\ ~IsMove(j) /\ p = j.path /\ ~Stale(j, p) /\ WrittenAt(j.seq, p) = v
    /\ \/ app[j].st = "indeterminate"
       \/ /\ app[j].st = "publishing" /\ app[j].evidence = v
          /\ \/ \E t \in Clients : thread[t].id = j /\ thread[t].at = "commit"
             \/ syncMode = "recover" /\ head[p].seq <= j.seq

\* A move that copied another file than its base finds its base back at its place.
Returned(i) ==
    /\ IsMove(i) /\ app[i].copied /\ app[i].st = "staged" /\ (Retriable(i) \/ thread["worker"].id = i)
    /\ ~Stale(i, Place(i)) /\ ~InCopies(i, Place(i)) /\ cloudFile[Place(i)] = app[i].base[Place(i)].obs
Away == \A i \in DOMAIN app : Returned(i) => \E j \in DOMAIN app : Covers(j, Place(i), cloudFile[Place(i)])

KeptInv ==
    /\ KeptShape /\ Forms /\ BaselinesShow /\ PushesAlone /\ GensUsed /\ CopiesHold
    /\ (\A t \in Clients : FinalAt(t) /\ PublishingAt(t)) /\ Order /\ Away /\ DisplacedKept

--------------------
LEMMA FormFacts ==
  ASSUME SyncShape, KeptShape, NEW i, IdHolds(i), Form(i)
  PROVE  /\ IsMove(i) => /\ i.via = "change" /\ Source(i) # Nil /\ Place(i) # Nil /\ Source(i) # Place(i)
                         /\ i.paths = {Source(i), Place(i)} /\ i.path = Place(i)
                         /\ WrittenAt(i.seq, Place(i)) # Nil /\ WrittenAt(i.seq, Source(i)) = Nil
         /\ ~IsMove(i) => i.paths = {i.path}
<1>1. /\ i.seq \in 1..Len(cloud) /\ i.path \in i.paths /\ Source(i) # Place(i)
      /\ Source(i) # Nil /\ Place(i) # Nil => cloud[i.seq].v # Nil
  BY DEF IdHolds, KeptShape, EntryShape, Source, Place
<1>2. CASE \E a : i.paths = {a}
 <2>1. PICK a : i.paths = {a} BY <1>2
 <2>2. Cardinality(i.paths) = 1 BY <2>1, FS_Singleton
 <2> QED BY <1>1, <2>1, <2>2 DEF IsMove
<1>3. CASE ~\E a : i.paths = {a}
 <2>1. i.via = "change" /\ i.paths = {Source(i), Place(i)} \ {Nil} BY <1>3 DEF Form, Touches, Source, Place
 <2>2. Source(i) # Nil /\ Place(i) # Nil
  <3>1. Source(i) = Nil => i.paths \subseteq {Place(i)} BY <2>1
  <3>2. Place(i) = Nil => i.paths \subseteq {Source(i)} BY <2>1
  <3> QED BY <1>1, <1>3, <3>1, <3>2
 <2>3. i.paths = {Source(i)} \cup {Place(i)} BY <2>1, <2>2
 <2>4. Cardinality(i.paths) = 2
  <3>1. IsFiniteSet({Source(i)}) /\ Cardinality({Source(i)}) = 1 BY FS_Singleton
  <3>2. Cardinality({Source(i)} \cup {Place(i)}) = 1 + 1 BY <1>1, <3>1, FS_AddElement
  <3> QED BY <2>3, <3>2
 <2>5. i.path = Place(i) BY <2>1, <2>2 DEF Form
 <2>6. WrittenAt(i.seq, Place(i)) # Nil /\ WrittenAt(i.seq, Source(i)) = Nil
   BY <1>1, <2>2 DEF WrittenAt, Source, Place
 <2> QED BY <1>1, <2>1, <2>2, <2>3, <2>4, <2>5, <2>6 DEF IsMove
<1> QED BY <1>2, <1>3

\* The cloud says the same of an application after it has grown.
LEMMA IdKept ==
  ASSUME SyncShape, Grows, NEW i, IdHolds(i)
  PROVE  /\ i.seq \in 1..Len(cloud) /\ cloud'[i.seq] = cloud[i.seq] /\ Touches(i.seq)' = Touches(i.seq)
         /\ Source(i)' = Source(i) /\ Place(i)' = Place(i) /\ Form(i)' = Form(i) /\ Writes(i)' = Writes(i)
         /\ \A p : WrittenAt(i.seq, p)' = WrittenAt(i.seq, p)
<1>1. i.seq \in 1..Len(cloud) BY DEF IdHolds
<1>2. /\ cloud'[i.seq] = cloud[i.seq] /\ Touches(i.seq)' = Touches(i.seq)
      /\ \A p : WrittenAt(i.seq, p)' = WrittenAt(i.seq, p) BY <1>1, CloudKept
<1> QED BY <1>1, <1>2 DEF Source, Place, Form, Writes, IsMove

\* What has committed at a path can never do so again.
LEMMA UsedStays ==
  ASSUME NEW g, Used(g), \A o \in Locals : loc[o].st = "committed" => loc'[o].st = "committed",
         \A i \in DOMAIN app : app[i].st = "committed" => i \in DOMAIN app' /\ app'[i].st = "committed"
  PROVE  Used(g)' BY DEF Used

LEMMA UnusedApp ==
  ASSUME SyncInv, NEW id \in DOMAIN app, app[id].st # "committed"
  PROVE  ~Used(id)
<1>1. id.seq # 0 BY DEF SyncInv, Ids, IdHolds
<1>2. id # NoId /\ \A o \in Locals : id # Generation(o) BY <1>1 DEF NoId, Generation
<1> QED BY <1>2 DEF Used

LEMMA UnusedLocal ==
  ASSUME SyncInv, NEW o \in Locals, loc[o].st # "committed"
  PROVE  ~Used(Generation(o))
<1>1. Generation(o).via = o /\ Generation(o).seq = 0 /\ \A l \in Locals : Generation(l).via = l
  BY DEF Generation, NoId
<1>2. o # Nil /\ NoId.via = Nil BY SyncAssumption DEF Nil, NoId
<1>3. Generation(o) \notin DOMAIN app BY <1>1 DEF SyncInv, Ids, IdHolds
<1> QED BY <1>1, <1>2, <1>3 DEF Used

\* An application of another client's is as ready as it was, or behind for good.
LEMMA FinalStays ==
  ASSUME SyncInv, KeptInv, Grows, NEW t \in Clients, thread'[t] = thread[t],
         thread[t].at = "final" =>
           /\ app'[thread[t].id] = app[thread[t].id]
           /\ Writes(thread[t].id) =>
                \/ app[thread[t].id].base[thread[t].id.path].gen # gen'[thread[t].id.path]
                \/ /\ gen'[thread[t].id.path] = gen[thread[t].id.path]
                   /\ head'[thread[t].id.path].seq = head[thread[t].id.path].seq
                   /\ head'[thread[t].id.path].obs = head[thread[t].id.path].obs
  PROVE  FinalAt(t)'
<1> PICK i : i = thread[t].id OBVIOUS
<1> SUFFICES ASSUME thread[t].at = "final" PROVE FinalAt(t)' BY DEF FinalAt
<1>1. SyncShape /\ IdHolds(i) /\ FinalAt(t) BY DEF SyncInv, KeptInv, Ids, Nil
<1>2. /\ \A p : WrittenAt(i.seq, p)' = WrittenAt(i.seq, p)
      /\ Writes(i)' = Writes(i) BY <1>1, IdKept
<1>3. /\ app'[i] = app[i] /\ thread'[t].id = i /\ thread'[t].at = "final" /\ (IsMove(i) => app[i].copied)
      /\ Writes(i) =>
           \/ app[i].base[i.path].gen # gen'[i.path]
           \/ gen'[i.path] = gen[i.path] /\ head'[i.path].seq = head[i.path].seq /\ head'[i.path].obs = head[i.path].obs
      /\ Writes(i) => Stale(i, i.path) \/ head[i.path].seq > i.seq \/ Backed(i) \/ Reused(i) BY <1>1 DEF FinalAt
<1>4. Backed(i)' = Backed(i) /\ Stale(i, i.path)' = (app[i].base[i.path].gen # gen'[i.path])
  BY <1>2, <1>3 DEF Backed, InCopies, Stale
<1>5. head'[i.path].seq = head[i.path].seq /\ head'[i.path].obs = head[i.path].obs => Reused(i)' = Reused(i)
  BY <1>2, <1>3 DEF Reused, Reuse, IsMove
<1>6. Writes(i) => Stale(i, i.path)' \/ head'[i.path].seq > i.seq \/ Backed(i)' \/ Reused(i)'
  BY <1>3, <1>4, <1>5 DEF Stale
<1> QED BY <1>2, <1>3, <1>6 DEF FinalAt, IsMove

LEMMA PublishingStays ==
  ASSUME SyncInv, KeptInv, Grows, NEW t \in Clients, thread'[t] = thread[t],
         thread[t].at \in {"publishing", "commit"} =>
           /\ app'[thread[t].id] = app[thread[t].id] /\ raced \subseteq raced'
           /\ \A p \in thread[t].id.paths : /\ gen'[p] = gen[p] /\ head'[p].seq = head[p].seq /\ head'[p].obs = head[p].obs
                                            /\ cloudFile'[p] = cloudFile[p] \/ cloudFile'[p] \in raced'
  PROVE  PublishingAt(t)'
<1> PICK i : i = thread[t].id OBVIOUS
<1> SUFFICES ASSUME thread[t].at \in {"publishing", "commit"} PROVE PublishingAt(t)' BY DEF PublishingAt
<1>1. SyncShape /\ KeptShape /\ IdHolds(i) /\ Form(i) /\ PublishingAt(t) /\ i.path \in i.paths
  BY DEF SyncInv, KeptInv, Ids, IdHolds, Forms, Nil
<1>2. /\ \A p : WrittenAt(i.seq, p)' = WrittenAt(i.seq, p)
      /\ Writes(i)' = Writes(i) /\ Place(i)' = Place(i) BY <1>1, IdKept
<1>3. app'[i] = app[i] /\ thread'[t].id = i /\ thread'[t].at = thread[t].at /\ raced \subseteq raced' OBVIOUS
<1>4. \A p \in i.paths : /\ gen'[p] = gen[p] /\ head'[p].seq = head[p].seq /\ head'[p].obs = head[p].obs
                         /\ (cloudFile'[p] = cloudFile[p] \/ cloudFile'[p] \in raced') OBVIOUS
<1>5. /\ \A p \in i.paths : ~Stale(i, p)
      /\ thread[t].at = "publishing" =>
           /\ \A p \in i.paths : cloudFile[p] = app[i].base[p].obs \/ cloudFile[p] \in raced
           /\ Writes(i) => Backed(i) \/ Reused(i)
           /\ IsMove(i) => InCopies(i, Place(i)) BY <1>1 DEF PublishingAt
<1>6. \A p \in i.paths : ~Stale(i, p)' BY <1>3, <1>4, <1>5 DEF Stale
<1>7. thread[t].at = "publishing" => \A p \in i.paths : cloudFile'[p] = app'[i].base[p].obs \/ cloudFile'[p] \in raced'
  BY <1>3, <1>4, <1>5
<1>8. Backed(i)' = Backed(i) /\ Reused(i)' = Reused(i) /\ \A p : InCopies(i, p)' = InCopies(i, p)
  BY <1>1, <1>2, <1>3, <1>4 DEF Backed, InCopies, Reused, Reuse, IsMove
<1>9. (IsMove(i) => InCopies(i, Place(i)))' = (IsMove(i) => InCopies(i, Place(i))) BY <1>2, <1>8 DEF IsMove
<1> QED BY <1>2, <1>3, <1>5, <1>6, <1>7, <1>8, <1>9 DEF PublishingAt

\* The heads never fall back.
HeadsGrow == \A p \in CloudPaths : head'[p].seq >= head[p].seq

LEMMA TouchedPaths ==
  ASSUME SyncShape, NEW k \in 1..Len(cloud)
  PROVE  Touches(k) \subseteq CloudPaths /\ k \in Nat /\ \A p \in CloudPaths : head[p].seq \in Nat
<1>1. \E S : cloud \in Seq(S) BY DEF SyncShape
<1>2. Len(cloud) \in Nat BY <1>1
<1> QED BY <1>2 DEF SyncShape, Touches

LEMMA PassedStays ==
  ASSUME SyncShape, SyncShape', Grows, HeadsGrow, NEW k \in 1..Len(cloud), Passed(k)
  PROVE  Passed(k)'
<1>1. Touches(k)' = Touches(k) /\ Touches(k) \subseteq CloudPaths /\ k \in Nat BY CloudKept, TouchedPaths
<1>2. ASSUME NEW p \in Touches(k) PROVE head'[p].seq >= k
 <2>1. head[p].seq >= k /\ head'[p].seq >= head[p].seq /\ head[p].seq \in Nat /\ head'[p].seq \in Nat
   BY <1>1, <1>2 DEF Passed, HeadsGrow, SyncShape
 <2> QED BY <1>1, <2>1
<1> QED BY <1>1, <1>2 DEF Passed

\* The walk is where it was, falls back, or starts again behind.
WalkFrom == ckpt' = 0 \/ (ckpt # 0 /\ ckpt' >= ckpt)

LEMMA RetriableStays ==
  ASSUME SyncInv, SyncShape', Grows, HeadsGrow, WalkFrom, ckpt' \in Nat, NEW i, IdHolds(i), Retriable(i)'
  PROVE  Retriable(i)
<1>1. SyncShape /\ ckpt \in Nat /\ i.seq \in 1..Len(cloud) /\ i.seq \in Nat
 <2>1. SyncShape /\ i.seq \in 1..Len(cloud) BY DEF SyncInv, IdHolds
 <2>2. i.seq \in Nat BY <2>1, TouchedPaths
 <2> QED BY <2>1, <2>2 DEF SyncInv, Walks
<1>2. ckpt # 0 /\ i.seq > ckpt BY <1>1 DEF Retriable, WalkFrom
<1>3. ~Passed(i.seq)' BY DEF Retriable
<1>4. ~Passed(i.seq)
 <2>1. PICK n : n = i.seq OBVIOUS
 <2>2. Passed(n) => Passed(n)' BY <1>1, <2>1, PassedStays
 <2>3. Passed(n)' = Passed(i.seq)' BY <2>1 DEF Passed
 <2> QED BY <1>3, <2>1, <2>2, <2>3
<1> QED BY <1>2, <1>4 DEF Retriable

LEMMA Between ==
  ASSUME NEW n \in Nat, NEW a \in Nat, NEW b \in Nat, NEW c \in 0..n, NEW d \in Int, NEW k \in (b + 1)..d, b >= a, k <= c
  PROVE  k \in (a + 1)..c /\ k \in 1..n OBVIOUS

\* The walk passes no change it has not applied, and the snapshot stays or goes.
WalkSame ==
    /\ ckpt' # 0 => snap' = NoSnapshot /\ \A k \in (ckpt' + 1)..cur' : k <= cur \/ Passed(k)'
    /\ snap' # NoSnapshot => snap # NoSnapshot /\ snap'.through = snap.through
AppsKnown == \A i \in DOMAIN app' : i \in DOMAIN app \/ \E t \in Clients : thread[t].at # Nil /\ thread[t].id = i
ChangeSame ==
    thread'["worker"].at # Nil /\ thread'["worker"].id.via = "change" =>
      thread["worker"].at # Nil /\ thread'["worker"].id = thread["worker"].id

LEMMA OrderStays ==
  ASSUME SyncInv, SyncInv', KeptInv, Grows, HeadsGrow, WalkFrom, WalkSame, AppsKnown, ChangeSame
  PROVE  Order'
<1>1. /\ SyncShape /\ SyncShape' /\ Walks /\ Order /\ Len(cloud) \in Nat
      /\ ckpt \in Nat /\ ckpt' \in Nat /\ cur \in 0..Len(cloud) /\ cur' \in Nat /\ Ids
  BY CloudKept DEF SyncInv, KeptInv, Walks
<1>2. ASSUME NEW k \in (ckpt' + 1)..cur', ckpt' # 0 PROVE Passed(k)'
 <2>1. CASE k <= cur
  <3>1. ckpt # 0 /\ k \in (ckpt + 1)..cur /\ k \in 1..Len(cloud)
   <4>1. ckpt # 0 /\ ckpt' >= ckpt BY <1>2 DEF WalkFrom
   <4>2. cur' \in Int BY <1>1
   <4> QED BY <1>1, <1>2, <2>1, <4>1, <4>2, Between
  <3>2. Passed(k) BY <1>1, <3>1 DEF Order
  <3> QED BY <1>1, <3>1, <3>2, PassedStays
 <2> QED BY <1>2, <2>1 DEF WalkSame
<1>3. ASSUME NEW i \in DOMAIN app', i.via = "change" PROVE OrderOf(i)'
 <2>1. CASE i \in DOMAIN app
  <3>1. OrderOf(i) /\ IdHolds(i) /\ i.seq \in 1..Len(cloud) /\ i.seq \in Nat
    BY <1>1, <1>3, <2>1 DEF Order, Ids, IdHolds
  <3>2. ASSUME ckpt' # 0, NEW k \in (ckpt' + 1)..(i.seq - 1) PROVE Passed(k)'
   <4>1. ckpt # 0 /\ k \in (ckpt + 1)..(i.seq - 1) /\ k \in 1..Len(cloud)
    <5>1. ckpt # 0 /\ ckpt' >= ckpt BY <3>2 DEF WalkFrom
    <5>2. PICK n, a, b, c : n = Len(cloud) /\ a = ckpt /\ b = ckpt' /\ c = i.seq - 1 OBVIOUS
    <5>3. n \in Nat /\ a \in Nat /\ b \in Nat BY <1>1, <3>1, <3>2, <5>1, <5>2
    <5>4. b >= a BY <1>1, <3>1, <3>2, <5>1, <5>2
    <5>5. c \in 0..n /\ c \in Int BY <1>1, <3>1, <3>2, <5>1, <5>2
    <5>6. k \in (b + 1)..c BY <1>1, <3>1, <3>2, <5>1, <5>2
    <5>7. k <= c BY <5>3, <5>5, <5>6
    <5>8. k \in (a + 1)..c /\ k \in 1..n BY <5>7, <5>3, <5>4, <5>5, <5>6, Between
    <5> QED BY <5>1, <5>2, <5>8
   <4>2. Passed(k) BY <3>1, <4>1 DEF OrderOf
   <4> QED BY <1>1, <4>1, <4>2, PassedStays
  <3>3. snap' # NoSnapshot => i.seq <= snap'.through BY <3>1 DEF OrderOf, WalkSame
  <3>4. Retriable(i)' => Retriable(i) BY <1>1, <3>1, RetriableStays
  <3> QED BY <3>1, <3>2, <3>3, <3>4 DEF OrderOf, NoSnapshot, ChangeSame
 <2>2. CASE i \notin DOMAIN app
  <3>1. i = thread["worker"].id /\ thread["worker"].at # Nil BY <1>1, <1>3, <2>2 DEF Ids, Clients, AppsKnown
  <3>2. ckpt # 0 /\ i.seq = cur + 1 BY <1>1, <1>3, <3>1 DEF Walks
  <3>3. ASSUME ckpt' # 0, NEW k \in (ckpt' + 1)..(i.seq - 1) PROVE Passed(k)'
   <4>1. k \in (ckpt + 1)..cur /\ k \in 1..Len(cloud)
    <5>1. ckpt' >= ckpt BY <3>3 DEF WalkFrom
    <5>2. PICK n, a, b, c : n = Len(cloud) /\ a = ckpt /\ b = ckpt' /\ c = cur OBVIOUS
    <5>3. n \in Nat /\ a \in Nat /\ b \in Nat BY <1>1, <3>2, <3>3, <5>1, <5>2
    <5>4. b >= a BY <1>1, <3>2, <3>3, <5>1, <5>2
    <5>5. c \in 0..n /\ c \in Int BY <1>1, <3>2, <3>3, <5>1, <5>2
    <5>6. i.seq - 1 = c BY <1>1, <3>2, <5>2
    <5>7. k \in (b + 1)..c BY <3>3, <5>2, <5>6
    <5>8. k <= c BY <5>3, <5>5, <5>7
    <5>9. k \in (a + 1)..c /\ k \in 1..n BY <5>8, <5>3, <5>4, <5>5, <5>7, Between
    <5> QED BY <5>2, <5>9
   <4>2. Passed(k) BY <1>1, <3>2, <4>1 DEF Order
   <4> QED BY <1>1, <4>1, <4>2, PassedStays
  <3>4. snap' = NoSnapshot BY <1>1, <3>2 DEF Order, WalkSame
  <3>5. thread'["worker"].at # Nil /\ thread'["worker"].id.via = "change" => thread'["worker"].id = i
    BY <3>1 DEF ChangeSame
  <3> QED BY <3>3, <3>4, <3>5 DEF OrderOf, NoSnapshot
 <2> QED BY <2>1, <2>2
<1> QED BY <1>2, <1>3 DEF Order, NoSnapshot, WalkSame

\* A move is not in danger that was not, and what covers it does.
LEMMA AwayStays ==
  ASSUME SyncInv, KeptInv, DOMAIN app \subseteq DOMAIN app',
         \A i \in DOMAIN app' : Returned(i)' =>
           /\ i \in DOMAIN app /\ Returned(i) /\ Place(i)' = Place(i)
           /\ cloudFile'[Place(i)] = cloudFile[Place(i)] /\ gen'[Place(i)] = gen[Place(i)],
         \A j \in DOMAIN app, p \in CloudPaths : \A v :
           v # Nil /\ gen'[p] = gen[p] /\ cloudFile'[p] = v /\ Covers(j, p, v) => Covers(j, p, v)'
  PROVE  Away'
<1> SUFFICES ASSUME NEW i \in DOMAIN app', Returned(i)' PROVE \E j \in DOMAIN app' : Covers(j, Place(i), cloudFile[Place(i)])'
  BY DEF Away
<1>1. PICK p, v : p = Place(i) /\ v = cloudFile[p] OBVIOUS
<1>2. i \in DOMAIN app /\ Returned(i) /\ Place(i)' = p /\ cloudFile'[p] = v /\ gen'[p] = gen[p] /\ v # Nil
  BY <1>1 DEF Returned, InCopies
<1>3. p \in CloudPaths
 <2>1. SyncShape /\ KeptShape /\ IdHolds(i) /\ Form(i) /\ IsMove(i) BY <1>2 DEF SyncInv, KeptInv, Ids, Forms, Returned
 <2>2. Place(i) \in i.paths /\ i.paths \subseteq CloudPaths BY <2>1, FormFacts DEF IdHolds
 <2> QED BY <1>1, <2>2
<1>4. PICK j \in DOMAIN app : Covers(j, p, v) BY <1>1, <1>2 DEF KeptInv, Away
<1>5. Covers(j, p, v)' /\ j \in DOMAIN app' BY <1>2, <1>3, <1>4
<1> QED BY <1>2, <1>5

--------------------
\* What the steps have in common, conjunct by conjunct.
CommittedStays ==
    /\ \A o \in Locals : loc[o].st = "committed" => loc'[o].st = "committed"
    /\ \A i \in DOMAIN app : app[i].st = "committed" => i \in DOMAIN app' /\ app'[i].st = "committed"

LEMMA FormsStay ==
  ASSUME SyncInv, SyncInv', KeptInv, Grows, AppsKnown,
         \A t \in Clients : thread'[t].at # Nil =>
           (thread[t].at # Nil /\ thread'[t].id = thread[t].id) \/ Form(thread[t].id)'
  PROVE  Forms'
<1>1. SyncShape /\ Ids /\ Forms BY DEF SyncInv, KeptInv
<1>2. ASSUME NEW i, IdHolds(i), Form(i) PROVE Form(i)' BY <1>1, <1>2, IdKept
<1>3. ASSUME NEW t \in Clients, thread[t].at # Nil PROVE Form(thread[t].id) /\ IdHolds(thread[t].id)
  BY <1>1, <1>3 DEF Ids, Forms
<1>4. ASSUME NEW i \in DOMAIN app' PROVE Form(i)'
 <2>1. Form(i) /\ IdHolds(i) BY <1>1, <1>3 DEF AppsKnown, Ids, Forms
 <2> QED BY <1>2, <2>1
<1>5. ASSUME NEW t \in Clients, thread'[t].at # Nil PROVE Form(thread[t].id)'
 <2>1. CASE thread[t].at # Nil /\ thread'[t].id = thread[t].id
  <3>1. PICK i : i = thread[t].id OBVIOUS
  <3>2. Form(i)' BY <1>2, <1>3, <2>1, <3>1
  <3>3. thread'[t].id = i BY <2>1, <3>1
  <3> QED BY <3>2, <3>3 DEF Form, Touches, Source, Place, WrittenAt
 <2> QED BY <1>5, <2>1
<1> QED BY <1>4, <1>5 DEF Forms

LEMMA BaselinesStay ==
  ASSUME SyncInv, KeptInv, Grows, LocsFrom,
         \A p \in CloudPaths : \/ head'[p].seq = head[p].seq /\ head'[p].obs = head[p].obs
                               \/ \A n \in {head'[p].seq} : Shown(p, n)'
  PROVE  BaselinesShow'
<1> SUFFICES ASSUME NEW p \in CloudPaths, head'[p].seq # 0, head'[p].seq = head[p].seq, head'[p].obs = head[p].obs
             PROVE  \A n \in {head'[p].seq} : Shown(p, n)' BY DEF BaselinesShow
<1>1. SyncShape /\ Pushes /\ BaselinesShow BY DEF SyncInv, KeptInv
<1>2. PICK n : n = head[p].seq OBVIOUS
<1>3. n \in 1..Len(cloud) /\ Shown(p, n) BY <1>1, <1>2 DEF SyncShape, BaselinesShow
<1>4. cloud'[n] = cloud[n] /\ WrittenAt(n, p)' = WrittenAt(n, p) BY <1>1, <1>3, CloudKept
<1>5. cloud[n].by # Nil => cloud[n].by \in Locals /\ loc[cloud[n].by].st = "committed" BY <1>1, <1>3 DEF Pushes
<1>6. Shown(p, n)' BY <1>2, <1>3, <1>4, <1>5 DEF Shown, LocsFrom
<1> QED BY <1>2, <1>6

LEMMA GensStay ==
  ASSUME KeptInv, CommittedStays,
         \A p \in CloudPaths : gen'[p] = gen[p] \/ Used(gen[p])',
         \A i \in DOMAIN app' : \A p \in i.paths :
           \/ i \in DOMAIN app /\ app'[i].base[p].gen = app[i].base[p].gen
           \/ p \in CloudPaths /\ app'[i].base[p].gen = gen[p]
  PROVE  GensUsed'
<1>1. GensUsed BY DEF KeptInv
<1>2. \A g : Used(g) => Used(g)' BY DEF Used, CommittedStays
<1>3. ASSUME NEW p \in CloudPaths PROVE Used(gen[p])'
 <2>1. PICK g : g = gen'[p] OBVIOUS
 <2>2. gen'[p] = gen[p] => Used(g)' BY <1>1, <1>2, <2>1 DEF GensUsed
 <2>3. Used(g)' = Used(gen[p])' BY <2>1 DEF Used
 <2> QED BY <2>2, <2>3
<1>4. ASSUME NEW i \in DOMAIN app', NEW p \in i.paths PROVE Used(app[i].base[p].gen)'
 <2>1. PICK g : g = app'[i].base[p].gen OBVIOUS
 <2>2. Used(g) BY <1>1, <2>1 DEF GensUsed
 <2>3. Used(g)' BY <1>2, <2>2
 <2> QED BY <2>1, <2>3 DEF Used
<1> QED BY <1>3, <1>4 DEF GensUsed

\* An application that nothing has been copied for yet.
Fresh(i) ==
    /\ app'[i].st \in {"accepted", "staged"} /\ ~app'[i].copied
    /\ {"base", "copied", "copies", "evidence", "applied"} \subseteq DOMAIN app'[i]
    /\ i \in DOMAIN app => app[i].st = "accepted" /\ app'[i].base = app[i].base
    /\ i \notin DOMAIN app => \A p \in i.paths : app'[i].base[p].gen = gen[p]
AppsQuiet ==
    /\ DOMAIN app \subseteq DOMAIN app'
    /\ \A i \in DOMAIN app' : (i \in DOMAIN app /\ app'[i] = app[i]) \/ Fresh(i)

ThreadsQuiet ==
    \A t \in Clients :
      \/ thread'[t] = thread[t]
      \/ thread'[t].at = Nil
      \/ thread'[t].at \in {"prepare", "stage", "publish"} /\ thread[t].at # Nil /\ thread'[t].id = thread[t].id
      \/ thread'[t].at = "prepare" /\ thread[t].at = Nil /\ Form(thread[t].id)'

Retries ==
    /\ \A i \in DOMAIN app : Retriable(i)' => Retriable(i) \/ thread["worker"].id = i \/ ~IsMove(i)
    /\ \A i \in DOMAIN app : thread'["worker"].id = i => thread["worker"].id = i \/ ~IsMove(i) \/ Retriable(i)

CoversQuiet ==
    \A j \in DOMAIN app, p \in CloudPaths : cloudFile[p] # Nil /\ Covers(j, p, cloudFile[p]) => Covers(j, p, cloudFile[p])'

LEMMA AppsOf ==
  ASSUME SyncInv, AppsQuiet, NEW t \in Clients, thread[t].at \in {"publish", "final", "publishing", "commit"}
  PROVE  thread[t].id \in DOMAIN app /\ app'[thread[t].id] = app[thread[t].id]
<1>1. /\ thread[t].id \in DOMAIN app /\ app[thread[t].id].st \in {"staged", "publishing"}
  BY DEF SyncInv, Stages, StageAt
<1> QED BY <1>1 DEF AppsQuiet, Fresh

\* A step that writes no file and commits nothing.
LEMMA QuietKept ==
  ASSUME SyncInv, SyncInv', KeptInv, Grows, LocsFrom, KeptShape', PushesAlone', Order',
         AppsKnown, AppsQuiet, ThreadsQuiet, Retries, CoversQuiet,
         cloudFile' = cloudFile, gen' = gen, seen' = seen,
         \A p \in CloudPaths : head'[p].seq = head[p].seq /\ head'[p].obs = head[p].obs
  PROVE  KeptInv'
<1>1. /\ SyncShape /\ SyncShape' /\ KeptShape /\ Forms /\ Ids /\ GensUsed /\ CopiesHold /\ Away /\ DisplacedKept
      /\ lost' = lost /\ raced' = raced BY DEF SyncInv, KeptInv, seen
<1>2. Forms'
 <2>1. \A t \in Clients : thread'[t].at # Nil =>
          (thread[t].at # Nil /\ thread'[t].id = thread[t].id) \/ Form(thread[t].id)' BY DEF ThreadsQuiet, Nil
 <2> QED BY <2>1, FormsStay
<1>3. BaselinesShow' BY BaselinesStay
<1>4. GensUsed'
 <2>1. CommittedStays BY DEF CommittedStays, LocsFrom, AppsQuiet, Fresh
 <2>2. \A i \in DOMAIN app : IdHolds(i) BY <1>1 DEF Ids
 <2>3. \A i \in DOMAIN app' : i.paths \subseteq CloudPaths BY <1>1 DEF AppsKnown, Ids, IdHolds
 <2>4. ASSUME NEW i \in DOMAIN app', NEW p \in i.paths
       PROVE  \/ i \in DOMAIN app /\ app'[i].base[p].gen = app[i].base[p].gen
              \/ p \in CloudPaths /\ app'[i].base[p].gen = gen[p] BY <2>3 DEF AppsQuiet, Fresh
 <2> QED BY <2>1, <2>4, GensStay
<1>5. CopiesHold'
 <2>1. ASSUME NEW i \in DOMAIN app', app'[i].copied PROVE app'[i].st # "accepted" /\ (Writes(i) => InCopies(i, i.path))'
  <3>1. i \in DOMAIN app /\ app'[i] = app[i] /\ app[i].copied BY <2>1 DEF AppsQuiet, Fresh
  <3>2. \A p : WrittenAt(i.seq, p)' = WrittenAt(i.seq, p) /\ Writes(i)' = Writes(i) BY <1>1, <3>1, IdKept DEF Ids
  <3> QED BY <1>1, <3>1, <3>2 DEF CopiesHold, InCopies
 <2> QED BY <2>1 DEF CopiesHold
<1>6. ASSUME NEW t \in Clients PROVE FinalAt(t)' /\ PublishingAt(t)'
 <2>1. CASE thread'[t] = thread[t]
  <3>1. thread[t].at \in {"final", "publishing", "commit"} => app'[thread[t].id] = app[thread[t].id] BY AppsOf
  <3>2. FinalAt(t)'
   <4>1. thread[t].at = "final" => thread[t].id.path \in CloudPaths BY <1>1 DEF Ids, IdHolds, Nil
   <4> QED BY <2>1, <3>1, <4>1, FinalStays
  <3>3. PublishingAt(t)'
   <4>1. thread[t].at \in {"publishing", "commit"} => thread[t].id.paths \subseteq CloudPaths
     BY <1>1 DEF Ids, IdHolds, Nil
   <4> QED BY <1>1, <2>1, <3>1, <4>1, PublishingStays
  <3> QED BY <3>2, <3>3
 <2>2. CASE thread'[t].at \in {Nil, "prepare", "stage", "publish"} BY <2>2 DEF FinalAt, PublishingAt, Nil
 <2> QED BY <2>1, <2>2 DEF ThreadsQuiet
<1>7. Away'
 <2>1. ASSUME NEW i \in DOMAIN app', Returned(i)'
       PROVE  i \in DOMAIN app /\ Returned(i) /\ Place(i)' = Place(i)
  <3>1. i \in DOMAIN app /\ app'[i] = app[i] /\ app[i].copied BY <2>1 DEF AppsQuiet, Fresh, Returned
  <3>2. /\ Place(i)' = Place(i) /\ \A p : WrittenAt(i.seq, p)' = WrittenAt(i.seq, p) BY <1>1, <3>1, IdKept DEF Ids
  <3>3. Retriable(i) \/ thread["worker"].id = i BY <2>1, <3>1 DEF Returned, Retries, IsMove
  <3> QED BY <2>1, <3>1, <3>2, <3>3 DEF Returned, Stale, InCopies, IsMove
 <2>2. ASSUME NEW j \in DOMAIN app, NEW p \in CloudPaths, NEW v, v # Nil, cloudFile[p] = v, Covers(j, p, v)
       PROVE  Covers(j, p, v)'
  <3>1. Covers(j, p, cloudFile[p])' BY <2>2 DEF CoversQuiet
  <3> QED BY <2>2, <3>1
 <2> QED BY <2>1, <2>2, AwayStays DEF AppsQuiet
<1>8. DisplacedKept' BY <1>1 DEF DisplacedKept
<1> QED BY <1>2, <1>3, <1>4, <1>5, <1>6, <1>7, <1>8 DEF KeptInv

--------------------
\* An application at its commit, or over but undecided, goes on to cover its path.
LEMMA CoversStay ==
  ASSUME SyncInv, Grows, AppsQuiet, cloudFile' = cloudFile, gen' = gen, \A p \in CloudPaths : head'[p].seq = head[p].seq,
         \A t \in Clients : thread[t].at = "commit" => thread'[t] = thread[t], syncMode = "recover" => syncMode' = "recover"
  PROVE  CoversQuiet
<1> SUFFICES ASSUME NEW j \in DOMAIN app, NEW p \in CloudPaths, cloudFile[p] # Nil, Covers(j, p, cloudFile[p]) PROVE Covers(j, p, cloudFile[p])'
  BY DEF CoversQuiet
<1>1. app[j].st \in {"indeterminate", "publishing"} /\ j \in DOMAIN app' /\ app'[j] = app[j]
  BY DEF Covers, AppsQuiet, Fresh
<1>2. WrittenAt(j.seq, p)' = WrittenAt(j.seq, p)
 <2>1. SyncShape /\ IdHolds(j) BY DEF SyncInv, Ids
 <2> QED BY <2>1, IdKept
<1> QED BY <1>1, <1>2 DEF Covers, Stale, IsMove

LocFields(o) ==
    /\ DOMAIN loc'[o] = DOMAIN loc[o] /\ loc'[o].kind = loc[o].kind /\ loc'[o].from = loc[o].from /\ loc'[o].to = loc[o].to
    /\ loc'[o].base = loc[o].base /\ loc'[o].obs = loc[o].obs /\ (loc[o].st = Nil <=> loc'[o].st = Nil)

LEMMA ShapeStays ==
  ASSUME SyncInv, KeptInv, Grows, \A o \in Locals : LocFields(o) \/ (loc[o].st = Nil /\ LocShape(o)'),
         DOMAIN cloudFile' = CloudPaths, DOMAIN gen' = CloudPaths, \A p \in CloudPaths : "obs" \in DOMAIN head'[p],
         \A i \in DOMAIN app' : {"base", "copied", "copies", "evidence", "applied"} \subseteq DOMAIN app'[i],
         \A k \in 1..Len(cloud') : k \in 1..Len(cloud) \/ EntryShape(k)'
  PROVE  KeptShape'
<1>1. SyncShape /\ KeptShape /\ Pushes BY DEF SyncInv, KeptInv
<1>2. ASSUME NEW o \in Locals, LocFields(o) PROVE LocShape(o)' BY <1>1, <1>2 DEF KeptShape, LocShape, LocFields
<1>3. ASSUME NEW k \in 1..Len(cloud) PROVE EntryShape(k)'
 <2>1. cloud'[k] = cloud[k] /\ EntryShape(k) BY <1>1, CloudKept DEF KeptShape
 <2>2. cloud[k].by # Nil => loc'[cloud[k].by].kind = loc[cloud[k].by].kind BY <1>1 DEF Pushes, LocFields, Nil
 <2> QED BY <2>1, <2>2 DEF EntryShape
<1> QED BY <1>1, <1>2, <1>3 DEF KeptShape

LEMMA WalkUnmoved ==
  ASSUME SyncInv, KeptInv, walk' = walk
  PROVE  WalkFrom /\ WalkSame
<1>1. ckpt' = ckpt /\ cur' = cur /\ snap' = snap /\ ckpt \in Nat /\ cur \in Nat BY DEF walk, SyncInv, Walks
<1>2. ckpt # 0 => snap = NoSnapshot BY DEF KeptInv, Order
<1>3. \A k \in (ckpt + 1)..cur : k <= cur BY <1>1
<1> QED BY <1>1, <1>2, <1>3 DEF WalkFrom, WalkSame

\* A step of the worker that leaves the files and the records alone.
LEMMA RecordsKept ==
  ASSUME SyncInv, SyncInv', KeptInv, UNCHANGED <<cloud, cloudFile, gen, loc, app, lost, raced>>, Order', PushesAlone',
         ThreadsQuiet, Retries, \A t \in Clients : thread[t].at = "commit" => thread'[t] = thread[t],
         syncMode = "recover" => syncMode' = "recover",
         \A p \in CloudPaths : head'[p].seq = head[p].seq /\ head'[p].obs = head[p].obs /\ "obs" \in DOMAIN head'[p]
  PROVE  KeptInv'
<1>1. Grows /\ LocsFrom /\ AppsKnown /\ AppsQuiet /\ seen' = seen BY DEF Grows, LocsFrom, AppsKnown, AppsQuiet, seen
<1>2. KeptShape'
 <2>1. KeptShape BY DEF KeptInv
 <2>2. \A o \in Locals : LocFields(o) BY DEF LocFields
 <2> QED BY <1>1, <2>1, <2>2, ShapeStays DEF KeptShape
<1>3. CoversQuiet BY <1>1, CoversStay
<1> QED BY <1>1, <1>2, <1>3, QuietKept

\* A step of another owner, of a push or of a local operation that is only accepted.
LEMMA OthersKept ==
  ASSUME SyncInv, SyncInv', KeptInv, UNCHANGED <<cloudFile, gen, app, head, thread, walk, lost, raced, syncMode>>, Grows, LocsFrom,
         PushesAlone',
         \A o \in Locals : LocFields(o) \/ (loc[o].st = Nil /\ LocShape(o)'),
         \A k \in 1..Len(cloud') : k \in 1..Len(cloud) \/ EntryShape(k)'
  PROVE  KeptInv'
<1>1. AppsKnown /\ AppsQuiet /\ ThreadsQuiet /\ ChangeSame /\ seen' = seen /\ SyncShape /\ SyncShape' /\ KeptShape
  BY DEF AppsKnown, AppsQuiet, ThreadsQuiet, ChangeSame, seen, SyncInv, KeptInv
<1>2. WalkFrom /\ WalkSame BY WalkUnmoved
<1>3. HeadsGrow /\ ckpt' \in Nat BY <1>1 DEF HeadsGrow, SyncShape, SyncInv, Walks
<1>4. Order' BY <1>1, <1>2, <1>3, OrderStays
<1>5. Retries
 <2>1. \A i \in DOMAIN app : IdHolds(i) BY DEF SyncInv, Ids
 <2> QED BY <1>1, <1>2, <1>3, <2>1, RetriableStays DEF Retries
<1>6. KeptShape' BY <1>1, ShapeStays DEF KeptShape
<1>7. CoversQuiet BY <1>1, CoversStay
<1> QED BY <1>1, <1>4, <1>5, <1>6, <1>7, QuietKept

LEMMA CloudChangeKept ==
  ASSUME SyncInv, SyncInv', KeptInv, CloudChange
  PROVE  KeptInv'
<1>0. /\ SyncShape /\ UNCHANGED <<cloudFile, gen, loc, app, head, thread, pushing, walk, lost, raced, syncMode>> /\ PushesAlone
  BY DEF SyncInv, KeptInv, CloudChange, local, seen
<1>1. PICK p, f, q, v :
        /\ p \in CloudPaths /\ f \in CloudPaths \cup {Nil} /\ q \in CloudPaths \cup {Nil}
        /\ cloud' = Append(cloud, [from |-> f, to |-> q, v |-> v, by |-> Nil])
        /\ p \in {f, q} /\ f # q /\ (f # Nil /\ q # Nil => v # Nil)
 <2>1. \A p \in CloudPaths : p # Nil BY SyncAssumption DEF Nil
 <2>2. CASE \E p \in CloudPaths, v \in Remotes : cloud' = Append(cloud, [from |-> Nil, to |-> p, v |-> v, by |-> Nil])
   BY <2>1, <2>2
 <2>3. CASE \E p \in CloudPaths : \E q \in (CloudPaths \ {p}) \cup {Nil} :
              /\ WrittenAt(CloudHead(p), p) # Nil
              /\ cloud' = Append(cloud, [from |-> p, to |-> q, v |-> IF q = Nil THEN Nil ELSE WrittenAt(CloudHead(p), p), by |-> Nil])
   BY <2>1, <2>3
 <2> QED BY <2>2, <2>3 DEF CloudChange
<1> DEFINE e == [from |-> f, to |-> q, v |-> v, by |-> Nil]
<1>2. /\ cloud' = Append(cloud, e) /\ e.from = f /\ e.to = q /\ e.v = v /\ e.by = Nil /\ f \in CloudPaths \cup {Nil}
      /\ q \in CloudPaths \cup {Nil} /\ (f = Nil => q # Nil)
 <2>1. p # Nil BY <1>1, SyncAssumption DEF Nil
 <2> QED BY <1>1, <2>1
<1> HIDE DEF e
<1>3. Len(cloud) \in Nat /\ Len(cloud') = Len(cloud) + 1 /\ cloud'[Len(cloud) + 1] = e BY <1>0, <1>2, CloudGrows
<1>4. ASSUME NEW k \in 1..Len(cloud'), k \notin 1..Len(cloud) PROVE EntryShape(k)'
 <2>1. cloud'[k] = e BY <1>3, <1>4
 <2> QED BY <1>1, <1>2, <2>1 DEF EntryShape
<1>5. Grows /\ LocsFrom /\ PushesAlone' /\ \A o \in Locals : LocFields(o)
  BY <1>0, <1>2 DEF Grows, LocsFrom, PushesAlone, LocFields
<1> QED BY <1>0, <1>4, <1>5, OthersKept

LEMMA PushKept ==
  ASSUME SyncInv, SyncInv', KeptInv, LosePush \/ (\E o \in Locals : BeginPush(o)) \/ PushConflict
  PROVE  KeptInv'
<1>0. /\ SyncShape /\ Pushes /\ PushesAlone
      /\ UNCHANGED <<cloud, cloudFile, gen, app, head, thread, walk, lost, raced, syncMode>>
  BY DEF SyncInv, KeptInv, LosePush, BeginPush, PushConflict, local, seen, syncBudget
<1>1. /\ thread["worker"].at = Nil \/ pushing' = NoPush
      /\ \/ loc' = loc
         \/ \E o \in Locals, w \in {"transfer", "conflict"} : loc[o].push # "clean" /\ loc' = [loc EXCEPT ![o].push = w]
 <2>1. CASE LosePush BY <2>1 DEF LosePush, local
 <2>2. CASE \E o \in Locals : BeginPush(o) BY <2>2 DEF BeginPush, Idle, Pushable, Nil
 <2>3. CASE PushConflict
  <3>1. pushing.id \in Locals /\ loc[pushing.id].push = "transfer" BY <1>0, <2>3 DEF PushConflict, Pushes, Nil
  <3> QED BY <2>3, <3>1 DEF PushConflict
 <2> QED BY <2>1, <2>2, <2>3
<1>2. LocsFrom /\ \A o \in Locals : LocFields(o)
 <2>1. CASE loc' = loc BY <2>1 DEF LocsFrom, LocFields
 <2>2. CASE \E o \in Locals, w \in {"transfer", "conflict"} : loc[o].push # "clean" /\ loc' = [loc EXCEPT ![o].push = w]
  <3>1. PICK o \in Locals, w \in {"transfer", "conflict"} : loc[o].push # "clean" /\ loc' = [loc EXCEPT ![o].push = w]
    BY <2>2
  <3>2. /\ \A x \in Locals \ {o} : loc'[x] = loc[x]
        /\ loc'[o] = [loc[o] EXCEPT !.push = w] /\ {"kind", "from", "to", "st", "push"} \subseteq DOMAIN loc[o]
    BY <1>0, <3>1 DEF SyncShape
  <3> QED BY <3>1, <3>2 DEF LocsFrom, LocFields
 <2> QED BY <1>1, <2>1, <2>2
<1>3. Grows /\ PushesAlone' BY <1>0, <1>1 DEF Grows, PushesAlone, NoPush, Nil
<1> QED BY <1>0, <1>2, <1>3, OthersKept

LEMMA SendKept ==
  ASSUME SyncInv, SyncInv', KeptInv, SendPush
  PROVE  KeptInv'
<1> PICK o : o = pushing.id OBVIOUS
<1>0. /\ SyncShape /\ KeptShape /\ UNCHANGED <<cloudFile, gen, loc, app, head, thread, walk, lost, raced, syncMode>>
      /\ thread["worker"].at = Nil /\ o \in Locals /\ loc[o].st = "committed"
 <2>1. pushing.at # Nil /\ UNCHANGED <<cloudFile, gen, loc, app, head, thread, walk, lost, raced, syncMode>>
   BY DEF SendPush, local, seen, syncBudget, Nil
 <2>2. SyncShape /\ KeptShape /\ Pushes /\ PushesAlone BY DEF SyncInv, KeptInv
 <2> QED BY <2>1, <2>2 DEF Pushes, PushesAlone
<1>1. Grows BY DEF SendPush, Grows
<1>2. ASSUME NEW k \in 1..Len(cloud'), k \notin 1..Len(cloud) PROVE EntryShape(k)'
 <2> DEFINE e == [from |-> IF loc[o].kind = "upload" THEN Nil ELSE loc[o].from, to |-> loc[o].to, v |-> NowAt(o), by |-> o]
 <2>1. cloud' = Append(cloud, e) BY <1>2 DEF SendPush
 <2>2. /\ e.from = (IF loc[o].kind = "upload" THEN Nil ELSE loc[o].from) /\ e.to = loc[o].to /\ e.v = NowAt(o) /\ e.by = o
       /\ o # Nil /\ LocShape(o) /\ loc[o].kind \in {"upload", "delete", "move"}
       /\ (loc[o].kind = "upload" => loc[o].to # Nil) /\ (loc[o].kind \in {"delete", "move"} => loc[o].from # Nil)
       /\ loc[o].from \in CloudPaths \cup {Nil} /\ loc[o].to \in CloudPaths \cup {Nil}
   BY <1>0, SyncAssumption DEF SyncShape, KeptShape, Nil
 <2> HIDE DEF e
 <2>3. Len(cloud) \in Nat /\ Len(cloud') = Len(cloud) + 1 /\ cloud'[Len(cloud) + 1] = e
   BY <1>0, <2>1, <2>2, CloudGrows
 <2>4. cloud'[k] = e BY <1>2, <2>3
 <2> QED BY <1>0, <2>2, <2>4 DEF EntryShape, LocShape, NowAt
<1>3. LocsFrom /\ PushesAlone' /\ \A x \in Locals : LocFields(x) BY <1>0 DEF LocsFrom, PushesAlone, LocFields
<1> QED BY <1>0, <1>1, <1>2, <1>3, OthersKept

LEMMA AcceptKept ==
  ASSUME SyncInv, SyncInv', KeptInv, NEW o \in Locals, LocalAccept(o)
  PROVE  KeptInv'
<1>0. /\ SyncShape /\ PushesAlone /\ UNCHANGED <<cloud, cloudFile, gen, app, head, thread, pushing, walk, lost, raced, syncMode>>
      /\ loc[o].st = Nil BY DEF SyncInv, KeptInv, LocalAccept, seen
<1>1. \E k \in {"upload", "delete", "move"}, p \in CloudPaths, q \in CloudPaths \cup {Nil} :
        /\ k = "delete" => q = Nil
        /\ k = "move" => q # p /\ cloudFile[p] # Nil
        /\ loc' = [loc EXCEPT ![o] = LocalEntry(k, p, q)] BY DEF LocalAccept
<1>2. PICK k, p, q : /\ k = "delete" => q = Nil
                     /\ k = "move" => q # p /\ cloudFile[p] # Nil
                     /\ loc' = [loc EXCEPT ![o] = LocalEntry(k, p, q)] BY <1>1
<1>3. /\ {"base", "obs"} \subseteq DOMAIN LocalEntry(k, p, q) /\ LocalEntry(k, p, q).kind = k /\ LocalEntry(k, p, q).from = p
      /\ LocalEntry(k, p, q).to = q /\ LocalEntry(k, p, q).obs = cloudFile[p]
      /\ DOMAIN LocalEntry(k, p, q).base = {p, q} \ {Nil} BY DEF LocalEntry
<1>4. loc'[o] = LocalEntry(k, p, q) /\ \A x \in Locals : x # o => loc'[x] = loc[x] BY <1>0, <1>2 DEF SyncShape
<1>5. LocShape(o)' BY <1>2, <1>3, <1>4 DEF LocShape
<1>6. LocsFrom /\ Grows /\ PushesAlone' /\ \A x \in Locals : LocFields(x) \/ x = o
  BY <1>0, <1>4 DEF LocsFrom, Grows, PushesAlone, LocFields, Nil
<1> QED BY <1>0, <1>5, <1>6, OthersKept

--------------------
\* The walk and the snapshot.
LEMMA PagesKept ==
  ASSUME SyncInv, SyncInv', KeptInv, ReadChanges \/ SaveCheckpoint \/ CursorExpires
  PROVE  KeptInv'
<1>0. /\ SyncShape /\ KeptShape /\ Walks /\ Order /\ PushesAlone
      /\ UNCHANGED <<cloud, cloudFile, gen, loc, app, head, thread, pushing, lost, raced, syncMode>>
  BY DEF SyncInv, KeptInv, ReadChanges, SaveCheckpoint, CursorExpires, local, syncBudget, seen
<1>1. /\ ckpt' \in {ckpt, cur, 0} /\ ckpt' = cur' /\ (ckpt' # 0 => ckpt # 0) /\ snap' \in {snap, NoSnapshot}
 <2>1. CASE ReadChanges BY <1>0, <2>1 DEF ReadChanges, Walks
 <2>2. CASE SaveCheckpoint BY <1>0, <2>2 DEF SaveCheckpoint, Walks, NextOfWalk
 <2>3. CASE CursorExpires BY <1>0, <2>3 DEF CursorExpires, Walks
 <2> QED BY <2>1, <2>2, <2>3
<1>2. WalkFrom /\ WalkSame /\ ckpt' \in Nat
 <2>1. ckpt \in Nat /\ cur \in Nat /\ ckpt <= cur BY <1>0 DEF Walks
 <2>2. WalkFrom /\ ckpt' \in Nat BY <1>1, <2>1 DEF WalkFrom
 <2>3. \A k : k \notin (ckpt' + 1)..cur' BY <1>1, <2>2
 <2>4. ckpt' # 0 => snap' = NoSnapshot BY <1>0, <1>1 DEF Order
 <2> QED BY <1>1, <2>2, <2>3, <2>4 DEF WalkSame
<1>3. Grows /\ HeadsGrow /\ AppsKnown /\ ChangeSame /\ SyncShape' /\ ThreadsQuiet /\ PushesAlone'
  BY <1>0 DEF Grows, HeadsGrow, AppsKnown, ChangeSame, SyncInv, ThreadsQuiet, PushesAlone, SyncShape
<1>4. Order' BY <1>2, <1>3, OrderStays
<1>5. Retries
 <2>1. \A i \in DOMAIN app : IdHolds(i) BY DEF SyncInv, Ids
 <2> QED BY <1>0, <1>2, <1>3, <2>1, RetriableStays DEF Retries
<1> QED BY <1>0, <1>3, <1>4, <1>5, RecordsKept DEF KeptShape

LEMMA TakeSnapshotKept ==
  ASSUME SyncInv, SyncInv', KeptInv, TakeSnapshot
  PROVE  KeptInv'
<1>0. /\ SyncShape /\ KeptShape /\ Ids /\ PushesAlone /\ ckpt' = 0 /\ thread["worker"].at = Nil
      /\ UNCHANGED <<cloud, cloudFile, gen, loc, app, head, thread, pushing, lost, raced, syncMode>>
  BY DEF SyncInv, KeptInv, TakeSnapshot, Idle, local, syncBudget, seen
<1>1. snap'.through = Len(cloud) BY DEF TakeSnapshot
<1>2. Order'
 <2>1. ASSUME NEW i \in DOMAIN app PROVE i.seq <= Len(cloud) BY <1>0 DEF Ids, IdHolds
 <2>2. \A i \in DOMAIN app : OrderOf(i)' BY <1>0, <1>1, <2>1 DEF OrderOf
 <2> QED BY <1>0, <2>2 DEF Order
<1>3. Retries /\ ThreadsQuiet /\ PushesAlone' BY <1>0 DEF Retries, Retriable, ThreadsQuiet, PushesAlone
<1> QED BY <1>0, <1>2, <1>3, RecordsKept DEF KeptShape

LEMMA EndSnapshotKept ==
  ASSUME SyncInv, SyncInv', KeptInv, EndSnapshot
  PROVE  KeptInv'
<1>0. /\ SyncShape /\ KeptShape /\ Ids /\ Order /\ PushesAlone /\ thread["worker"].at = Nil
      /\ UNCHANGED <<cloud, cloudFile, gen, loc, app, thread, pushing, lost, raced, syncMode>>
      /\ snap # NoSnapshot /\ ckpt' = snap.through /\ cur' = snap.through /\ snap' = NoSnapshot /\ snap.through \in Nat
  BY DEF SyncInv, KeptInv, EndSnapshot, Idle, local, syncBudget, seen, Walks
<1>1. \A p \in CloudPaths : head'[p].seq = head[p].seq /\ head'[p].obs = head[p].obs /\ "obs" \in DOMAIN head'[p]
 <2>1. \A p \in CloudPaths : head'[p] = head[p] \/ head'[p] = [head[p] EXCEPT !.known = FALSE] BY DEF EndSnapshot
 <2> QED BY <1>0, <2>1 DEF KeptShape, SyncShape
<1>2. ASSUME NEW i \in DOMAIN app, i.via = "change" PROVE i.seq <= snap.through /\ i.seq \in Nat
 <2>1. i.seq \in Nat BY <1>0, TouchedPaths DEF Ids, IdHolds
 <2> QED BY <1>0, <1>2, <2>1 DEF Order, OrderOf
<1>3. Order'
 <2>1. \A k : k \notin (ckpt' + 1)..cur' BY <1>0
 <2>2. ASSUME NEW i \in DOMAIN app, i.via = "change" PROVE OrderOf(i)'
  <3>1. i.seq <= snap.through /\ i.seq \in Nat BY <1>2, <2>2
  <3>2. \A k : k \notin (ckpt' + 1)..(i.seq - 1) BY <1>0, <3>1
  <3> QED BY <1>0, <3>2 DEF OrderOf
 <2> QED BY <1>0, <2>1, <2>2 DEF Order
<1>4. Retries
 <2>1. ASSUME NEW i \in DOMAIN app, Retriable(i)', IsMove(i) PROVE FALSE
  <3>1. i.via = "change" BY <1>0, <2>1, FormFacts DEF Ids, KeptInv, Forms
  <3>2. i.seq <= snap.through /\ i.seq \in Nat BY <1>2, <3>1
  <3> QED BY <1>0, <2>1, <3>2 DEF Retriable
 <2> QED BY <1>0, <2>1 DEF Retries
<1>5. ThreadsQuiet /\ PushesAlone' BY <1>0 DEF ThreadsQuiet, PushesAlone
<1> QED BY <1>0, <1>1, <1>3, <1>4, <1>5, RecordsKept

\* The worker or the client begins to apply a change.
LEMMA StartKept ==
  ASSUME SyncInv, SyncInv', KeptInv, NEW t \in Clients, NEW id, thread[t].at = Nil, Start(t, id), Form(id), Order',
         UNCHANGED <<cloud, cloudFile, gen, loc, head, app, pushing, walk, lost, raced, syncMode>>,
         t = "worker" => pushing.at = Nil,
         id \in DOMAIN app /\ IsMove(id) => Retriable(id)
  PROVE  KeptInv'
<1>0. SyncShape /\ SyncShape' /\ KeptShape /\ PushesAlone /\ DOMAIN thread = Clients /\ Grows
  BY DEF SyncInv, SyncShape, KeptInv, Grows
<1>1. /\ thread'[t].id = id /\ thread'[t].at = "prepare"
      /\ \A u \in Clients \ {t} : thread'[u] = thread[u] BY <1>0 DEF Start
<1>2. Form(id)' BY DEF Form, Touches, Source, Place, WrittenAt
<1>3. ThreadsQuiet
 <2>1. Form(thread[t].id)' BY <1>1, <1>2 DEF Form, Touches, Source, Place, WrittenAt
 <2> QED BY <1>1, <2>1 DEF ThreadsQuiet
<1>4. Retries
 <2>1. \A i : Retriable(i)' = Retriable(i) BY DEF Retriable, Passed, walk, Touches
 <2>2. ASSUME NEW i \in DOMAIN app, thread'["worker"].id = i PROVE thread["worker"].id = i \/ ~IsMove(i) \/ Retriable(i)
   BY <1>1, <2>2 DEF Clients
 <2> QED BY <2>1, <2>2 DEF Retries
<1>5. PushesAlone' BY <1>0, <1>1 DEF PushesAlone, Clients
<1>6. \A u \in Clients : thread[u].at = "commit" => thread'[u] = thread[u] BY <1>1 DEF Nil
<1> QED BY <1>0, <1>3, <1>4, <1>5, <1>6, RecordsKept DEF KeptShape

\* A single file's application, while the walk stays where it is.
LEMMA OrderUnmoved ==
  ASSUME SyncInv, SyncInv', KeptInv, UNCHANGED <<cloud, head, app, walk>>, ChangeSame
  PROVE  Order'
<1>1. Grows /\ HeadsGrow /\ AppsKnown BY DEF Grows, HeadsGrow, AppsKnown, SyncInv, SyncShape
<1> QED BY <1>1, WalkUnmoved, OrderStays

LEMMA SingleForm ==
  ASSUME NEW via, NEW n, NEW p, NEW id, id = SingleId(via, n, p), via \in {"import", "choice", "snapshot"},
         via = "import" => cloud[n].by = Nil, via = "choice" => cloud[n].from = Nil
  PROVE  Form(id) /\ ~IsMove(id)
<1>1. id.via = via /\ id.seq = n /\ id.paths = {p} /\ id.path = p /\ id = [via |-> via, seq |-> n, paths |-> {p}, path |-> p]
  BY DEF SingleId
<1>2. Cardinality({p}) = 1 BY FS_Singleton
<1> QED BY <1>1, <1>2 DEF Form, IsMove, Source

LEMMA ImportKept ==
  ASSUME SyncInv, SyncInv', KeptInv, Import
  PROVE  KeptInv'
<1>0. /\ SyncShape /\ KeptShape /\ UNCHANGED <<cloud, cloudFile, gen, loc, head, app, pushing, walk, lost, raced, syncMode>>
      /\ thread["worker"].at = Nil /\ pushing.at = Nil BY DEF SyncInv, KeptInv, Import, Idle, local, syncBudget, seen
<1>1. PICK n \in 1..Len(cloud) : /\ cloud[n].from = Nil /\ cloud[n].by = Nil
                                 /\ Start("worker", SingleId("import", n, cloud[n].to))
                                 /\ LET id == SingleId("import", n, cloud[n].to) IN
                                    /\ id \in DOMAIN app \/ n = CloudHead(cloud[n].to)
                                    /\ n > 1 BY DEF Import
<1>2. PICK id : id = SingleId("import", n, cloud[n].to) OBVIOUS
<1>3. Start("worker", id) /\ id.via = "import" BY <1>1, <1>2 DEF SingleId
<1>4. Form(id) /\ ~IsMove(id) BY <1>1, <1>2, SingleForm
<1>5. ChangeSame BY <1>0, <1>3 DEF ChangeSame, Start, SyncShape, Clients
<1>6. Order' BY <1>0, <1>5, OrderUnmoved
<1> QED BY <1>0, <1>3, <1>4, <1>6, StartKept DEF Clients

LEMMA ChooseKept ==
  ASSUME SyncInv, SyncInv', KeptInv, Choose
  PROVE  KeptInv'
<1>0. /\ SyncShape /\ KeptShape /\ UNCHANGED <<cloud, cloudFile, gen, loc, head, app, pushing, walk, lost, raced, syncMode>>
      /\ thread["client"].at = Nil BY DEF SyncInv, KeptInv, Choose, local, syncBudget, seen
<1>1. PICK p \in CloudPaths : /\ pending[p] # 0 /\ CloudHead(p) = pending[p] /\ Cardinality(Touches(pending[p])) = 1
                              /\ WrittenAt(pending[p], p) # Nil
                              /\ Start("client", SingleId("choice", pending[p], p)) BY DEF Choose
<1>2. PICK n, id : n = pending[p] /\ id = SingleId("choice", n, p) OBVIOUS
<1>3. Start("client", id) BY <1>1, <1>2
<1>4. n \in 1..Len(cloud)
 <2>1. Len(cloud) \in Nat BY <1>0 DEF SyncShape
 <2>2. CloudHead(p) \in 0..Len(cloud) BY <2>1, HeadAtFacts DEF CloudHead
 <2> QED BY <1>1, <1>2, <2>1, <2>2
<1>5. cloud[n].from = Nil
 <2>1. cloud[n].to = p /\ p # Nil /\ cloud[n].from # cloud[n].to /\ Cardinality(Touches(n)) = 1
   BY <1>0, <1>1, <1>2, <1>4, SyncAssumption DEF WrittenAt, KeptShape, EntryShape, Nil
 <2>2. ASSUME cloud[n].from # Nil PROVE FALSE
  <3>1. Touches(n) = {cloud[n].from} \cup {p} /\ p \notin {cloud[n].from} BY <2>1, <2>2 DEF Touches
  <3>2. IsFiniteSet({cloud[n].from}) /\ Cardinality({cloud[n].from}) = 1 BY FS_Singleton
  <3>3. Cardinality(Touches(n)) = 1 + 1 BY <3>1, <3>2, FS_AddElement
  <3> QED BY <2>1, <3>3
 <2> QED BY <2>2
<1>6. Form(id) /\ ~IsMove(id) BY <1>1, <1>2, <1>5, SingleForm
<1>7. ChangeSame BY <1>0, <1>3 DEF ChangeSame, Start, SyncShape, Clients
<1>8. Order' BY <1>0, <1>7, OrderUnmoved
<1> QED BY <1>0, <1>3, <1>6, <1>8, StartKept DEF Clients

LEMMA SnapshotEntryKept ==
  ASSUME SyncInv, SyncInv', KeptInv, ApplySnapshotEntry
  PROVE  KeptInv'
<1>0. /\ SyncShape /\ KeptShape /\ PushesAlone
      /\ UNCHANGED <<cloud, cloudFile, gen, loc, head, app, pushing, lost, raced, syncMode, ckpt, cur, thru>>
      /\ thread["worker"].at = Nil /\ pushing.at = Nil /\ ckpt = 0 /\ snap # NoSnapshot
  BY DEF SyncInv, KeptInv, ApplySnapshotEntry, Idle, local, syncBudget, seen
<1>1. PICK p \in snap.left :
        LET id == SingleId("snapshot", HeadAt(p, snap.through), p) IN
        IF KnownHead(id) THEN snap' = [snap EXCEPT !.left = @ \ {p}] /\ UNCHANGED thread
        ELSE Start("worker", id) /\ UNCHANGED snap BY DEF ApplySnapshotEntry
<1>2. CASE snap' = [snap EXCEPT !.left = @ \ {p}] /\ thread' = thread
 <2>1. snap'.through = snap.through BY <1>0, <1>2 DEF SyncShape
 <2>2. WalkFrom /\ WalkSame /\ ChangeSame /\ Grows /\ HeadsGrow /\ AppsKnown
   BY <1>0, <1>2, <2>1 DEF WalkFrom, WalkSame, ChangeSame, Grows, HeadsGrow, AppsKnown, SyncShape
 <2>3. Order' BY <2>2, OrderStays
 <2>4. ThreadsQuiet /\ Retries /\ PushesAlone' BY <1>0, <1>2 DEF ThreadsQuiet, Retries, Retriable, PushesAlone
 <2> QED BY <1>0, <1>2, <2>3, <2>4, RecordsKept DEF KeptShape
<1>3. CASE Start("worker", SingleId("snapshot", HeadAt(p, snap.through), p)) /\ snap' = snap
 <2>1. PICK id : id = SingleId("snapshot", HeadAt(p, snap.through), p) OBVIOUS
 <2>2. Start("worker", id) /\ id.via = "snapshot" BY <1>3, <2>1 DEF SingleId
 <2>3. Form(id) /\ ~IsMove(id) BY <2>1, SingleForm
 <2>4. ChangeSame /\ walk' = walk BY <1>0, <1>3, <2>2 DEF ChangeSame, Start, SyncShape, Clients, walk
 <2>5. Order' BY <1>0, <2>4, OrderUnmoved
 <2> QED BY <1>0, <2>2, <2>3, <2>4, <2>5, StartKept DEF Clients
<1> QED BY <1>1, <1>2, <1>3

LEMMA ApplyChangeKept ==
  ASSUME SyncInv, SyncInv', KeptInv, ApplyChange
  PROVE  KeptInv'
<1>0. /\ SyncShape /\ KeptShape /\ Ids /\ Walks /\ Order /\ Forms /\ PushesAlone
      /\ UNCHANGED <<cloud, cloudFile, gen, loc, head, app, pushing, lost, raced, syncMode, snap>>
      /\ thread["worker"].at = Nil /\ pushing.at = Nil /\ ckpt # 0 /\ Len(cloud) \in Nat
  BY CloudKept DEF SyncInv, KeptInv, ApplyChange, Idle, local, syncBudget, seen
<1>1. PICK n : n = cur + 1 OBVIOUS
<1>2. PICK id : id = [via |-> "change", seq |-> n, paths |-> Touches(n),
                      path |-> IF cloud[n].to # Nil THEN cloud[n].to ELSE cloud[n].from] OBVIOUS
<1>3. /\ cur \in Nat /\ ckpt \in Nat /\ ckpt <= cur /\ n \in 1..Len(cloud)
      /\ (CHOOSE k \in NextOfWalk(cur) : \A j \in NextOfWalk(cur) : k <= j) = n
 <2>1. cur \in 0..Len(cloud) /\ thru \in 0..Len(cloud) /\ NextOfWalk(cur) # {} /\ ckpt \in 0..cur
   BY <1>0 DEF Walks, ApplyChange
 <2>2. cur < thru /\ (CHOOSE k \in NextOfWalk(cur) : \A j \in NextOfWalk(cur) : k <= j) = n
   BY <1>0, <1>1, <2>1, NextFacts
 <2> QED BY <1>0, <1>1, <2>1, <2>2
<1>4. \/ KnownHead(id) /\ cur' = n /\ UNCHANGED <<thread, ckpt, thru>>
      \/ ckpt' = 0 /\ cur' = 0 /\ thru' = 0 /\ UNCHANGED thread
      \/ ~KnownHead(id) /\ Start("worker", id) /\ UNCHANGED <<cur, ckpt, thru>>
 <2> DEFINE c == CHOOSE k \in NextOfWalk(cur) : \A j \in NextOfWalk(cur) : k <= j
            ch(k) == [via |-> "change", seq |-> k, paths |-> Touches(k),
                      path |-> IF cloud[k].to # Nil THEN cloud[k].to ELSE cloud[k].from]
            Goes(k) == IF KnownHead(ch(k)) THEN cur' = k /\ UNCHANGED <<thread, ckpt, thru>>
                       ELSE IF \E p \in ch(k).paths : head[p].seq > k
                       THEN ckpt' = 0 /\ cur' = 0 /\ thru' = 0 /\ UNCHANGED thread
                       ELSE Start("worker", ch(k)) /\ UNCHANGED <<cur, ckpt, thru>>
 <2>1. Goes(c) BY DEF ApplyChange
 <2>2. c = n /\ ch(n) = id BY <1>2, <1>3
 <2>3. Goes(n)
  <3> HIDE DEF Goes, c
  <3> QED BY <2>1, <2>2
 <2> HIDE DEF ch
 <2> QED BY <2>2, <2>3
<1>5. id.via = "change" /\ id.seq = n /\ id.paths = Touches(n) /\ KnownHead(id) = Passed(n)
  BY <1>2 DEF KnownHead, Passed
<1>6. Form(id) BY <1>2, <1>5 DEF Form, Source, Place
<1>7. CASE (KnownHead(id) /\ cur' = n /\ UNCHANGED <<thread, ckpt, thru>>)
             \/ (ckpt' = 0 /\ cur' = 0 /\ thru' = 0 /\ UNCHANGED thread)
 <2>1. Passed(n)' = Passed(n) BY <1>0 DEF Passed, Touches
 <2>2. ASSUME NEW k \in (ckpt' + 1)..cur', ckpt' # 0 PROVE k <= cur \/ Passed(k)'
  <3>1. cur' = n /\ Passed(n) BY <1>5, <1>7, <2>2
  <3>2. k <= cur \/ k = n BY <1>1, <1>3, <2>2, <3>1
  <3> QED BY <2>1, <3>1, <3>2
 <2>3. WalkFrom /\ ckpt' \in Nat /\ ChangeSame /\ Grows /\ HeadsGrow /\ AppsKnown /\ SyncShape'
   BY <1>0, <1>3, <1>7 DEF WalkFrom, ChangeSame, Grows, HeadsGrow, AppsKnown, SyncShape, SyncInv
 <2>4. WalkSame BY <1>0, <2>2 DEF WalkSame, Order
 <2>5. Order' BY <2>3, <2>4, OrderStays
 <2>6. Retries BY <1>0, <1>7, <2>3, RetriableStays DEF Retries, Ids
 <2>7. ThreadsQuiet /\ PushesAlone' BY <1>0, <1>7 DEF ThreadsQuiet, PushesAlone
 <2> QED BY <1>0, <1>7, <2>5, <2>6, <2>7, RecordsKept DEF KeptShape
<1>8. CASE ~KnownHead(id) /\ Start("worker", id) /\ UNCHANGED <<cur, ckpt, thru>>
 <2>1. walk' = walk /\ thread'["worker"].id = id /\ \A k : Passed(k)' = Passed(k)
   BY <1>0, <1>8 DEF walk, Start, SyncShape, Clients, Passed, Touches
 <2>2. Retriable(id) BY <1>0, <1>1, <1>3, <1>5, <1>8 DEF Retriable
 <2>3. ASSUME NEW i \in DOMAIN app, i.via = "change", i # id PROVE ~Retriable(i)
  <3>1. OrderOf(i) /\ Form(i) /\ i.seq \in Nat /\ i.seq \in 1..Len(cloud)
    BY <1>0, <2>3, TouchedPaths DEF Order, Forms, Ids, IdHolds
  <3>2. CASE i.seq <= cur BY <1>0, <1>3, <3>1, <3>2 DEF Retriable, Order
  <3>3. CASE i.seq = n
   <4>1. i = id BY <1>2, <2>3, <3>1, <3>3 DEF Form, Source, Place
   <4> QED BY <2>3, <4>1
  <3>4. CASE i.seq > n
   <4>1. n \in (ckpt + 1)..(i.seq - 1) BY <1>1, <1>3, <3>1, <3>4
   <4> QED BY <1>0, <1>5, <1>8, <3>1, <4>1 DEF OrderOf
  <3> QED BY <1>1, <1>3, <3>1, <3>2, <3>3, <3>4
 <2>4. Order'
  <3>1. ckpt' = ckpt /\ cur' = cur /\ snap' = snap BY <1>0, <1>8
  <3>2. \A i : Retriable(i)' = Retriable(i) BY <1>0, <2>1, <3>1 DEF Retriable
  <3>3. ASSUME NEW i \in DOMAIN app, i.via = "change" PROVE OrderOf(i)'
    BY <1>0, <2>1, <2>3, <3>1, <3>2, <3>3 DEF OrderOf, Order
  <3> QED BY <1>0, <2>1, <3>1, <3>3 DEF Order
 <2> QED BY <1>0, <1>6, <1>8, <2>1, <2>2, <2>4, StartKept DEF Clients
<1> QED BY <1>4, <1>7, <1>8

--------------------
\* An application goes on to a stage where nothing is published yet.
LEMMA StageKept ==
  ASSUME SyncInv, SyncInv', KeptInv, NEW t \in Clients, NEW where \in {"stage", "publish"}, Enter(t, where),
         thread[t].at \notin {Nil, "final", "publishing", "commit"},
         UNCHANGED <<cloud, cloudFile, gen, loc, head, pushing, walk, lost, raced, syncMode>>,
         DOMAIN app' = DOMAIN app \cup {thread[t].id}, \A i \in DOMAIN app : app'[i] = app[i] \/ Fresh(i),
         thread[t].id \notin DOMAIN app => Fresh(thread[t].id)
  PROVE  KeptInv'
<1>0. SyncShape /\ SyncShape' /\ KeptShape /\ PushesAlone /\ Ids /\ Grows /\ LocsFrom /\ \A o \in Locals : LocFields(o)
  BY DEF SyncInv, KeptInv, Grows, LocsFrom, LocFields
<1>1. /\ thread'[t].id = thread[t].id /\ thread'[t].at = where /\ \A u \in Clients \ {t} : thread'[u] = thread[u]
  BY <1>0 DEF Enter, SyncShape
<1>2. AppsKnown /\ AppsQuiet /\ ThreadsQuiet /\ ChangeSame
 <2>1. AppsKnown /\ AppsQuiet BY <1>1 DEF AppsKnown, AppsQuiet
 <2>2. ThreadsQuiet /\ ChangeSame BY <1>1 DEF ThreadsQuiet, ChangeSame, Clients
 <2> QED BY <2>1, <2>2
<1>3. Order'
 <2>1. HeadsGrow BY <1>0 DEF HeadsGrow, SyncShape
 <2> QED BY <1>0, <1>2, <2>1, WalkUnmoved, OrderStays
<1>4. KeptShape'
 <2>1. \A i \in DOMAIN app' : {"base", "copied", "copies", "evidence", "applied"} \subseteq DOMAIN app'[i]
   BY <1>0 DEF KeptShape, Fresh
 <2> QED BY <1>0, <2>1, ShapeStays DEF KeptShape
<1>5. Retries
 <2>1. \A i : Retriable(i)' = Retriable(i) BY DEF Retriable, Passed, walk, Touches
 <2> QED BY <1>1, <2>1 DEF Retries, Clients
<1>6. CoversQuiet
 <2>1. \A u \in Clients : thread[u].at = "commit" => thread'[u] = thread[u] BY <1>1
 <2> QED BY <1>0, <1>2, <2>1, CoversStay
<1>7. PushesAlone' /\ seen' = seen BY <1>0, <1>1 DEF PushesAlone, Clients, seen
<1> QED BY <1>0, <1>2, <1>3, <1>4, <1>5, <1>6, <1>7, QuietKept

LEMMA PrepareKept ==
  ASSUME SyncInv, SyncInv', KeptInv, NEW t \in Clients, Prepare(t)
  PROVE  KeptInv'
<1> PICK id : id = thread[t].id OBVIOUS
<1>0. /\ UNCHANGED <<cloud, cloudFile, gen, loc, head, pushing, walk, lost, raced, syncMode>> /\ thread[t].at = "prepare"
  BY DEF Prepare, Stay, syncBudget, seen
<1>1. CASE id \notin DOMAIN app
 <2> DEFINE r == [st |-> "accepted", base |-> Bases(id), copied |-> FALSE, copies |-> {}, evidence |-> Nil,
                  applied |-> FALSE]
 <2>1. app' = Overlay(app, [i \in {id} |-> r]) /\ Enter(t, "stage") BY <1>1 DEF Prepare, Run
 <2>2. /\ r.st = "accepted" /\ r.copied = FALSE /\ r.base = Bases(id)
       /\ {"base", "copied", "copies", "evidence", "applied"} \subseteq DOMAIN r OBVIOUS
 <2>3. \A p \in id.paths : Bases(id)[p].gen = gen[p] BY DEF Bases
 <2> HIDE DEF r
 <2>4. DOMAIN [i \in {id} |-> r] = {id} /\ [i \in {id} |-> r][id] = r OBVIOUS
 <2> DEFINE g == [i \in {id} |-> r]
 <2>5. /\ app' = [x \in DOMAIN app \cup DOMAIN g |-> IF x \in DOMAIN g THEN g[x] ELSE app[x]]
       /\ DOMAIN g = {id} /\ g[id] = r BY <2>1, <2>4 DEF Overlay
 <2> HIDE DEF g
 <2>6. DOMAIN app' = DOMAIN app \cup {id} /\ app'[id] = r /\ \A i \in DOMAIN app : app'[i] = app[i] BY <1>1, <2>5
 <2>7. Fresh(id) BY <1>1, <2>2, <2>3, <2>6 DEF Fresh
 <2> QED BY <1>0, <2>1, <2>6, <2>7, StageKept DEF Nil
<1>2. CASE id \in DOMAIN app
 <2>1. app' = app /\ \E w \in {"stage", "publish"} : Enter(t, w) BY <1>2 DEF Prepare, Run, App
 <2>2. DOMAIN app' = DOMAIN app \cup {thread[t].id} BY <1>2, <2>1
 <2> QED BY <1>0, <1>2, <2>1, <2>2, StageKept DEF Nil
<1> QED BY <1>1, <1>2

LEMMA SourceKept ==
  ASSUME SyncInv, SyncInv', KeptInv, NEW t \in Clients, StageSource(t)
  PROVE  KeptInv'
<1> PICK id : id = thread[t].id OBVIOUS
<1>0. /\ UNCHANGED <<cloud, cloudFile, gen, loc, head, pushing, walk, lost, raced, syncMode>> /\ thread[t].at = "stage"
      /\ app' = [app EXCEPT ![id].st = "staged"] /\ Enter(t, "publish")
  BY DEF StageSource, Stay, syncBudget, seen, Run
<1>1. /\ id \in DOMAIN app /\ app[id].st = "accepted" /\ KeptShape /\ SyncShape /\ (app[id].copied => app[id].st # "accepted")
  BY <1>0 DEF SyncInv, Stages, StageAt, KeptInv, CopiesHold
<1>2. /\ DOMAIN app' = DOMAIN app /\ app'[id] = [app[id] EXCEPT !.st = "staged"] /\ \A i \in DOMAIN app : i # id => app'[i] = app[i]
      /\ {"st", "base", "copied", "copies", "evidence", "applied"} \subseteq DOMAIN app[id]
  BY <1>0, <1>1 DEF KeptShape, SyncShape
<1>3. Fresh(id) BY <1>1, <1>2 DEF Fresh
<1>4. DOMAIN app' = DOMAIN app \cup {thread[t].id} BY <1>1, <1>2
<1> QED BY <1>0, <1>1, <1>2, <1>3, <1>4, StageKept DEF Nil

\* What a failure does to the walk.
LEMMA WalkFalls ==
  ASSUME SyncInv, KeptInv, NEW t \in Clients, PutOff(t, thread[t].id), WalkFails(thread[t].id)
  PROVE  /\ WalkFrom /\ WalkSame /\ ckpt' \in Nat /\ ChangeSame
         /\ thread'[t] = NoRun /\ \A u \in Clients \ {t} : thread'[u] = thread[u]
<1>0. SyncShape /\ Walks /\ Order BY DEF SyncInv, KeptInv
<1>1. thread'[t] = NoRun /\ \A u \in Clients \ {t} : thread'[u] = thread[u] BY <1>0 DEF PutOff, SyncShape
<1>2. ChangeSame BY <1>1 DEF ChangeSame, NoRun, Clients, Nil
<1>3. CASE walk' = walk
 <2>1. ckpt' \in Nat BY <1>0, <1>3 DEF walk, Walks
 <2> QED BY <1>1, <1>2, <1>3, <2>1, WalkUnmoved
<1>4. CASE ckpt' \in {0, ckpt} /\ cur' = ckpt' /\ snap' = snap
 <2>1. ckpt \in Nat BY <1>0 DEF Walks
 <2>2. \A k : k \notin (ckpt' + 1)..cur' BY <1>4, <2>1
 <2>3. WalkFrom /\ WalkSame BY <1>0, <1>4, <2>1, <2>2 DEF WalkFrom, WalkSame, Order
 <2> QED BY <1>1, <1>2, <1>4, <2>1, <2>3
<1> QED BY <1>3, <1>4 DEF WalkFails

LEMMA RefusalKept ==
  ASSUME SyncInv, SyncInv', KeptInv, NEW t \in Clients, RefuseApply(t)
  PROVE  KeptInv'
<1>0. /\ SyncShape /\ SyncShape' /\ KeptShape /\ PushesAlone /\ thread[t].at \notin {Nil, "publishing", "commit"}
      /\ UNCHANGED <<cloud, cloudFile, gen, loc, head, app, pushing, lost, raced, syncMode>>
      /\ PutOff(t, thread[t].id) /\ WalkFails(thread[t].id) BY DEF SyncInv, KeptInv, RefuseApply, Run, seen, Nil
<1>1. /\ WalkFrom /\ WalkSame /\ ckpt' \in Nat /\ ChangeSame
      /\ thread'[t] = NoRun /\ \A u \in Clients \ {t} : thread'[u] = thread[u] BY <1>0, WalkFalls
<1>2. Grows /\ HeadsGrow /\ AppsKnown BY <1>0 DEF Grows, HeadsGrow, AppsKnown, SyncShape
<1>3. Order' BY <1>1, <1>2, OrderStays
<1>4. ThreadsQuiet /\ PushesAlone'
 <2>1. NoRun.at = Nil BY DEF NoRun
 <2>2. ThreadsQuiet BY <1>1, <2>1 DEF ThreadsQuiet
 <2>3. PushesAlone' BY <1>0, <1>1, <2>1 DEF PushesAlone, Clients
 <2> QED BY <2>2, <2>3
<1>5. Retries
 <2>1. \A i \in DOMAIN app : IdHolds(i) /\ (thread'["worker"].id = i => thread["worker"].id = i)
   BY <1>1 DEF SyncInv, Ids, IdHolds, NoRun, NoId, Clients
 <2> QED BY <1>0, <1>1, <1>2, <2>1, RetriableStays DEF Retries
<1>6. \A u \in Clients : thread[u].at = "commit" => thread'[u] = thread[u] BY <1>0, <1>1
<1> QED BY <1>0, <1>3, <1>4, <1>5, <1>6, RecordsKept DEF KeptShape

--------------------
\* Crash and restart.
LEMMA SyncCrashKept ==
  ASSUME SyncInv, SyncInv', KeptInv, SyncCrash
  PROVE  KeptInv'
<1>0. /\ SyncShape /\ SyncShape' /\ KeptShape /\ Walks /\ Stages /\ Order
      /\ UNCHANGED <<cloud, cloudFile, gen, head, app, ckpt, snap, lost, raced>>
      /\ thread' = [t \in Clients |-> NoRun] /\ pushing' = NoPush /\ cur' = ckpt /\ syncMode' = "recover"
      /\ loc' = [o \in Locals |-> IF loc[o].st = "accepted" THEN [loc[o] EXCEPT !.st = "failed"] ELSE loc[o]]
  BY DEF SyncInv, KeptInv, SyncCrash, seen
<1>1. LocsFrom /\ \A o \in Locals : LocFields(o)
 <2>1. \A o \in Locals : \/ loc'[o] = loc[o]
                         \/ loc[o].st = "accepted" /\ loc'[o] = [loc[o] EXCEPT !.st = "failed"] /\ "st" \in DOMAIN loc[o]
   BY <1>0 DEF SyncShape
 <2>2. LocsFrom BY <2>1 DEF LocsFrom
 <2>3. ASSUME NEW o \in Locals PROVE LocFields(o)
  <3>1. {"kind", "from", "to", "st", "push", "base", "obs"} \subseteq DOMAIN loc[o]
    BY <1>0 DEF SyncShape, KeptShape, LocShape
  <3>2. CASE loc'[o] = loc[o] BY <3>2 DEF LocFields
  <3>3. CASE loc[o].st = "accepted" /\ loc'[o] = [loc[o] EXCEPT !.st = "failed"] BY <3>1, <3>3 DEF LocFields, Nil
  <3> QED BY <2>1, <3>2, <3>3
 <2> QED BY <2>2, <2>3
<1>2. \A t \in Clients : thread'[t] = NoRun /\ thread'[t].at = Nil /\ thread'[t].id = NoId BY <1>0 DEF NoRun
<1>3. Grows /\ HeadsGrow /\ AppsKnown /\ AppsQuiet /\ ThreadsQuiet /\ ChangeSame /\ PushesAlone' /\ seen' = seen
  BY <1>0, <1>2 DEF Grows, HeadsGrow, AppsKnown, AppsQuiet, ThreadsQuiet, ChangeSame, PushesAlone, seen, SyncShape, Clients
<1>4. WalkFrom /\ WalkSame /\ ckpt' \in Nat
 <2>1. ckpt \in Nat /\ \A k : k \notin (ckpt + 1)..ckpt BY <1>0 DEF Walks
 <2> QED BY <1>0, <2>1 DEF WalkFrom, WalkSame, Order
<1>5. Order' BY <1>3, <1>4, OrderStays
<1>6. KeptShape' BY <1>0, <1>1, <1>3, ShapeStays DEF KeptShape
<1>7. Retries
 <2>1. \A i \in DOMAIN app : IdHolds(i) /\ thread'["worker"].id # i BY <1>2 DEF SyncInv, Ids, IdHolds, NoId, Clients
 <2> QED BY <1>0, <1>3, <1>4, <2>1, RetriableStays DEF Retries
<1>8. CoversQuiet
 <2> SUFFICES ASSUME NEW j \in DOMAIN app, NEW p \in CloudPaths, cloudFile[p] # Nil, Covers(j, p, cloudFile[p]) PROVE Covers(j, p, cloudFile[p])'
   BY DEF CoversQuiet
 <2>1. head[p].seq <= j.seq \/ app[j].st = "indeterminate"
  <3>1. CASE \E t \in Clients : thread[t].id = j /\ thread[t].at = "commit"
   <4>1. j.path \in j.paths /\ p = j.path BY DEF SyncInv, Ids, IdHolds, Covers
   <4> QED BY <1>0, <3>1, <4>1 DEF Stages, StageAt
  <3> QED BY <3>1 DEF Covers
 <2>2. WrittenAt(j.seq, p)' = WrittenAt(j.seq, p) BY <1>0, SameCloud
 <2> QED BY <1>0, <2>1, <2>2 DEF Covers, Stale, IsMove
<1> QED BY <1>0, <1>1, <1>3, <1>5, <1>6, <1>7, <1>8, QuietKept

LEMMA ReadyKept ==
  ASSUME SyncInv, SyncInv', KeptInv, SyncReady
  PROVE  KeptInv'
<1>0. /\ SyncShape /\ KeptShape /\ Stages /\ PushesAlone /\ syncMode = "recover"
      /\ UNCHANGED <<cloud, cloudFile, gen, loc, head, app, thread, pushing, walk, lost, raced>>
      /\ \A id \in DOMAIN app : ~EffectProved(id) BY DEF SyncInv, KeptInv, SyncReady, local, seen
<1>1. Grows /\ LocsFrom /\ AppsKnown /\ AppsQuiet /\ ThreadsQuiet /\ ChangeSame /\ PushesAlone' /\ seen' = seen
  BY <1>0 DEF Grows, LocsFrom, AppsKnown, AppsQuiet, ThreadsQuiet, ChangeSame, PushesAlone, seen
<1>2. Order' BY <1>0, <1>1, OrderUnmoved
<1>3. KeptShape' /\ Retries BY <1>0 DEF KeptShape, LocShape, EntryShape, Retries, Retriable, Passed, walk, Touches
<1>4. CoversQuiet
 <2> SUFFICES ASSUME NEW j \in DOMAIN app, NEW p \in CloudPaths, cloudFile[p] # Nil, Covers(j, p, cloudFile[p]) PROVE Covers(j, p, cloudFile[p])'
   BY DEF CoversQuiet
 <2>1. \A t \in Clients : thread[t].at = Nil BY <1>0 DEF Stages
 <2>2. ASSUME app[j].st # "indeterminate" PROVE EffectProved(j)
  <3>1. /\ app[j].st = "publishing" /\ app[j].evidence = cloudFile[p] /\ head[p].seq <= j.seq /\ p = j.path /\ ~IsMove(j)
        /\ WrittenAt(j.seq, p) = cloudFile[p] BY <2>1, <2>2 DEF Covers, Nil
  <3>2. j.paths = {p} BY <1>0, <3>1, FormFacts DEF SyncInv, Ids, KeptInv, Forms
  <3> QED BY <3>1, <3>2 DEF EffectProved, Shows
 <2>3. app[j].st = "indeterminate" BY <1>0, <2>2
 <2>4. WrittenAt(j.seq, p)' = WrittenAt(j.seq, p) BY <1>0, SameCloud
 <2> QED BY <1>0, <2>3, <2>4 DEF Covers, Stale, IsMove
<1> QED BY <1>0, <1>1, <1>2, <1>3, <1>4, QuietKept

--------------------
\* A step that writes files or moves baselines, and leaves the applications alone.
LEMMA FilesKept ==
  ASSUME SyncInv, SyncInv', KeptInv, UNCHANGED <<cloud, app, thread, walk, lost, syncMode>>, raced \subseteq raced',
         LocsFrom, KeptShape', PushesAlone', HeadsGrow, syncMode = "recover" => head' = head,
         \A p \in CloudPaths : gen'[p] = gen[p] \/ Used(gen[p])',
         \A p \in CloudPaths : \/ head'[p].seq = head[p].seq /\ head'[p].obs = head[p].obs
                               \/ \A n \in {head'[p].seq} : Shown(p, n)',
         \A t \in Clients : FinalAt(t)' /\ PublishingAt(t)',
         \A i \in DOMAIN app : Returned(i)' => cloudFile'[Place(i)] = cloudFile[Place(i)] /\ gen'[Place(i)] = gen[Place(i)]
  PROVE  KeptInv'
<1>0. /\ SyncShape /\ SyncShape' /\ Ids /\ GensUsed /\ CopiesHold /\ DisplacedKept /\ Grows /\ AppsKnown /\ ChangeSame
      /\ app' = app /\ thread' = thread /\ ckpt' \in Nat BY DEF SyncInv, KeptInv, Grows, AppsKnown, ChangeSame, Walks
<1>1. /\ \A k : Touches(k)' = Touches(k) /\ \A p : WrittenAt(k, p)' = WrittenAt(k, p)
      /\ \A i : Place(i)' = Place(i) /\ IsMove(i)' = IsMove(i) BY SameCloud DEF Place, IsMove
<1>2. Forms' BY <1>0, FormsStay
<1>3. BaselinesShow' BY <1>0, BaselinesStay
<1>4. GensUsed'
 <2>1. CommittedStays BY <1>0 DEF CommittedStays, LocsFrom
 <2> QED BY <1>0, <2>1, GensStay
<1>5. CopiesHold' BY <1>0, <1>1 DEF CopiesHold, Writes, InCopies
<1>6. WalkFrom /\ WalkSame BY WalkUnmoved
<1>7. Order' BY <1>0, <1>6, OrderStays
<1>8. Away'
 <2>1. ASSUME NEW i \in DOMAIN app, Returned(i)'
       PROVE  /\ Returned(i) /\ Place(i)' = Place(i)
              /\ cloudFile'[Place(i)] = cloudFile[Place(i)] /\ gen'[Place(i)] = gen[Place(i)]
  <3>1. cloudFile'[Place(i)] = cloudFile[Place(i)] /\ gen'[Place(i)] = gen[Place(i)] /\ Place(i)' = Place(i)
    BY <1>1, <2>1
  <3>2. Retriable(i)' => Retriable(i) BY <1>0, <1>6, RetriableStays DEF Ids
  <3> QED BY <1>0, <1>1, <2>1, <3>1, <3>2 DEF Returned, Stale, InCopies
 <2>2. ASSUME NEW j \in DOMAIN app, NEW p \in CloudPaths, NEW v, gen'[p] = gen[p], Covers(j, p, v) PROVE Covers(j, p, v)'
   BY <1>0, <1>1, <2>2 DEF Covers, Stale
 <2> QED BY <1>0, <2>1, <2>2, AwayStays
<1>9. DisplacedKept' BY <1>0 DEF DisplacedKept
<1> QED BY <1>2, <1>3, <1>4, <1>5, <1>7, <1>8, <1>9 DEF KeptInv

LEMMA ProgramWritesKept ==
  ASSUME SyncInv, SyncInv', KeptInv, ProgramWrites
  PROVE  KeptInv'
<1>0. /\ SyncShape /\ SyncShape' /\ Ids /\ Stages /\ KeptShape /\ Forms /\ PushesAlone /\ Grows
      /\ UNCHANGED <<cloud, gen, loc, head, app, thread, pushing, walk, lost, syncMode>>
  BY DEF SyncInv, KeptInv, ProgramWrites, Grows
<1>1. PICK v \in Programs, q \in CloudPaths :
        /\ \A i \in DOMAIN app : \A x \in i.paths : app[i].base[x].obs # v
        /\ cloudFile' = [cloudFile EXCEPT ![q] = v]
        /\ raced' = IF \E t \in Clients : thread[t].at = "publishing" /\ q \in thread[t].id.paths
                    THEN raced \cup {v} ELSE raced BY DEF ProgramWrites
<1>2. /\ DOMAIN cloudFile' = CloudPaths /\ cloudFile'[q] = v /\ \A p \in CloudPaths : p # q => cloudFile'[p] = cloudFile[p]
      /\ raced \subseteq raced' BY <1>0, <1>1 DEF KeptShape
<1>3. KeptShape' /\ LocsFrom /\ HeadsGrow /\ PushesAlone'
  BY <1>0, <1>2 DEF KeptShape, LocShape, EntryShape, LocsFrom, HeadsGrow, PushesAlone, SyncShape
<1>4. ASSUME NEW t \in Clients PROVE FinalAt(t)' /\ PublishingAt(t)'
 <2>1. FinalAt(t)' BY <1>0, FinalStays
 <2>2. CASE thread[t].at = "publishing"
  <3>1. ASSUME NEW p \in thread[t].id.paths PROVE cloudFile'[p] = cloudFile[p] \/ cloudFile'[p] \in raced'
   <4>1. p \in CloudPaths BY <1>0, <2>2 DEF Ids, IdHolds, Nil
   <4> QED BY <1>1, <1>2, <2>2, <3>1, <4>1
  <3>2. PublishingAt(t)' BY <1>0, <1>2, <2>2, <3>1, PublishingStays
  <3> QED BY <2>1, <3>2
 <2>3. CASE thread[t].at # "publishing"
  <3>1. PublishingAt(t) BY DEF KeptInv
  <3>2. PublishingAt(t)' BY <1>0, <2>3, <3>1 DEF PublishingAt, Stale
  <3> QED BY <2>1, <3>2
 <2> QED BY <2>2, <2>3
<1>5. ASSUME NEW i \in DOMAIN app, Returned(i)' PROVE cloudFile'[Place(i)] = cloudFile[Place(i)]
 <2>1. Place(i)' = Place(i) /\ IsMove(i) /\ IdHolds(i) /\ Form(i)
   BY <1>0, <1>5 DEF Returned, Place, IsMove, Ids, Forms
 <2>2. Place(i) \in i.paths /\ Place(i) \in CloudPaths BY <1>0, <2>1, FormFacts DEF IdHolds
 <2>3. cloudFile'[Place(i)] # v BY <1>0, <1>1, <1>5, <2>1, <2>2 DEF Returned
 <2> QED BY <1>2, <2>2, <2>3
<1> QED BY <1>0, <1>2, <1>3, <1>4, <1>5, FilesKept

\* A local operation commits: whatever was prepared at its paths is behind for good.
LEMMA LocalCommitKept ==
  ASSUME SyncInv, SyncInv', KeptInv, NEW o \in Locals, LocalCommit(o)
  PROVE  KeptInv'
<1>0. /\ SyncShape /\ SyncShape' /\ Ids /\ Stages /\ KeptShape /\ Forms /\ GensUsed /\ PushesAlone /\ Grows
      /\ UNCHANGED <<cloud, head, app, thread, held, pushing, walk, lost, raced, syncMode>>
      /\ held = Nil /\ syncMode = "up" /\ loc[o].st = "accepted"
  BY DEF SyncInv, KeptInv, LocalCommit, LockFree, SyncUp, Grows, seen, syncBudget
<1>1. /\ \A p \in CloudPaths : gen'[p] = IF p \in DOMAIN loc[o].base THEN Generation(o) ELSE gen[p]
      /\ \A p \in CloudPaths : p \notin {loc[o].from, loc[o].to} => cloudFile'[p] = cloudFile[p]
      /\ DOMAIN gen' = CloudPaths /\ DOMAIN cloudFile' = CloudPaths
      /\ loc' = [loc EXCEPT ![o].st = "committed"] BY DEF LocalCommit
<1>2. /\ loc'[o] = [loc[o] EXCEPT !.st = "committed"] /\ "st" \in DOMAIN loc[o] /\ \A x \in Locals : x # o => loc'[x] = loc[x]
      /\ DOMAIN loc[o].base = {loc[o].from, loc[o].to} \ {Nil} /\ {"kind", "from", "to", "st", "push", "base", "obs"} \subseteq DOMAIN loc[o]
  BY <1>0, <1>1 DEF SyncShape, KeptShape, LocShape, Nil
<1>3. LocsFrom /\ \A x \in Locals : LocFields(x)
 <2>1. LocsFrom BY <1>2 DEF LocsFrom
 <2>2. LocFields(o) BY <1>0, <1>2 DEF LocFields, Nil
 <2>3. \A x \in Locals : x # o => LocFields(x) BY <1>2 DEF LocFields
 <2> QED BY <2>1, <2>2, <2>3
<1>4. KeptShape' BY <1>0, <1>1, <1>3, ShapeStays DEF KeptShape
<1>5. HeadsGrow /\ PushesAlone' BY <1>0 DEF HeadsGrow, SyncShape, PushesAlone
<1>6. ~Used(Generation(o)) /\ Used(Generation(o))'
 <2>1. ~Used(Generation(o)) BY <1>0, UnusedLocal
 <2>2. loc'[o].st = "committed" BY <1>2
 <2> QED BY <2>1, <2>2 DEF Used, Generation
<1>7. \A p \in CloudPaths : gen'[p] = gen[p] \/ Used(gen[p])'
 <2>1. ASSUME NEW p \in CloudPaths, gen'[p] # gen[p] PROVE Used(gen[p])'
  <3>1. gen'[p] = Generation(o) BY <1>1, <2>1
  <3> QED BY <1>6, <3>1 DEF Used, Generation
 <2> QED BY <2>1
<1>8. ASSUME NEW i \in DOMAIN app, NEW p \in i.paths, p \in CloudPaths, gen'[p] # gen[p] PROVE app[i].base[p].gen # gen'[p]
 <2>1. gen'[p] = Generation(o) BY <1>1, <1>8
 <2>2. Used(app[i].base[p].gen) BY <1>0 DEF GensUsed
 <2> QED BY <1>6, <2>1, <2>2
<1>9. ASSUME NEW t \in Clients PROVE FinalAt(t)' /\ PublishingAt(t)'
 <2>1. thread[t].at \notin {"publishing", "commit"} BY <1>0 DEF Stages, StageAt, Nil, Clients
 <2>2. PublishingAt(t)' BY <1>0, <2>1 DEF PublishingAt
 <2>3. ASSUME thread[t].at = "final" PROVE thread[t].id \in DOMAIN app /\ thread[t].id.path \in thread[t].id.paths /\ thread[t].id.path \in CloudPaths
   BY <1>0, <2>3 DEF Stages, StageAt, Ids, IdHolds, Nil
 <2>4. FinalAt(t)' BY <1>0, <1>8, <2>3, FinalStays
 <2> QED BY <2>2, <2>4
<1>10. ASSUME NEW i \in DOMAIN app, Returned(i)' PROVE cloudFile'[Place(i)] = cloudFile[Place(i)] /\ gen'[Place(i)] = gen[Place(i)]
 <2>1. Place(i)' = Place(i) /\ IsMove(i) /\ IdHolds(i) /\ Form(i)
   BY <1>0, <1>10 DEF Returned, Place, IsMove, Ids, Forms
 <2>2. Place(i) \in i.paths /\ Place(i) \in CloudPaths /\ Place(i) # Nil BY <1>0, <2>1, FormFacts DEF IdHolds
 <2>3. app[i].base[Place(i)].gen = gen'[Place(i)] BY <1>0, <1>10, <2>1 DEF Returned, Stale
 <2>4. gen'[Place(i)] = gen[Place(i)] BY <1>8, <2>2, <2>3
 <2>5. Place(i) \notin DOMAIN loc[o].base
  <3>1. Used(gen[Place(i)]) BY <1>0, <2>2 DEF GensUsed
  <3> QED BY <1>1, <1>6, <2>2, <2>4, <3>1
 <2> QED BY <1>1, <1>2, <2>2, <2>4, <2>5
<1> QED BY <1>0, <1>3, <1>4, <1>5, <1>7, <1>9, <1>10, FilesKept

LEMMA AcknowledgeKept ==
  ASSUME SyncInv, SyncInv', KeptInv, RecordAcknowledgement
  PROVE  KeptInv'
<1> DEFINE o == pushing.id
           n == CHOOSE k \in Accepted(o) : TRUE
<1>0. /\ SyncShape /\ SyncShape' /\ Ids /\ Stages /\ Pushes /\ KeptShape /\ Forms /\ PushesAlone /\ BaselinesShow /\ Grows
      /\ UNCHANGED <<cloud, cloudFile, gen, app, thread, held, walk, lost, raced, syncMode>> /\ syncMode = "up" /\ held = Nil
      /\ o \in Locals /\ loc[o].st = "committed" /\ loc[o].push = "transfer" /\ Accepted(o) # {} /\ pushing.at # Nil
      /\ pushing' = NoPush /\ loc' = [loc EXCEPT ![o].push = "clean"]
      /\ head' = [p \in CloudPaths |-> IF p \in Touches(n) THEN AcknowledgedHead(o, n, p) ELSE head[p]]
  BY DEF SyncInv, KeptInv, RecordAcknowledgement, LockFree, SyncUp, syncBudget, seen, Pushes, Nil, Grows
<1>1. n \in 1 .. Len(cloud) /\ cloud[n].by = o /\ o # Nil BY <1>0, SyncAssumption DEF Accepted, Nil
<1>2. /\ \A x \in Locals \ {o} : loc'[x] = loc[x]
      /\ loc'[o] = [loc[o] EXCEPT !.push = "clean"] /\ {"kind", "from", "to", "st", "push", "base", "obs"} \subseteq DOMAIN loc[o]
  BY <1>0 DEF SyncShape, KeptShape, LocShape
<1> PICK m, a : m = n /\ a = o OBVIOUS
<1>3. /\ m \in 1..Len(cloud) /\ cloud[m].by = a /\ a # Nil /\ a \in Locals /\ loc'[a].push = "clean" /\ loc[a].push = "transfer"
      /\ m \in Nat
 <2>1. loc'[o].push = "clean" BY <1>2
 <2> HIDE DEF n, o
 <2>2. m \in 1..Len(cloud) /\ cloud[m].by = a /\ a # Nil /\ a \in Locals /\ loc'[a].push = "clean" /\ loc[a].push = "transfer"
   BY <1>0, <1>1, <2>1
 <2> QED BY <1>0, <2>2, TouchedPaths
<1>4. ASSUME NEW p \in CloudPaths, head'[p] # head[p]
      PROVE  /\ p \in Touches(m) /\ head'[p].seq = m /\ head[p].seq <= m /\ "obs" \in DOMAIN head'[p]
             /\ loc[a].kind = "upload" => head'[p].obs = a
 <2> HIDE DEF n, o
 <2>1. p \in Touches(m) /\ head'[p] = AcknowledgedHead(a, m, p) BY <1>0, <1>4
 <2>2. ~(head[p].seq > m) BY <1>4, <2>1 DEF AcknowledgedHead
 <2>3. \E x : head'[p] = [seq |-> m, known |-> TRUE, obs |-> x] /\ (loc[a].kind = "upload" => x = a)
   BY <2>1, <2>2 DEF AcknowledgedHead
 <2>4. head[p].seq \in Nat BY <1>0 DEF SyncShape
 <2> QED BY <1>3, <2>1, <2>2, <2>3, <2>4
<1>5. LocsFrom /\ \A x \in Locals : LocFields(x)
 <2>1. LocsFrom BY <1>2 DEF LocsFrom
 <2>2. LocFields(o) BY <1>0, <1>2 DEF LocFields
 <2>3. \A x \in Locals : x # o => LocFields(x) BY <1>2 DEF LocFields
 <2> QED BY <2>1, <2>2, <2>3
<1> HIDE DEF n, o
<1>6. KeptShape'
 <2>1. \A p \in CloudPaths : "obs" \in DOMAIN head'[p] BY <1>0, <1>4 DEF KeptShape
 <2> QED BY <1>0, <1>5, <2>1, ShapeStays DEF KeptShape
<1>7. HeadsGrow /\ PushesAlone'
 <2>1. HeadsGrow BY <1>0, <1>3, <1>4 DEF HeadsGrow, SyncShape
 <2>2. PushesAlone' BY <1>0 DEF PushesAlone, NoPush
 <2> QED BY <2>1, <2>2
<1>8. ASSUME NEW p \in CloudPaths
      PROVE  head'[p] = head[p] \/ \A k \in {head'[p].seq} : Shown(p, k)'
 <2>1. Shown(p, m)' BY <1>0, <1>3 DEF Shown
 <2> QED BY <1>4, <2>1
<1>9. ASSUME NEW t \in Clients PROVE FinalAt(t)' /\ PublishingAt(t)'
 <2>1. thread[t].at \notin {"publishing", "commit"} BY <1>0 DEF Stages, StageAt, Nil, Clients
 <2>2. PublishingAt(t)' BY <1>0, <2>1 DEF PublishingAt
 <2> PICK i : i = thread[t].id OBVIOUS
 <2>3. CASE thread[t].at = "final" /\ Writes(i) /\ head'[i.path] # head[i.path]
  <3>1. /\ IdHolds(i) /\ Form(i) /\ i.path \in CloudPaths /\ i.path \in i.paths /\ i \in DOMAIN app /\ i.seq \in Nat
        /\ i.seq \in 1..Len(cloud) BY <1>0, <2>3, TouchedPaths DEF Ids, IdHolds, Forms, Stages, StageAt, Nil
  <3>2. t = "client" BY <1>0, <2>3 DEF PushesAlone, Clients, Nil
  <3>3. Source(i) = Nil BY <1>0, <2>3, <3>1, <3>2 DEF Ids, Form, Nil
  <3>4. /\ \A p : WrittenAt(i.seq, p)' = WrittenAt(i.seq, p)
        /\ Writes(i)' = Writes(i) /\ IsMove(i)' = IsMove(i) /\ ~IsMove(i)
    BY <1>0, <2>3, <3>1, IdKept DEF IsMove, Writes
  <3>5. head'[i.path].seq = m /\ head[i.path].seq <= m /\ i.path \in Touches(m) /\ (loc[a].kind = "upload" => head'[i.path].obs = a)
    BY <1>4, <2>3, <3>1
  <3>6. Stale(i, i.path) \/ head[i.path].seq > i.seq \/ Backed(i) \/ Reused(i)
   <4>1. FinalAt(t) BY DEF KeptInv
   <4> QED BY <2>3, <4>1 DEF FinalAt
  <3>7. ASSUME Reused(i), m = i.seq PROVE Reused(i)'
   <4>1. head[i.path].seq = m /\ cloud[m].from = Nil BY <3>3, <3>7 DEF Reused, Reuse, Source
   <4>2. loc[a].kind = "upload" /\ cloud[m].v = a /\ cloud[m].to = i.path
     BY <1>0, <1>3, <3>5, <4>1 DEF KeptShape, EntryShape, Touches
   <4>3. head[i.path].obs = WrittenAt(m, i.path)
    <5>1. Shown(i.path, m) BY <1>0, <1>3, <3>1, <4>1 DEF BaselinesShow
    <5> QED BY <1>3, <5>1 DEF Shown
   <4>4. head'[i.path].obs = head[i.path].obs /\ head'[i.path].seq = head[i.path].seq
     BY <3>5, <4>1, <4>2, <4>3 DEF WrittenAt
   <4> QED BY <1>0, <3>4, <3>7, <4>4 DEF Reused, Reuse
  <3>8. head[i.path].seq > i.seq \/ (Reused(i) /\ m # i.seq) => head'[i.path].seq > i.seq
   <4>1. head[i.path].seq \in Nat BY <1>0, <3>1 DEF SyncShape
   <4>2. Reused(i) => head[i.path].seq = i.seq BY DEF Reused, Reuse
   <4> QED BY <1>3, <3>1, <3>5, <4>1, <4>2
  <3>9. (Stale(i, i.path) => Stale(i, i.path)') /\ (Backed(i) => Backed(i)') BY <1>0, <3>4 DEF Stale, Backed, InCopies
  <3>10. Stale(i, i.path)' \/ head'[i.path].seq > i.seq \/ Backed(i)' \/ Reused(i)' BY <3>6, <3>7, <3>8, <3>9
  <3>11. FinalAt(t)' BY <1>0, <3>4, <3>10 DEF FinalAt
  <3> QED BY <2>2, <3>11
 <2>4. CASE ~(thread[t].at = "final" /\ Writes(i) /\ head'[i.path] # head[i.path])
  <3>1. FinalAt(t)' BY <1>0, <2>4, FinalStays
  <3> QED BY <2>2, <3>1
 <2> QED BY <2>3, <2>4
<1> QED BY <1>0, <1>5, <1>6, <1>7, <1>8, <1>9, FilesKept

--------------------
\* A step that changes the record of one application.
LEMMA RecordKept ==
  ASSUME SyncInv, SyncInv', KeptInv, NEW id \in DOMAIN app, UNCHANGED <<cloud, loc>>,
         DOMAIN app' = DOMAIN app, \A i \in DOMAIN app \ {id} : app'[i] = app[i],
         {"base", "copied", "copies", "evidence", "applied"} \subseteq DOMAIN app'[id],
         DOMAIN cloudFile' = CloudPaths, DOMAIN gen' = CloudPaths, \A p \in CloudPaths : "obs" \in DOMAIN head'[p],
         PushesAlone', HeadsGrow, WalkFrom, WalkSame, ChangeSame,
         \A u \in Clients : thread'[u].at # Nil => thread[u].at # Nil /\ thread'[u].id = thread[u].id,
         app[id].st # "committed",
         \A p \in CloudPaths : gen'[p] = gen[p] \/ (gen'[p] = id /\ app'[id].st = "committed"),
         \A p \in id.paths : app'[id].base[p].gen \in {app[id].base[p].gen, gen[p]},
         \A p \in CloudPaths : \/ head'[p].seq = head[p].seq /\ head'[p].obs = head[p].obs
                               \/ \A n \in {head'[p].seq} : Shown(p, n)',
         (app[id].copied => app[id].st # "accepted" /\ (Writes(id) => InCopies(id, id.path)))',
         \A u \in Clients : FinalAt(u)' /\ PublishingAt(u)', Away', DisplacedKept'
  PROVE  KeptInv'
<1>0. /\ SyncShape /\ SyncShape' /\ Ids /\ KeptShape /\ CopiesHold /\ Grows /\ AppsKnown /\ LocsFrom
      /\ \A o \in Locals : LocFields(o) BY DEF SyncInv, KeptInv, Grows, AppsKnown, LocsFrom, LocFields
<1>1. KeptShape'
 <2>1. \A i \in DOMAIN app' : {"base", "copied", "copies", "evidence", "applied"} \subseteq DOMAIN app'[i]
   BY <1>0 DEF KeptShape
 <2> QED BY <1>0, <2>1, ShapeStays
<1>2. Forms' BY <1>0, FormsStay
<1>3. BaselinesShow' BY <1>0, BaselinesStay
<1>4. GensUsed'
 <2>1. CommittedStays BY <1>0 DEF CommittedStays, LocsFrom
 <2>2. \A p \in CloudPaths : gen'[p] = gen[p] \/ Used(gen[p])' BY DEF Used
 <2>3. ASSUME NEW i \in DOMAIN app', NEW p \in i.paths
       PROVE  \/ i \in DOMAIN app /\ app'[i].base[p].gen = app[i].base[p].gen
              \/ p \in CloudPaths /\ app'[i].base[p].gen = gen[p]
  <3>1. p \in CloudPaths BY <1>0, <2>3 DEF Ids, IdHolds
  <3> QED BY <3>1, <2>3
 <2> QED BY <2>1, <2>2, <2>3, GensStay
<1>5. CopiesHold'
 <2>1. \A k : \A p : WrittenAt(k, p)' = WrittenAt(k, p) BY SameCloud
 <2>2. ASSUME NEW i \in DOMAIN app'
       PROVE  (app[i].copied => app[i].st # "accepted" /\ (Writes(i) => InCopies(i, i.path)))'
  <3>1. CASE i = id BY <3>1
  <3>2. CASE i # id
   <4>1. app'[i] = app[i] /\ i \in DOMAIN app BY <3>2
   <4> QED BY <1>0, <2>1, <4>1 DEF CopiesHold, Writes, InCopies, IsMove
  <3> QED BY <3>1, <3>2
 <2> QED BY <2>2 DEF CopiesHold
<1>6. Order' BY <1>0, OrderStays
<1> QED BY <1>1, <1>2, <1>3, <1>4, <1>5, <1>6 DEF KeptInv

\* What the other client applies is not disturbed.
LEMMA OtherRuns ==
  ASSUME SyncInv, KeptInv, NEW t \in Clients, thread[t].at # Nil, NEW u \in Clients \ {t}, thread'[u] = thread[u],
         UNCHANGED <<cloud, gen, head, raced>>, \A i \in DOMAIN app \ {thread[t].id} : app'[i] = app[i],
         cloudFile' = cloudFile \/ thread[u].at \notin {"publishing", "commit"}
  PROVE  FinalAt(u)' /\ PublishingAt(u)'
<1>0. Grows /\ Stages /\ Ids BY DEF Grows, SyncInv
<1>1. thread[u].at \in {"final", "publishing", "commit"} => app'[thread[u].id] = app[thread[u].id]
 <2>1. thread[u].id # thread[t].id BY RunsDiffer
 <2>2. thread[u].at \in {"final", "publishing", "commit"} => thread[u].id \in DOMAIN app BY <1>0 DEF Stages, StageAt
 <2> QED BY <2>1, <2>2
<1>2. FinalAt(u)' BY <1>0, <1>1, FinalStays
<1>3. PublishingAt(u)'
 <2>1. CASE thread[u].at \in {"publishing", "commit"} BY <1>0, <1>1, <2>1, PublishingStays
 <2>2. CASE thread[u].at \notin {"publishing", "commit"} BY <2>2 DEF PublishingAt
 <2> QED BY <2>1, <2>2
<1> QED BY <1>2, <1>3

\* An application goes on: its record may change, and the file it holds the lock for.
LEMMA AdvanceKept ==
  ASSUME SyncInv, SyncInv', KeptInv, NEW t \in Clients, NEW where, where # Nil, thread[t].at # Nil, Enter(t, where),
         UNCHANGED <<cloud, gen, loc, head, pushing, walk, raced>>, thread[t].id \in DOMAIN app,
         app[thread[t].id].st # "committed",
         DOMAIN app' = DOMAIN app, \A i \in DOMAIN app \ {thread[t].id} : app'[i] = app[i],
         {"base", "copied", "copies", "evidence", "applied"} \subseteq DOMAIN app'[thread[t].id],
         DOMAIN cloudFile' = CloudPaths,
         cloudFile' = cloudFile \/ held = t,
         \A p \in thread[t].id.paths : app'[thread[t].id].base[p].gen \in {app[thread[t].id].base[p].gen, gen[p]},
         \A i \in {thread[t].id} : (app[i].copied => app[i].st # "accepted" /\ (Writes(i) => InCopies(i, i.path)))',
         FinalAt(t)', PublishingAt(t)', Away', DisplacedKept'
  PROVE  KeptInv'
<1> PICK id : id = thread[t].id OBVIOUS
<1>0. /\ SyncShape /\ SyncShape' /\ Ids /\ Stages /\ KeptShape /\ PushesAlone BY DEF SyncInv, KeptInv
<1>1. /\ thread'[t].id = id /\ thread'[t].at = where /\ \A u \in Clients \ {t} : thread'[u] = thread[u]
  BY <1>0 DEF Enter, SyncShape
<1>2. \A u \in Clients : FinalAt(u)' /\ PublishingAt(u)'
 <2>1. ASSUME NEW u \in Clients \ {t} PROVE FinalAt(u)' /\ PublishingAt(u)'
  <3>1. cloudFile' = cloudFile \/ thread[u].at \notin {"publishing", "commit"} BY <1>0 DEF Stages, StageAt
  <3> QED BY <1>1, <3>1, OtherRuns
 <2> QED BY <2>1
<1>3. WalkFrom /\ WalkSame /\ HeadsGrow /\ ChangeSame /\ PushesAlone'
 <2>1. WalkFrom /\ WalkSame BY WalkUnmoved
 <2>2. HeadsGrow BY <1>0 DEF HeadsGrow, SyncShape
 <2>3. ChangeSame /\ PushesAlone' BY <1>0, <1>1 DEF ChangeSame, PushesAlone, Clients
 <2> QED BY <2>1, <2>2, <2>3
<1>4. \A u \in Clients : thread'[u].at # Nil => thread[u].at # Nil /\ thread'[u].id = thread[u].id BY <1>1
<1>5. DOMAIN gen' = CloudPaths /\ \A p \in CloudPaths : "obs" \in DOMAIN head'[p] BY <1>0 DEF KeptShape
<1>6. (app[id].copied => app[id].st # "accepted" /\ (Writes(id) => InCopies(id, id.path)))' OBVIOUS
<1> QED BY <1>1, <1>2, <1>3, <1>4, <1>5, <1>6, RecordKept

\* No file changes: a move that may be in danger was before, or is the application's own.
LEMMA AwayGoesOn ==
  ASSUME SyncInv, KeptInv, NEW t \in Clients, NEW where, thread[t].at \notin {Nil, "commit"}, Enter(t, where),
         UNCHANGED <<cloud, cloudFile, gen, head, walk, syncMode>>, thread[t].id \in DOMAIN app,
         app[thread[t].id].st = "staged", DOMAIN app' = DOMAIN app,
         \A i \in DOMAIN app \ {thread[t].id} : app'[i] = app[i],
         \A i \in {thread[t].id} : Returned(i)' => Returned(i)
  PROVE  Away'
<1> PICK id : id = thread[t].id OBVIOUS
<1>0. /\ SyncShape /\ Ids
      /\ thread'[t].id = id /\ thread'[t].at = where /\ \A u \in Clients \ {t} : thread'[u] = thread[u]
  BY DEF SyncInv, Enter, SyncShape
<1>1. /\ \A k : Touches(k)' = Touches(k) /\ \A p : WrittenAt(k, p)' = WrittenAt(k, p)
      /\ \A i : Place(i)' = Place(i) /\ IsMove(i)' = IsMove(i) /\ Retriable(i)' = Retriable(i)
 <2>1. \A k : Touches(k)' = Touches(k) /\ \A p : WrittenAt(k, p)' = WrittenAt(k, p) BY SameCloud
 <2> QED BY <2>1 DEF Place, IsMove, Retriable, Passed, walk
<1>2. ASSUME NEW i \in DOMAIN app, Returned(i)' PROVE Returned(i)
 <2>1. CASE i = id BY <1>2, <2>1
 <2>2. CASE i # id
  <3>1. app'[i] = app[i] BY <2>2
  <3>2. thread'["worker"].id = thread["worker"].id BY <1>0 DEF Clients
  <3> QED BY <1>1, <1>2, <3>1, <3>2 DEF Returned, Stale, InCopies
 <2> QED BY <2>1, <2>2
<1>3. ASSUME NEW j \in DOMAIN app, NEW p \in CloudPaths, NEW v, Covers(j, p, v) PROVE Covers(j, p, v)'
 <2>1. j # id BY <1>3 DEF Covers
 <2>2. app'[j] = app[j] BY <2>1
 <2>3. \A u \in Clients : thread[u].at = "commit" => thread'[u] = thread[u] BY <1>0
 <2> QED BY <1>1, <1>3, <2>2, <2>3 DEF Covers, Stale
<1> QED BY <1>1, <1>2, <1>3, AwayStays

\* A candidate is made: either its base has been copied, or the file of the baseline stays.
LEMMA CandidateKept ==
  ASSUME SyncInv, SyncInv', KeptInv, NEW t \in Clients, BeginCandidate(t)
  PROVE  KeptInv'
<1> PICK id : id = thread[t].id OBVIOUS
<1>0. /\ UNCHANGED <<cloud, cloudFile, gen, loc, head, pushing, walk, lost, raced, syncMode>> /\ thread[t].at = "publish"
      /\ Enter(t, "final") BY DEF BeginCandidate, Stay, syncBudget, seen
<1>1. /\ SyncShape /\ KeptShape /\ CopiesHold /\ BaselinesShow /\ Ids /\ DisplacedKept
      /\ id \in DOMAIN app /\ app[id].st = "staged" /\ IdHolds(id) /\ Form(id)
      /\ {"st", "base", "copied", "copies", "evidence", "applied"} \subseteq DOMAIN app[id]
      /\ id.path \in id.paths /\ id.paths \subseteq CloudPaths /\ id.seq \in 1..Len(cloud)
 <2>1. SyncShape /\ KeptShape /\ CopiesHold /\ BaselinesShow /\ Ids /\ DisplacedKept BY DEF SyncInv, KeptInv
 <2>2. id \in DOMAIN app /\ app[id].st = "staged" /\ IdHolds(id) /\ Form(id)
   BY <1>0 DEF SyncInv, Ids, Stages, StageAt, KeptInv, Forms, Nil
 <2> QED BY <2>1, <2>2 DEF SyncShape, KeptShape, IdHolds
<1> DEFINE base == IF Adopted(id) THEN Bases(id) ELSE app[id].base
           held0 == IF Reuse(id, base) \/ app[id].copied THEN app[id].copies ELSE Displaced(id)
           done == app[id].copied \/ ~Reuse(id, base)
           shows == IF Reuse(id, base) THEN base[id.path].obs
                    ELSE IF ~IsMove(id) /\ WrittenAt(id.seq, id.path) # Nil THEN WrittenAt(id.seq, id.path) ELSE Nil
<1>2. /\ Writes(id) /\ ~Reuse(id, base) => Check(id, base, id.via = "choice")
      /\ app' = [app EXCEPT ![id].base = base, ![id].copies = held0, ![id].copied = done, ![id].evidence = shows]
  BY <1>1 DEF BeginCandidate, Run, App, Writes
<1> PICK b, cs, c, ev : b = base /\ cs = held0 /\ c = done /\ ev = shows OBVIOUS
<1>3. /\ b = IF Adopted(id) THEN Bases(id) ELSE app[id].base
      /\ Writes(id) /\ ~Reuse(id, b) => Check(id, b, id.via = "choice")
      /\ cs = IF Reuse(id, b) \/ app[id].copied THEN app[id].copies ELSE Displaced(id)
      /\ c = (app[id].copied \/ ~Reuse(id, b))
      /\ ev = IF Reuse(id, b) THEN b[id.path].obs
              ELSE IF Writes(id) THEN WrittenAt(id.seq, id.path) ELSE Nil
      /\ app' = [app EXCEPT ![id].base = b, ![id].copies = cs, ![id].copied = c, ![id].evidence = ev]
  BY <1>2 DEF Writes
<1> HIDE DEF base, held0, done, shows
<1>4. /\ DOMAIN app' = DOMAIN app /\ \A i \in DOMAIN app \ {id} : app'[i] = app[i]
      /\ DOMAIN app'[id] = DOMAIN app[id] /\ app'[id].st = "staged" /\ app'[id].base = b /\ app'[id].copies = cs
      /\ app'[id].copied = c /\ app'[id].evidence = ev BY <1>1, <1>3
<1>5. /\ \A k : Touches(k)' = Touches(k) /\ \A p : WrittenAt(k, p)' = WrittenAt(k, p)
      /\ \A i : Writes(i)' = Writes(i) /\ Place(i)' = Place(i) /\ Retriable(i)' = Retriable(i)
 <2>1. \A k : Touches(k)' = Touches(k) /\ \A p : WrittenAt(k, p)' = WrittenAt(k, p) BY <1>0, SameCloud
 <2> QED BY <1>0, <2>1 DEF Writes, IsMove, Place, Retriable, Passed, walk
<1>6. thread'[t].id = id /\ thread'[t].at = "final" /\ \A u \in Clients \ {t} : thread'[u] = thread[u]
  BY <1>0, <1>1 DEF Enter, SyncShape
<1>7. IsMove(id) => b = app[id].base /\ ~Reuse(id, b) BY <1>1, <1>3, FormFacts DEF Adopted, Reuse, Form
<1>8. ASSUME Writes(id), app[id].copied \/ ~Reuse(id, b) PROVE b[id.path].obs \in cs \cup {Nil, WrittenAt(id.seq, id.path)}
 <2>0. ~IsMove(id) /\ WrittenAt(id.seq, id.path) # Nil BY <1>8 DEF Writes
 <2>1. CASE Adopted(id)
  <3>1. b[id.path].obs = cloudFile[id.path] /\ head[id.path].seq = id.seq /\ head[id.path].obs = cloudFile[id.path]
    BY <1>1, <1>3, <2>1 DEF Adopted, Bases
  <3>2. id.seq # 0 /\ cloud[id.seq].by = Nil BY <1>1, <2>1 DEF Adopted, Form
  <3>3. Shown(id.path, id.seq) BY <1>1, <3>1, <3>2 DEF BaselinesShow
  <3> QED BY <3>1, <3>2, <3>3 DEF Shown
 <2>2. CASE ~Adopted(id) /\ app[id].copied BY <1>1, <1>3, <1>8, <2>2 DEF CopiesHold, InCopies
 <2>3. CASE ~Adopted(id) /\ ~app[id].copied
  <3>1. ~Reuse(id, b) /\ cs = Displaced(id) BY <1>3, <1>8, <2>3
  <3>2. b[id.path] = [gen |-> gen[id.path], obs |-> cloudFile[id.path]] BY <1>1, <1>3, <1>8, <3>1 DEF Check
  <3>3. cloudFile[id.path] # Nil => cloudFile[id.path] \in Displaced(id) BY <1>1, <2>0 DEF Displaced
  <3> QED BY <3>1, <3>2, <3>3
 <2> QED BY <2>1, <2>2, <2>3
<1>9. ASSUME c, Writes(id) PROVE InCopies(id, id.path)' BY <1>3, <1>4, <1>5, <1>8, <1>9 DEF InCopies
<1>10. (app[id].copied => app[id].st # "accepted" /\ (Writes(id) => InCopies(id, id.path)))' BY <1>4, <1>5, <1>9
<1>11. FinalAt(t)'
 <2>1. ASSUME Writes(id) PROVE Backed(id)' \/ Reused(id)'
  <3>1. CASE Reuse(id, b)
   <4>1. app'[id].evidence = app'[id].base[id.path].obs BY <1>3, <1>4, <3>1
   <4>2. Reuse(id, app[id].base)' BY <1>0, <1>4, <1>5, <3>1 DEF Reuse, IsMove
   <4> QED BY <4>1, <4>2 DEF Reused
  <3>2. CASE ~Reuse(id, b)
   <4>1. c /\ app'[id].evidence = WrittenAt(id.seq, id.path)' BY <1>3, <1>4, <1>5, <2>1, <3>2
   <4> QED BY <1>9, <2>1, <4>1 DEF Backed
  <3> QED BY <3>1, <3>2
 <2>2. IsMove(id) => c BY <1>3, <1>7
 <2> QED BY <1>4, <1>5, <1>6, <2>1, <2>2 DEF FinalAt, IsMove
<1>12. PublishingAt(t)' BY <1>6 DEF PublishingAt
<1>13. \A p \in id.paths : app'[id].base[p].gen \in {app[id].base[p].gen, gen[p]}
 <2>1. \A p \in id.paths : Bases(id)[p].gen = gen[p] BY DEF Bases
 <2>2. b = Bases(id) \/ b = app[id].base BY <1>3
 <2>3. app'[id].base = b BY <1>4
 <2> QED BY <2>1, <2>2, <2>3
<1>14. ASSUME Returned(id)' PROVE Returned(id)
 <2>1. IsMove(id) /\ Place(id)' = Place(id) /\ Place(id) \in id.paths /\ WrittenAt(id.seq, Place(id)) # Nil
   BY <1>1, <1>5, <1>14, FormFacts DEF Returned, IsMove
 <2>2. app'[id].base = app[id].base /\ app[id].base[Place(id)].obs = cloudFile[Place(id)]
   BY <1>0, <1>4, <1>7, <1>14, <2>1 DEF Returned
 <2>3. app[id].copied
  <3>1. ASSUME ~app[id].copied PROVE FALSE
   <4>1. cs = Displaced(id) BY <1>3, <1>7, <2>1, <3>1
   <4>2. cloudFile[Place(id)] # Nil => cloudFile[Place(id)] \in cs BY <2>1, <4>1 DEF Displaced
   <4> QED BY <1>4, <1>5, <1>14, <2>1, <2>2, <4>2 DEF Returned, InCopies
  <3> QED BY <3>1
 <2>4. app'[id].copies = app[id].copies BY <1>3, <1>4, <2>3
 <2>5. thread'["worker"].id = thread["worker"].id BY <1>6 DEF Clients
 <2> QED BY <1>0, <1>1, <1>5, <1>14, <2>1, <2>2, <2>3, <2>4, <2>5 DEF Returned, Stale, InCopies
<1>15. Away' BY <1>0, <1>1, <1>4, <1>14, AwayGoesOn DEF Nil
<1>16. DisplacedKept' BY <1>0, <1>1 DEF DisplacedKept
<1>17. DOMAIN cloudFile' = CloudPaths BY <1>0, <1>1 DEF KeptShape
<1> QED BY <1>0, <1>1, <1>4, <1>10, <1>11, <1>12, <1>13, <1>15, <1>16, <1>17, AdvanceKept DEF Nil

\* From the last check on an application holds the lock.
LEMMA PublishingKept ==
  ASSUME SyncInv, SyncInv', KeptInv, NEW t \in Clients, Publishing(t)
  PROVE  KeptInv'
<1> PICK id : id = thread[t].id OBVIOUS
<1>0. /\ UNCHANGED <<cloud, cloudFile, gen, loc, head, pushing, walk, lost, raced, syncMode>> /\ thread[t].at = "final"
      /\ Enter(t, "publishing") /\ syncMode = "up" /\ held = Nil
      /\ app' = [app EXCEPT ![id].st = "publishing"] /\ Check(id, app[id].base, id.via = "choice")
  BY DEF Publishing, Stay, LockFree, SyncUp, Run, App, syncBudget, seen
<1>1. /\ SyncShape /\ KeptShape /\ CopiesHold /\ Ids /\ Stages /\ DisplacedKept /\ FinalAt(t)
      /\ id \in DOMAIN app /\ app[id].st = "staged" /\ IdHolds(id) /\ Form(id)
      /\ {"st", "base", "copied", "copies", "evidence", "applied"} \subseteq DOMAIN app[id]
      /\ id.path \in id.paths /\ id.paths \subseteq CloudPaths /\ id.seq \in Nat
 <2>1. SyncShape /\ KeptShape /\ CopiesHold /\ Ids /\ Stages /\ DisplacedKept /\ FinalAt(t) BY DEF SyncInv, KeptInv
 <2>2. id \in DOMAIN app /\ app[id].st = "staged" /\ IdHolds(id) /\ Form(id)
   BY <1>0 DEF SyncInv, Ids, Stages, StageAt, KeptInv, Forms, Nil
 <2>3. id.seq \in Nat BY <2>1, <2>2, TouchedPaths DEF IdHolds
 <2> QED BY <2>1, <2>2, <2>3 DEF SyncShape, KeptShape, IdHolds
<1>2. /\ DOMAIN app' = DOMAIN app /\ \A i \in DOMAIN app \ {id} : app'[i] = app[i]
      /\ DOMAIN app'[id] = DOMAIN app[id] /\ app'[id].st = "publishing" /\ app'[id].base = app[id].base
      /\ app'[id].copies = app[id].copies /\ app'[id].copied = app[id].copied /\ app'[id].evidence = app[id].evidence
  BY <1>0, <1>1
<1>3. /\ \A k : \A p : WrittenAt(k, p)' = WrittenAt(k, p)
      /\ \A i : Writes(i)' = Writes(i) /\ Place(i)' = Place(i)
 <2>1. \A k : \A p : WrittenAt(k, p)' = WrittenAt(k, p) BY <1>0, SameCloud
 <2> QED BY <1>0, <2>1 DEF Writes, IsMove, Place
<1>4. thread'[t].id = id /\ thread'[t].at = "publishing" /\ \A u \in Clients \ {t} : thread'[u] = thread[u]
  BY <1>0, <1>1 DEF Enter, SyncShape
<1>5. \A p \in id.paths : /\ head[p].seq <= id.seq /\ ~Blocked(p) /\ ~Stale(id, p) /\ cloudFile[p] = app[id].base[p].obs
 <2>1. ASSUME NEW p \in id.paths PROVE app[id].base[p].gen = gen[p] /\ app[id].base[p].obs = cloudFile[p]
  <3>1. app[id].base[p] = [gen |-> gen[p], obs |-> cloudFile[p]] BY <1>0 DEF Check
  <3> QED BY <3>1
 <2>2. \A p \in id.paths : head[p].seq <= id.seq /\ ~Blocked(p) BY <1>0 DEF Check
 <2> QED BY <2>1, <2>2 DEF Stale
<1>6. Writes(id) => Backed(id) \/ Reused(id)
 <2>1. head[id.path].seq \in Nat BY <1>1 DEF SyncShape
 <2>2. ~(head[id.path].seq > id.seq) /\ ~Stale(id, id.path) BY <1>1, <1>5, <2>1
 <2> QED BY <1>0, <1>1, <2>2 DEF FinalAt
<1>7. IsMove(id) => InCopies(id, Place(id))
 <2> SUFFICES ASSUME IsMove(id), ~InCopies(id, Place(id)) PROVE FALSE OBVIOUS
 <2>1. id.via = "change" /\ Place(id) \in id.paths BY <1>1, FormFacts
 <2>2. thread["worker"].id = id BY <1>0, <1>1, <2>1 DEF Ids, Clients, Nil
 <2>3. Returned(id) BY <1>0, <1>1, <1>5, <2>1, <2>2 DEF Returned, FinalAt
 <2>4. PICK j \in DOMAIN app : Covers(j, Place(id), cloudFile[Place(id)]) BY <1>1, <2>3 DEF KeptInv, Away
 <2>5. CASE app[j].st = "indeterminate"
  <3>1. Place(id) \in j.paths BY <1>1, <2>4 DEF Ids, IdHolds, Covers
  <3>2. Blocked(Place(id)) BY <2>4, <2>5, <3>1 DEF Blocked, Covers, Stale
  <3> QED BY <1>5, <2>1, <3>2
 <2>6. CASE \E u \in Clients : thread[u].at = "commit" BY <1>0, <1>1, <2>6 DEF Stages, StageAt, Nil, Clients
 <2> QED BY <1>0, <2>4, <2>5, <2>6 DEF Covers
<1>8. (app[id].copied => app[id].st # "accepted" /\ (Writes(id) => InCopies(id, id.path)))'
  BY <1>1, <1>2, <1>3 DEF CopiesHold, InCopies
<1>9. FinalAt(t)' BY <1>4 DEF FinalAt
<1>10. PublishingAt(t)'
 <2>1. Backed(id)' = Backed(id) /\ Reused(id)' = Reused(id) /\ \A p : InCopies(id, p)' = InCopies(id, p)
   BY <1>0, <1>2, <1>3 DEF Backed, InCopies, Reused, Reuse, IsMove
 <2>2. \A p \in id.paths : ~Stale(id, p)' /\ cloudFile'[p] = app'[id].base[p].obs BY <1>0, <1>2, <1>5 DEF Stale
 <2>3. IsMove(id) => InCopies(id, Place(id))' BY <1>3, <1>7, <2>1 DEF InCopies
 <2> QED BY <1>3, <1>4, <1>6, <2>1, <2>2, <2>3 DEF PublishingAt, IsMove
<1>11. Away'
 <2>1. ~Returned(id)' BY <1>2 DEF Returned
 <2> QED BY <1>0, <1>1, <1>2, <2>1, AwayGoesOn DEF Nil
<1>12. DisplacedKept' /\ DOMAIN cloudFile' = CloudPaths BY <1>0, <1>1 DEF DisplacedKept, KeptShape
<1> QED BY <1>0, <1>1, <1>2, <1>8, <1>9, <1>10, <1>11, <1>12, AdvanceKept DEF Nil

\* The effect: only what was copied, or what another program has just written, is replaced.
LEMMA EffectKept ==
  ASSUME SyncInv, SyncInv', KeptInv, NEW t \in Clients, ApplyEffect(t)
  PROVE  KeptInv'
<1> PICK id : id = thread[t].id OBVIOUS
<1>0. /\ UNCHANGED <<cloud, gen, loc, head, held, pushing, walk, raced, syncMode>> /\ thread[t].at = "publishing"
      /\ Enter(t, "commit") /\ syncMode = "up" BY DEF ApplyEffect, SyncUp, syncBudget
<1>1. /\ SyncShape /\ KeptShape /\ CopiesHold /\ Ids /\ Stages /\ DisplacedKept /\ PublishingAt(t) /\ Order /\ Forms
      /\ id \in DOMAIN app /\ app[id].st = "publishing" /\ IdHolds(id) /\ Form(id) /\ held = t
      /\ {"st", "base", "copied", "copies", "evidence", "applied"} \subseteq DOMAIN app[id]
      /\ id.path \in id.paths /\ id.paths \subseteq CloudPaths
 <2>1. SyncShape /\ KeptShape /\ CopiesHold /\ Ids /\ Stages /\ DisplacedKept /\ PublishingAt(t) /\ Order /\ Forms
   BY DEF SyncInv, KeptInv
 <2>2. id \in DOMAIN app /\ app[id].st = "publishing" /\ IdHolds(id) /\ Form(id) /\ held = t
   BY <1>0, <2>1 DEF Ids, Stages, StageAt, Forms, Nil
 <2> QED BY <2>1, <2>2 DEF SyncShape, KeptShape, IdHolds
<1>2. /\ \A p \in id.paths : ~Stale(id, p) /\ (cloudFile[p] = app[id].base[p].obs \/ cloudFile[p] \in raced)
      /\ Writes(id) => Backed(id) \/ Reused(id)
      /\ IsMove(id) => InCopies(id, Place(id)) BY <1>0, <1>1 DEF PublishingAt
<1>3. thread'[t].id = id /\ thread'[t].at = "commit" /\ \A u \in Clients \ {t} : thread'[u] = thread[u]
  BY <1>0, <1>1 DEF Enter, SyncShape
\* What each kind of effect does.
<1>4. \/ /\ IsMove(id) /\ lost' = lost \cup Replaces(id, Place(id))
         /\ cloudFile' = [cloudFile EXCEPT ![Source(id)] = Nil, ![Place(id)] = cloudFile[Source(id)]]
         /\ \E e : app' = [app EXCEPT ![id].applied = TRUE, ![id].evidence = e]
      \/ /\ ~IsMove(id) /\ WrittenAt(id.seq, id.path) = Nil /\ lost' = lost
         /\ cloudFile' = [cloudFile EXCEPT ![id.path] = Nil]
         /\ \E e : app' = [app EXCEPT ![id].applied = TRUE, ![id].evidence = e]
      \/ Writes(id) /\ UNCHANGED <<cloudFile, lost, app>>
      \/ /\ Writes(id) /\ Backed(id) /\ lost' = lost \cup Replaces(id, id.path)
         /\ cloudFile' = [cloudFile EXCEPT ![id.path] = WrittenAt(id.seq, id.path)]
         /\ app' = [app EXCEPT ![id].applied = TRUE]
 <2>1. CASE IsMove(id)
  <3>1. MoveEffect(id) /\ \E e : app' = [app EXCEPT ![id].applied = TRUE, ![id].evidence = e]
    BY <2>1 DEF ApplyEffect, Run
  <3> QED BY <2>1, <3>1 DEF MoveEffect, Source, Place
 <2>2. CASE ~IsMove(id) /\ WrittenAt(id.seq, id.path) = Nil BY <2>2 DEF ApplyEffect, Run, TombstoneEffect
 <2>3. CASE Writes(id) /\ Reuse(id, app[id].base) BY <2>3 DEF ApplyEffect, Run, App, Writes
 <2>4. CASE Writes(id) /\ ~Reuse(id, app[id].base)
  <3>1. Backed(id) BY <1>2, <2>4 DEF Reused
  <3>2. FileEffect(id, id.path) /\ app' = [app EXCEPT ![id].applied = TRUE] BY <2>4 DEF ApplyEffect, Run, App, Writes
  <3> QED BY <2>4, <3>1, <3>2 DEF FileEffect
 <2> QED BY <2>1, <2>2, <2>3, <2>4 DEF Writes
<1>5. /\ DOMAIN app' = DOMAIN app /\ \A i \in DOMAIN app \ {id} : app'[i] = app[i]
      /\ DOMAIN app'[id] = DOMAIN app[id] /\ app'[id].st = "publishing" /\ app'[id].base = app[id].base
      /\ app'[id].copies = app[id].copies /\ app'[id].copied = app[id].copied
      /\ Writes(id) => app'[id].evidence = app[id].evidence
 <2>1. CASE \E e : app' = [app EXCEPT ![id].applied = TRUE, ![id].evidence = e] /\ ~Writes(id) BY <1>1, <2>1
 <2>2. CASE app' = app BY <1>1, <2>2
 <2>3. CASE app' = [app EXCEPT ![id].applied = TRUE] BY <1>1, <2>3
 <2> QED BY <1>4, <2>1, <2>2, <2>3 DEF Writes
<1>6. /\ \A k : Touches(k)' = Touches(k) /\ \A p : WrittenAt(k, p)' = WrittenAt(k, p)
      /\ \A i : Writes(i)' = Writes(i) /\ Place(i)' = Place(i) /\ IsMove(i)' = IsMove(i) /\ Retriable(i)' = Retriable(i)
 <2>1. \A k : Touches(k)' = Touches(k) /\ \A p : WrittenAt(k, p)' = WrittenAt(k, p) BY <1>0, SameCloud
 <2> QED BY <1>0, <2>1 DEF Writes, IsMove, Place, Retriable, Passed, walk
<1>7. IsMove(id) => /\ t = "worker" /\ Place(id) \in id.paths /\ Source(id) # Place(id)
                    /\ Source(id) \in CloudPaths /\ Place(id) \in CloudPaths
 <2>1. IsMove(id) => /\ id.via = "change" /\ Place(id) \in id.paths /\ Source(id) # Place(id) /\ Source(id) \in id.paths
   BY <1>1, FormFacts
 <2> QED BY <1>0, <1>1, <2>1 DEF Ids, Clients, Nil
<1>8. DisplacedKept'
 <2>1. ASSUME NEW p \in id.paths, InCopies(id, p) PROVE Replaces(id, p) \subseteq raced
  <3>1. cloudFile[p] = app[id].base[p].obs \/ cloudFile[p] \in raced BY <1>2
  <3> QED BY <2>1, <3>1 DEF Replaces, InCopies
 <2>2. IsMove(id) => Replaces(id, Place(id)) \subseteq raced BY <1>2, <1>7, <2>1
 <2>3. Backed(id) => Replaces(id, id.path) \subseteq raced BY <1>1, <2>1 DEF Backed
 <2> QED BY <1>0, <1>1, <1>4, <2>2, <2>3 DEF DisplacedKept
<1>9. DOMAIN cloudFile' = CloudPaths BY <1>1, <1>4 DEF KeptShape
<1>10. (app[id].copied => app[id].st # "accepted" /\ (Writes(id) => InCopies(id, id.path)))'
  BY <1>1, <1>5, <1>6 DEF CopiesHold, InCopies
<1>11. FinalAt(t)' /\ PublishingAt(t)' BY <1>0, <1>2, <1>3, <1>5 DEF FinalAt, PublishingAt, Stale
<1>12. ASSUME NEW i \in DOMAIN app, Returned(i)' PROVE \E j \in DOMAIN app : Covers(j, Place(i), cloudFile[Place(i)])'
 <2>1. i # id /\ app'[i] = app[i] BY <1>5, <1>12 DEF Returned
 <2>2. /\ IsMove(i) /\ IdHolds(i) /\ Form(i) /\ Place(i)' = Place(i) /\ i.via = "change" /\ Place(i) \in CloudPaths
  <3>1. IsMove(i) /\ IdHolds(i) /\ Form(i) /\ Place(i)' = Place(i) BY <1>1, <1>6, <1>12 DEF Returned, Ids, Forms
  <3>2. i.via = "change" /\ Place(i) \in i.paths BY <1>1, <3>1, FormFacts
  <3> QED BY <3>1, <3>2 DEF IdHolds
 <2>3. thread'["worker"].id = thread["worker"].id BY <1>3 DEF Clients
 <2> PICK p, v : p = Place(i) /\ v = cloudFile'[p] OBVIOUS
 <2>4. v # Nil /\ app[i].base[p].obs = v BY <1>12, <2>1, <2>2 DEF Returned, InCopies
 <2>5. CASE cloudFile[p] = v
  <3>1. Returned(i) BY <1>0, <1>6, <1>12, <2>1, <2>2, <2>3, <2>5 DEF Returned, Stale, InCopies
  <3>2. PICK j \in DOMAIN app : Covers(j, p, v) BY <2>5, <3>1 DEF KeptInv, Away
  <3>3. \A u \in Clients : thread[u].at # "commit" BY <1>0, <1>1 DEF Stages, StageAt, Clients
  <3>4. app[j].st = "indeterminate" /\ j # id BY <1>0, <1>1, <3>2, <3>3 DEF Covers
  <3>5. app'[j] = app[j] BY <1>5, <3>4
  <3>6. Covers(j, p, v)' BY <1>0, <1>6, <3>2, <3>4, <3>5 DEF Covers, Stale
  <3> QED BY <2>2, <3>6
 <2>6. CASE cloudFile[p] # v
  <3>1. ~IsMove(id)
   <4>1. ASSUME IsMove(id) PROVE FALSE
    <5>1. thread["worker"].id = id /\ thread["worker"].at # Nil /\ id.via = "change"
      BY <1>0, <1>1, <1>7, <4>1, FormFacts DEF Nil
    <5>2. ~Retriable(i) BY <1>1, <2>1, <2>2, <5>1 DEF Order, OrderOf
    <5>3. Retriable(i)' \/ thread'["worker"].id = i BY <1>12 DEF Returned
    <5> QED BY <1>6, <2>1, <2>3, <5>1, <5>2, <5>3
   <4> QED BY <4>1
  <3>2. Writes(id) /\ Backed(id) /\ p = id.path /\ v = WrittenAt(id.seq, p)
    BY <1>1, <1>4, <2>2, <2>4, <2>6, <3>1 DEF KeptShape
  <3>3. Covers(id, p, v)'
   <4>1. ~Stale(id, p) BY <1>1, <1>2, <3>2
   <4>2. app[id].evidence = v BY <3>2 DEF Backed
   <4> QED BY <1>0, <1>3, <1>5, <1>6, <3>1, <3>2, <4>1, <4>2 DEF Covers, Stale
  <3> QED BY <1>1, <2>2, <3>3
 <2> QED BY <2>5, <2>6
<1>13. Away' BY <1>5, <1>12 DEF Away
<1> QED BY <1>0, <1>1, <1>5, <1>8, <1>9, <1>10, <1>11, <1>13, AdvanceKept DEF Nil

\* An application commits: whatever else was prepared at its paths is behind for good.
LEMMA CommittedKept ==
  ASSUME SyncInv, SyncInv', KeptInv, NEW id \in DOMAIN app, app[id].st # "committed", Committed(id), Shows(id),
         \A p \in id.paths : head[p].seq <= id.seq,
         UNCHANGED <<cloud, cloudFile, loc, lost, raced, syncMode>>, PushesAlone', WalkFrom, ChangeSame,
         ckpt' # 0 => snap' = NoSnapshot /\ \A k \in (ckpt' + 1)..cur' : k <= cur \/ (k = id.seq /\ id.paths = Touches(k)),
         snap' # NoSnapshot => snap # NoSnapshot /\ snap'.through = snap.through,
         \A u \in Clients : thread'[u] = NoRun \/ (thread'[u] = thread[u] /\ thread[u].id # id
                                                   /\ thread[u].at \notin {"publishing", "commit"}),
         \A u \in Clients : thread[u].at = "commit" => thread[u].id = id
  PROVE  KeptInv'
<1>0. /\ SyncShape /\ SyncShape' /\ Ids /\ Stages /\ KeptShape /\ Forms /\ GensUsed /\ CopiesHold /\ DisplacedKept /\ Grows
      /\ IdHolds(id) /\ id.paths \subseteq CloudPaths /\ id.path \in id.paths /\ id.seq \in Nat /\ ckpt' \in Nat
 <2>1. /\ SyncShape /\ SyncShape' /\ Ids /\ Stages /\ KeptShape /\ Forms /\ GensUsed /\ CopiesHold /\ DisplacedKept /\ Grows
   BY DEF SyncInv, KeptInv, Grows
 <2>2. IdHolds(id) /\ id.paths \subseteq CloudPaths /\ id.path \in id.paths /\ id.seq \in 1..Len(cloud)
   BY <2>1 DEF Ids, IdHolds
 <2>3. id.seq \in Nat BY <2>1, <2>2, TouchedPaths
 <2> QED BY <2>1, <2>2, <2>3 DEF SyncInv, Walks
<1>1. /\ DOMAIN app' = DOMAIN app /\ \A i \in DOMAIN app \ {id} : app'[i] = app[i]
      /\ DOMAIN app'[id] = DOMAIN app[id] /\ app'[id].st = "committed" /\ app'[id].base = app[id].base
      /\ app'[id].copies = app[id].copies /\ app'[id].copied = app[id].copied
      /\ {"base", "copied", "copies", "evidence", "applied"} \subseteq DOMAIN app[id]
  BY <1>0 DEF Committed, SyncShape, KeptShape
<1>2. /\ DOMAIN gen' = CloudPaths
      /\ \A p \in CloudPaths : IF p \in id.paths
                               THEN /\ head'[p].seq = id.seq /\ head'[p].obs = cloudFile[p] /\ "obs" \in DOMAIN head'[p]
                                    /\ gen'[p] = id
                               ELSE head'[p] = head[p] /\ gen'[p] = gen[p] BY DEF Committed
<1>3. /\ \A k : Touches(k)' = Touches(k) /\ \A p : WrittenAt(k, p)' = WrittenAt(k, p)
      /\ \A i : Writes(i)' = Writes(i) /\ Place(i)' = Place(i) /\ IsMove(i)' = IsMove(i)
 <2>1. \A k : Touches(k)' = Touches(k) /\ \A p : WrittenAt(k, p)' = WrittenAt(k, p) BY SameCloud
 <2> QED BY <2>1 DEF Writes, IsMove, Place
<1>4. HeadsGrow BY <1>0, <1>2 DEF HeadsGrow, SyncShape
<1>5. WalkSame
 <2>1. ASSUME id.paths = Touches(id.seq) PROVE Passed(id.seq)' BY <1>0, <1>2, <1>3, <2>1 DEF Passed
 <2>2. ASSUME NEW k \in (ckpt' + 1)..cur', ckpt' # 0 PROVE k <= cur \/ Passed(k)'
  <3>1. k <= cur \/ (k = id.seq /\ id.paths = Touches(id.seq)) BY <2>2
  <3> QED BY <2>1, <3>1 DEF Passed
 <2> QED BY <2>2 DEF WalkSame
<1>6. ~Used(id) BY UnusedApp
<1>7. ASSUME NEW i \in DOMAIN app, NEW p \in i.paths, p \in CloudPaths, gen'[p] = app[i].base[p].gen
      PROVE  p \notin id.paths /\ gen'[p] = gen[p] /\ head'[p] = head[p]
 <2>1. Used(app[i].base[p].gen) BY <1>0 DEF GensUsed
 <2> QED BY <1>2, <1>6, <1>7, <2>1
<1>8. \A p \in CloudPaths : \/ head'[p].seq = head[p].seq /\ head'[p].obs = head[p].obs
                            \/ \A n \in {head'[p].seq} : Shown(p, n)'
 <2>1. ASSUME NEW p \in id.paths PROVE Shown(p, id.seq)'
  <3>1. cloudFile[p] = WrittenAt(id.seq, p) /\ head'[p].obs = cloudFile[p] BY <1>0, <1>2 DEF Shows
  <3> QED BY <1>3, <3>1 DEF Shown
 <2> QED BY <1>0, <1>2, <2>1
<1>9. ASSUME NEW u \in Clients PROVE FinalAt(u)' /\ PublishingAt(u)'
 <2>1. CASE thread'[u] = NoRun BY <2>1 DEF FinalAt, PublishingAt, NoRun, Nil
 <2>2. CASE thread'[u] = thread[u] /\ thread[u].id # id /\ thread[u].at \notin {"publishing", "commit"}
  <3>1. ASSUME thread[u].at = "final"
        PROVE  /\ thread[u].id \in DOMAIN app /\ thread[u].id.path \in thread[u].id.paths
               /\ thread[u].id.path \in CloudPaths BY <1>0, <3>1 DEF Stages, StageAt, Ids, IdHolds, Nil
  <3>2. FinalAt(u)'
   <4>1. ASSUME thread[u].at = "final"
         PROVE  /\ app'[thread[u].id] = app[thread[u].id]
                /\ \/ app[thread[u].id].base[thread[u].id.path].gen # gen'[thread[u].id.path]
                   \/ /\ gen'[thread[u].id.path] = gen[thread[u].id.path]
                      /\ head'[thread[u].id.path] = head[thread[u].id.path] BY <1>1, <1>7, <2>2, <3>1, <4>1
   <4> QED BY <1>0, <2>2, <4>1, FinalStays
  <3>3. PublishingAt(u)' BY <2>2 DEF PublishingAt
  <3> QED BY <3>2, <3>3
 <2> QED BY <2>1, <2>2
<1>10. Away'
 <2>1. ASSUME NEW i \in DOMAIN app, Returned(i)'
       PROVE  /\ Returned(i) /\ Place(i)' = Place(i)
              /\ cloudFile'[Place(i)] = cloudFile[Place(i)] /\ gen'[Place(i)] = gen[Place(i)]
  <3>1. i # id /\ app'[i] = app[i] BY <1>1, <2>1 DEF Returned
  <3>2. IsMove(i) /\ IdHolds(i) /\ Form(i) /\ Place(i)' = Place(i) BY <1>0, <1>3, <2>1 DEF Returned, Ids, Forms
  <3>3. Place(i) \in i.paths /\ Place(i) \in CloudPaths BY <1>0, <3>2, FormFacts DEF IdHolds
  <3>4. gen'[Place(i)] = app[i].base[Place(i)].gen BY <2>1, <3>1, <3>2 DEF Returned, Stale
  <3>5. gen'[Place(i)] = gen[Place(i)] BY <1>7, <3>3, <3>4
  <3>6. Retriable(i)' => Retriable(i) BY <1>0, <1>4, <3>2, RetriableStays
  <3>7. thread'["worker"].id = i => thread["worker"].id = i BY <3>2 DEF NoRun, NoId, IdHolds, Clients
  <3> QED BY <1>3, <2>1, <3>1, <3>2, <3>5, <3>6, <3>7 DEF Returned, Stale, InCopies
 <2>2. ASSUME NEW j \in DOMAIN app, NEW p \in CloudPaths, NEW v, gen'[p] = gen[p], Covers(j, p, v) PROVE Covers(j, p, v)'
  <3>1. p \in j.paths /\ gen'[p] = app[j].base[p].gen BY <1>0, <2>2 DEF Covers, Stale, Ids, IdHolds
  <3>2. p \notin id.paths /\ head'[p] = head[p] BY <1>7, <3>1
  <3>3. j # id BY <1>0, <2>2, <3>2 DEF Covers
  <3>4. app'[j] = app[j] /\ \A u \in Clients : ~(thread[u].id = j /\ thread[u].at = "commit") BY <1>1, <3>3
  <3> QED BY <1>3, <2>2, <3>2, <3>4 DEF Covers, Stale
 <2> QED BY <1>1, <2>1, <2>2, AwayStays
<1>11. DisplacedKept' /\ DOMAIN cloudFile' = CloudPaths BY <1>0 DEF DisplacedKept, KeptShape
<1>12. (app[id].copied => app[id].st # "accepted" /\ (Writes(id) => InCopies(id, id.path)))'
  BY <1>0, <1>1, <1>3 DEF CopiesHold, InCopies
<1>13. \A u \in Clients : thread'[u].at # Nil => thread[u].at # Nil /\ thread'[u].id = thread[u].id BY DEF NoRun
<1>14. \A p \in CloudPaths : (gen'[p] = gen[p] \/ (gen'[p] = id /\ app'[id].st = "committed")) /\ "obs" \in DOMAIN head'[p]
  BY <1>0, <1>1, <1>2 DEF KeptShape
<1> QED BY <1>0, <1>1, <1>2, <1>4, <1>5, <1>8, <1>9, <1>10, <1>11, <1>12, <1>13, <1>14, RecordKept

LEMMA CommitApplyKept ==
  ASSUME SyncInv, SyncInv', KeptInv, NEW t \in Clients, CommitApply(t)
  PROVE  KeptInv'
<1> PICK id : id = thread[t].id OBVIOUS
<1>0. /\ SyncShape /\ Ids /\ Stages /\ Walks /\ Order /\ PushesAlone /\ StageAt(t)
      /\ UNCHANGED <<cloud, cloudFile, loc, lost, raced, syncMode, pushing>> /\ thread[t].at = "commit"
      /\ Committed(id) /\ Shows(id) /\ thread' = [thread EXCEPT ![t] = NoRun] /\ Walked(id)
  BY DEF SyncInv, KeptInv, CommitApply, ApplyDone, Run, Stages, seen, syncBudget
<1>1. /\ id \in DOMAIN app /\ held = t /\ app[id].st = "publishing" /\ \A p \in id.paths : head[p].seq <= id.seq
      /\ IdHolds(id) /\ \A u \in Clients \ {t} : thread[u].at \notin {"publishing", "commit"}
  BY <1>0 DEF Ids, Stages, StageAt, Nil
<1>2. thread'[t] = NoRun /\ \A u \in Clients \ {t} : thread'[u] = thread[u] /\ thread[u].id # id
  BY <1>0, RunsDiffer DEF SyncShape, Nil
<1>3. /\ ckpt' = ckpt /\ cur' = (IF id.via = "change" THEN id.seq ELSE cur)
      /\ snap' = (IF id.via = "snapshot" THEN [snap EXCEPT !.left = @ \ {id.path}] ELSE snap) BY <1>0 DEF Walked
<1>4. /\ id.via = "change" => id.seq = cur + 1 /\ id.paths = Touches(id.seq)
      /\ id.via = "snapshot" => ckpt = 0 /\ snap # NoSnapshot
 <2>1. id.via \in {"change", "snapshot"} => t = "worker" BY <1>0 DEF Ids, Clients, Nil
 <2>2. id.via = "snapshot" => id.path \in snap.left BY <1>0, <2>1 DEF Walks, Nil
 <2> QED BY <1>0, <2>1, <2>2 DEF Walks, Nil, NoSnapshot
<1>5. snap'.through = snap.through /\ cur \in Nat /\ ckpt \in Nat BY <1>0, <1>3 DEF SyncShape, Walks
<1>6. WalkFrom /\ ChangeSame /\ PushesAlone'
  BY <1>0, <1>2, <1>3, <1>5 DEF WalkFrom, ChangeSame, PushesAlone, NoRun, Clients, Nil
<1>7. /\ ckpt' # 0 => snap' = NoSnapshot /\ \A k \in (ckpt' + 1)..cur' : k <= cur \/ (k = id.seq /\ id.paths = Touches(k))
      /\ snap' # NoSnapshot => snap # NoSnapshot
 <2>1. ASSUME NEW k \in (ckpt' + 1)..cur' PROVE k <= cur \/ (k = id.seq /\ id.paths = Touches(k))
   BY <1>3, <1>4, <1>5, <2>1
 <2> QED BY <1>0, <1>3, <1>4, <2>1 DEF Order
<1> QED BY <1>0, <1>1, <1>2, <1>5, <1>6, <1>7, CommittedKept

LEMMA RecoverKept ==
  ASSUME SyncInv, SyncInv', KeptInv, NEW id \in DOMAIN app, Recover(id)
  PROVE  KeptInv'
<1>0. /\ SyncShape /\ Stages /\ IdHolds(id) /\ Walks /\ PushesAlone /\ syncMode = "recover"
      /\ UNCHANGED <<cloud, cloudFile, loc, thread, pushing, walk, lost, raced, syncMode>>
      /\ Committed(id) /\ Shows(id) /\ app[id].st # "committed" /\ \A p \in id.paths : head[p].seq <= id.seq
  BY DEF SyncInv, KeptInv, Ids, Recover, EffectProved, syncBudget, seen
<1>1. \A u \in Clients : thread[u].at = Nil /\ thread[u].id # id BY <1>0 DEF Stages, SyncInv, Ids, IdHolds, NoId
<1>2. WalkFrom /\ WalkSame /\ ChangeSame /\ PushesAlone' BY <1>0, WalkUnmoved DEF ChangeSame, PushesAlone
<1>3. ckpt' = ckpt /\ cur' = cur /\ snap' = snap /\ ckpt \in Nat /\ cur \in Nat BY <1>0 DEF walk, Walks
<1>4. \A k \in (ckpt' + 1)..cur' : k <= cur BY <1>3
<1> QED BY <1>0, <1>1, <1>2, <1>3, <1>4, CommittedKept DEF WalkSame, Nil

\* What it may have written is covered by the record that stays indeterminate.
LEMMA FailureKept ==
  ASSUME SyncInv, SyncInv', KeptInv, NEW t \in Clients, PublishFails(t)
  PROVE  KeptInv'
<1> PICK id : id = thread[t].id OBVIOUS
<1>0. /\ UNCHANGED <<cloud, cloudFile, gen, loc, head, pushing, lost, raced, syncMode>> /\ syncMode = "up"
      /\ thread[t].at \in {"publishing", "commit"} /\ app' = [app EXCEPT ![id].st = "indeterminate"]
      /\ PutOff(t, thread[t].id) /\ WalkFails(thread[t].id) BY DEF PublishFails, SyncUp, Run, seen
<1>1. /\ SyncShape /\ SyncShape' /\ Ids /\ Stages /\ KeptShape /\ CopiesHold /\ DisplacedKept /\ PushesAlone
      /\ id \in DOMAIN app /\ app[id].st = "publishing" /\ held = t
      /\ \A u \in Clients \ {t} : thread[u].at \notin {"publishing", "commit"}
      /\ {"st", "base", "copied", "copies", "evidence", "applied"} \subseteq DOMAIN app[id]
 <2>1. SyncShape /\ SyncShape' /\ Ids /\ Stages /\ KeptShape /\ CopiesHold /\ DisplacedKept /\ PushesAlone
   BY DEF SyncInv, KeptInv
 <2>2. id \in DOMAIN app /\ app[id].st = "publishing" /\ held = t BY <1>0, <2>1 DEF Stages, StageAt
 <2>3. \A u \in Clients \ {t} : thread[u].at \notin {"publishing", "commit"} BY <2>1, <2>2 DEF Stages, StageAt
 <2> QED BY <2>1, <2>2, <2>3 DEF SyncShape, KeptShape
<1>2. /\ DOMAIN app' = DOMAIN app /\ \A i \in DOMAIN app \ {id} : app'[i] = app[i]
      /\ DOMAIN app'[id] = DOMAIN app[id] /\ app'[id].st = "indeterminate" /\ app'[id].base = app[id].base
      /\ app'[id].copies = app[id].copies /\ app'[id].copied = app[id].copied BY <1>0, <1>1
<1>3. /\ WalkFrom /\ WalkSame /\ ckpt' \in Nat /\ ChangeSame
      /\ thread'[t] = NoRun /\ \A u \in Clients \ {t} : thread'[u] = thread[u] BY <1>0, WalkFalls
<1>4. Grows /\ HeadsGrow BY <1>0, <1>1 DEF Grows, HeadsGrow, SyncShape
<1>5. /\ \A k : Touches(k)' = Touches(k) /\ \A p : WrittenAt(k, p)' = WrittenAt(k, p)
      /\ \A i : Writes(i)' = Writes(i) /\ Place(i)' = Place(i) /\ IsMove(i)' = IsMove(i)
 <2>1. \A k : Touches(k)' = Touches(k) /\ \A p : WrittenAt(k, p)' = WrittenAt(k, p) BY <1>0, SameCloud
 <2> QED BY <1>0, <2>1 DEF Writes, IsMove, Place
<1>6. ASSUME NEW u \in Clients PROVE FinalAt(u)' /\ PublishingAt(u)'
 <2>1. CASE u = t BY <1>3, <2>1 DEF FinalAt, PublishingAt, NoRun, Nil
 <2>2. CASE u # t BY <1>0, <1>2, <1>3, <2>2, OtherRuns DEF Nil
 <2> QED BY <2>1, <2>2
<1>7. Away'
 <2>1. ASSUME NEW i \in DOMAIN app, Returned(i)' PROVE Returned(i) /\ Place(i)' = Place(i)
  <3>1. i # id /\ app'[i] = app[i] BY <1>2, <2>1 DEF Returned
  <3>2. IdHolds(i) BY <1>1 DEF Ids
  <3>3. Retriable(i)' => Retriable(i) BY <1>1, <1>3, <1>4, <3>2, RetriableStays
  <3>4. thread'["worker"].id = i => thread["worker"].id = i BY <1>3, <3>2 DEF NoRun, NoId, IdHolds, Clients
  <3> QED BY <1>0, <1>5, <2>1, <3>1, <3>3, <3>4 DEF Returned, Stale, InCopies
 <2>2. ASSUME NEW j \in DOMAIN app, NEW p \in CloudPaths, NEW v, Covers(j, p, v) PROVE Covers(j, p, v)'
  <3>1. CASE j = id BY <1>0, <1>2, <1>5, <2>2, <3>1 DEF Covers, Stale
  <3>2. CASE j # id
   <4>1. \A u \in Clients : ~(thread[u].id = j /\ thread[u].at = "commit") BY <1>1, <3>2
   <4>2. app'[j] = app[j] /\ app[j].st = "indeterminate" BY <1>0, <1>2, <2>2, <3>2, <4>1 DEF Covers
   <4> QED BY <1>0, <1>5, <2>2, <4>2 DEF Covers, Stale
  <3> QED BY <3>1, <3>2
 <2> QED BY <1>0, <1>2, <2>1, <2>2, AwayStays
<1>8. PushesAlone' BY <1>0, <1>1, <1>3 DEF PushesAlone, NoRun, Clients
<1>9. DisplacedKept' /\ DOMAIN cloudFile' = CloudPaths /\ DOMAIN gen' = CloudPaths /\ \A p \in CloudPaths : "obs" \in DOMAIN head'[p]
  BY <1>0, <1>1 DEF DisplacedKept, KeptShape
<1>10. (app[id].copied => app[id].st # "accepted" /\ (Writes(id) => InCopies(id, id.path)))'
  BY <1>1, <1>2, <1>5 DEF CopiesHold, InCopies
<1>11. \A u \in Clients : thread'[u].at # Nil => thread[u].at # Nil /\ thread'[u].id = thread[u].id BY <1>3 DEF NoRun
<1> QED BY <1>0, <1>1, <1>2, <1>3, <1>4, <1>6, <1>7, <1>8, <1>9, <1>10, <1>11, RecordKept

--------------------
LEMMA KeptInitHolds == SyncInit => KeptInv
<1> SUFFICES ASSUME SyncInit PROVE KeptInv OBVIOUS
<1> DEFINE e(p) == [from |-> Nil, to |-> p, v |-> FirstVersion, by |-> Nil]
           l == [kind |-> Nil, from |-> Nil, to |-> Nil, st |-> Nil, base |-> <<>>, obs |-> Nil, push |-> Nil]
<1>1. PICK p \in CloudPaths :
        /\ cloud = <<e(p)>>
        /\ cloudFile = [x \in CloudPaths |-> IF x = p THEN FirstVersion ELSE Nil]
        /\ head = [x \in CloudPaths |-> IF x = p THEN [seq |-> 1, obs |-> FirstVersion, known |-> TRUE]
                                        ELSE [seq |-> 0, obs |-> Nil, known |-> TRUE]] BY DEF SyncInit
<1>2. e(p).from = Nil /\ e(p).to = p /\ e(p).by = Nil /\ e(p).v = FirstVersion OBVIOUS
<1>3. /\ {"base", "obs"} \subseteq DOMAIN l /\ l.st = Nil /\ l.kind = Nil OBVIOUS
<1>4. loc = [o \in Locals |-> l] BY DEF SyncInit
<1> HIDE DEF e, l
<1>5. Len(cloud) = 1 /\ cloud[1] = e(p) /\ p # Nil BY <1>1, SyncAssumption DEF Nil
<1>6. /\ app = <<>> /\ thread = [t \in Clients |-> NoRun] /\ pushing = NoPush /\ gen = [x \in CloudPaths |-> NoId]
      /\ ckpt = 1 /\ cur = 1 /\ snap = NoSnapshot /\ lost = {} BY DEF SyncInit
<1>7. DOMAIN app = {} /\ \A t \in Clients : thread[t].at = Nil BY <1>6 DEF NoRun
<1>8. KeptShape
 <2>1. DOMAIN cloudFile = CloudPaths /\ DOMAIN gen = CloudPaths /\ \A x \in CloudPaths : "obs" \in DOMAIN head[x]
   BY <1>1, <1>6
 <2>2. \A o \in Locals : LocShape(o) BY <1>3, <1>4 DEF LocShape, Nil
 <2>3. \A k \in 1..Len(cloud) : EntryShape(k) BY <1>2, <1>5 DEF EntryShape
 <2> QED BY <1>7, <2>1, <2>2, <2>3 DEF KeptShape
<1>9. Forms /\ PushesAlone /\ CopiesHold /\ Away /\ DisplacedKept
  BY <1>6, <1>7 DEF Forms, PushesAlone, NoPush, CopiesHold, Away, DisplacedKept
<1>10. BaselinesShow BY <1>1, <1>2, <1>5 DEF BaselinesShow, Shown, WrittenAt
<1>11. GensUsed BY <1>6, <1>7 DEF GensUsed, Used
<1>12. \A t \in Clients : FinalAt(t) /\ PublishingAt(t) BY <1>7 DEF FinalAt, PublishingAt, Nil
<1>13. Order BY <1>6, <1>7 DEF Order
<1> QED BY <1>8, <1>9, <1>10, <1>11, <1>12, <1>13 DEF KeptInv

LEMMA KeptStutter ==
  ASSUME SyncInv, SyncInv', KeptInv, UNCHANGED syncVars
  PROVE  KeptInv'
<1>1. /\ PushesAlone /\ KeptShape
      /\ UNCHANGED <<cloud, cloudFile, gen, loc, head, app, thread, pushing, walk, lost, raced, syncMode>>
  BY DEF KeptInv, syncVars, local, seen, syncBudget
<1>2. Order' /\ PushesAlone' /\ ThreadsQuiet /\ Retries
 <2>1. ChangeSame /\ ThreadsQuiet /\ PushesAlone' BY <1>1 DEF ChangeSame, ThreadsQuiet, PushesAlone
 <2>2. Retries BY <1>1 DEF Retries, Retriable, Passed, Touches, walk
 <2> QED BY <1>1, <2>1, <2>2, OrderUnmoved
<1> QED BY <1>1, <1>2, RecordsKept DEF KeptShape

LEMMA KeptStep == SyncInv /\ KeptInv /\ [SyncNext]_syncVars => KeptInv'
<1> SUFFICES ASSUME SyncInv, KeptInv, [SyncNext]_syncVars PROVE KeptInv' OBVIOUS
<1>0. SyncInv' BY SyncStep
<1>1. CASE CloudChange BY <1>0, <1>1, CloudChangeKept
<1>2. CASE ProgramWrites BY <1>0, <1>2, ProgramWritesKept
<1>3. CASE \E o \in Locals : LocalAccept(o) \/ LocalCommit(o) BY <1>0, <1>3, AcceptKept, LocalCommitKept
<1>4. CASE LosePush \/ (\E o \in Locals : BeginPush(o)) \/ PushConflict BY <1>0, <1>4, PushKept
<1>5. CASE SendPush BY <1>0, <1>5, SendKept
<1>6. CASE RecordAcknowledgement BY <1>0, <1>6, AcknowledgeKept
<1>7. CASE \E t \in Clients : ApplyStep(t)
 <2>1. PICK t \in Clients : ApplyStep(t) BY <1>7
 <2>2. CASE Prepare(t) \/ StageSource(t) BY <1>0, <2>2, PrepareKept, SourceKept
 <2>3. CASE BeginCandidate(t) \/ Publishing(t) BY <1>0, <2>3, CandidateKept, PublishingKept
 <2>4. CASE ApplyEffect(t) \/ CommitApply(t) BY <1>0, <2>4, EffectKept, CommitApplyKept
 <2>5. CASE RefuseApply(t) \/ PublishFails(t) BY <1>0, <2>5, RefusalKept, FailureKept
 <2> QED BY <2>1, <2>2, <2>3, <2>4, <2>5 DEF ApplyStep
<1>8. CASE Import \/ Choose BY <1>0, <1>8, ImportKept, ChooseKept
<1>9. CASE TakeSnapshot \/ ApplySnapshotEntry \/ EndSnapshot
  BY <1>0, <1>9, TakeSnapshotKept, SnapshotEntryKept, EndSnapshotKept
<1>10. CASE ReadChanges \/ SaveCheckpoint \/ CursorExpires BY <1>0, <1>10, PagesKept
<1>11. CASE ApplyChange BY <1>0, <1>11, ApplyChangeKept
<1>12. CASE SyncCrash \/ SyncReady BY <1>0, <1>12, SyncCrashKept, ReadyKept
<1>13. CASE \E id \in DOMAIN app : Recover(id) BY <1>0, <1>13, RecoverKept
<1>14. CASE UNCHANGED syncVars BY <1>0, <1>14, KeptStutter
<1> QED BY <1>1, <1>2, <1>3, <1>4, <1>5, <1>6, <1>7, <1>8, <1>9, <1>10, <1>11, <1>12, <1>13, <1>14 DEF SyncNext

\* A remote change destroys nothing that was not copied to a recovery capture first,
\* but for what another program writes between the last check and the rename
\* (RemotePublication's displaced captures and its check before "publishing").
THEOREM DisplacedIsCopied == SyncSpec => []DisplacedKept
<1>1. SyncInit => SyncInv /\ KeptInv BY SyncInitHolds, KeptInitHolds
<1>2. (SyncInv /\ KeptInv) /\ [SyncNext]_syncVars => (SyncInv /\ KeptInv)' BY SyncStep, KeptStep
<1>3. SyncInv /\ KeptInv => DisplacedKept BY DEF KeptInv
<1> QED BY <1>1, <1>2, <1>3, PTL DEF SyncSpec

\* SyncPromises, whole: nothing is destroyed that was not copied, and no change at or
\* below the checkpoint is skipped (remote-publication.js, workspace-persistence-port.js).
THEOREM CloudIsFollowed == SyncSpec => []SyncPromises
<1>1. DisplacedKept /\ NoChangeSkipped => SyncPromises BY DEF SyncPromises
<1> QED BY <1>1, DisplacedIsCopied, ChangesAreNotSkipped, PTL

=============================================================================
