-------------------------------- MODULE FileEvents --------------------------------
(***************************************************************************)
(* Boot-local invalidation hints (file-events.js): a bounded ring of       *)
(* numbered events, subscribers that see only the events of their scope,   *)
(* and reconnects that resume after the last id a browser has seen, or are *)
(* told to fetch everything again.  A frame's id carries no scope, so the  *)
(* service remembers which scope each id was issued to, within a budget.   *)
(* The browser keeps the id of the last frame it received, and fetches its *)
(* scope again on a reset or on a "ready" that does not resume.  It may    *)
(* connect again under another scope, with the id it has; what it knows    *)
(* then belongs to neither scope until it fetches again.                   *)
(***************************************************************************)
EXTENDS Naturals, Sequences, Sublists

CONSTANTS Folders, Watched,  \* folders, and those a browser may subscribe to
          RingSize,       \* eventCount: events kept for replay
          IssuedSize,     \* ids whose scope is remembered (eventCount + 32)
          ResetSize,      \* overflows remembered by scope (32)
          SubscriberSize, \* frames a subscriber may have outstanding (subscriberBytes)
          MaxJournal, MaxBoots, MaxConnections

ASSUME EventsAssumption == SubscriberSize \in Nat \ {0} /\ "none" \notin Watched

VARIABLES journal,        \* every event of this boot, the ring is its tail
          floor,          \* events dropped from the ring
          issuedScopes,   \* cursors issued per scope, in insertion order
          resets, resetFloor,  \* resetScopes, in insertion order, and one past the last of them trimmed
          boot,
          sub,            \* the server's side of one browser's connection
          wire,           \* frames written to it and not yet received
          cursor,         \* the browser's Last-Event-ID
          knows,          \* the scope it has fetched, and that scope's events it knows of
          connections
eventVars == <<journal, floor, issuedScopes, resets, resetFloor, boot, sub, wire, cursor, knows, connections>>

Root == "root"
Scopes == Watched \cup {Root}
Shared == "shared"
NoScope == "none"
NoSub == [state |-> "off", scope |-> Root, blocked |-> FALSE, queue |-> <<>>]
NoCursor == [boot |-> 0, seq |-> 0]
seq == Len(journal)
Ring == floor + 1 .. seq

EventsInit ==
    /\ journal = <<>> /\ floor = 0 /\ issuedScopes = <<>> /\ resets = <<>> /\ resetFloor = 0 /\ boot = 1 /\ connections = 0
    /\ sub = NoSub /\ wire = <<>>
    /\ cursor = NoCursor /\ knows = [boot |-> 0, scope |-> NoScope, seqs |-> {}, greeted |-> FALSE]

\* scopedPayload: an event of the root, or for the root, meets every scope.
Intersects(scope, path) == path = Root \/ scope = Root \/ path = scope

Trim(s, n) == IF Len(s) > n THEN SubSeq(s, Len(s) - n + 1, Len(s)) ELSE s

\* A shared id cannot prove a scope.
RememberScope(ids, n, scope) ==
    LET other == \E i \in DOMAIN ids : ids[i].seq = n /\ ids[i].scope # scope
        kept == SelectSeq(ids, LAMBDA r : r.seq # n)
    IN  Trim(Append(kept, [seq |-> n, scope |-> IF other THEN Shared ELSE scope]), IssuedSize)

KnownScope(n, scope) == \E i \in DOMAIN issuedScopes : issuedScopes[i].seq = n /\ issuedScopes[i].scope = scope

RememberAll(ids, frames, scope) ==
    LET f[i \in 0 .. Len(frames)] == IF i = 0 THEN ids ELSE RememberScope(f[i - 1], frames[i].seq, scope)
    IN  f[Len(frames)]

FrameOf(n) == [kind |-> journal[n].kind, seq |-> n]

-------------------------------------------------------------------------------
\* One subscriber
Gone == /\ sub' = NoSub /\ wire' = <<>>
           /\ knows' = [knows EXCEPT !.greeted = FALSE]

MarkOverflow(scope) ==
    LET kept == Append(SelectSeq(resets, LAMBDA r : r.scope # scope), [scope |-> scope, seq |-> Len(journal')])
    IN  /\ resets' = Trim(kept, ResetSize)
        /\ resetFloor' = IF Len(kept) > ResetSize /\ kept[1].seq >= resetFloor THEN kept[1].seq + 1 ELSE resetFloor

\* overflow: everything outstanding is dropped; the reset may still fit.
Overflow ==
    /\ MarkOverflow(sub.scope)
    /\ \/ Gone
       \/ /\ ~sub.blocked
          /\ sub' = [NoSub EXCEPT !.state = "ended", !.scope = sub.scope]
          /\ wire' = Append(wire, [kind |-> "reset", seq |-> Len(journal')])
          /\ UNCHANGED knows

Full == Len(sub.queue) + Len(wire) >= SubscriberSize

\* enqueue, write: the socket takes the frame, and may ask for a pause.
AcceptFrame(frame) ==
    IF Full THEN Overflow /\ UNCHANGED issuedScopes
    ELSE /\ IF sub.blocked
            THEN sub' = [sub EXCEPT !.queue = Append(@, frame)] /\ UNCHANGED <<wire, issuedScopes>>
            ELSE /\ wire' = Append(wire, frame) /\ issuedScopes' = RememberScope(issuedScopes, frame.seq, sub.scope)
                 /\ \E b \in BOOLEAN : sub' = [sub EXCEPT !.blocked = b]
         /\ UNCHANGED <<resets, resetFloor, knows>>

\* publish: kind "reset" is also what an event larger than the ring becomes.
Publish(path, kind) ==
    /\ seq < MaxJournal /\ journal' = Append(journal, [path |-> path, kind |-> kind])
    /\ floor' = IF Len(journal') - floor > RingSize THEN floor + 1 ELSE floor
    /\ IF sub.state = "on" /\ Intersects(sub.scope, path) THEN AcceptFrame([kind |-> kind, seq |-> Len(journal')])
       ELSE UNCHANGED <<issuedScopes, resets, resetFloor, sub, wire, knows>>
    /\ UNCHANGED <<boot, cursor, connections>>

DrainSubscriber ==
    /\ sub.state = "on" /\ sub.blocked
    /\ IF sub.queue = <<>> THEN sub' = [sub EXCEPT !.blocked = FALSE] /\ UNCHANGED <<wire, issuedScopes>>
       ELSE /\ wire' = Append(wire, Head(sub.queue))
            /\ issuedScopes' = RememberScope(issuedScopes, Head(sub.queue).seq, sub.scope)
            /\ sub' = [sub EXCEPT !.queue = Tail(@)]
    /\ UNCHANGED <<journal, floor, resets, resetFloor, boot, cursor, knows, connections>>

Stall == /\ sub.state = "on" /\ sub.blocked /\ UNCHANGED <<journal, floor>> /\ Overflow
            /\ UNCHANGED <<issuedScopes, boot, cursor, connections>>

Disconnect == /\ sub.state # "off" /\ Gone
                 /\ UNCHANGED <<journal, floor, issuedScopes, resets, resetFloor, boot, cursor, connections>>

-------------------------------------------------------------------------------
\* attach
Overflowed(scope, after) == after < resetFloor \/ \E i \in DOMAIN resets : resets[i].scope = scope /\ after <= resets[i].seq

\* A slip: the first event lost is not counted as a gap.
GapLate(after) == after > seq \/ after + 1 < floor

Gap(after) == after > seq \/ after < floor

Resumes(scope, cur) ==
    /\ cur.boot = boot /\ ~Overflowed(scope, cur.seq) /\ ~Gap(cur.seq) /\ KnownScope(cur.seq, scope)
    /\ ~\E n \in Ring : n > cur.seq /\ journal[n].kind = "reset" /\ Intersects(scope, journal[n].path)

Replayed(scope, after) == Sublist([n \in 1 .. seq |-> FrameOf(n)],
                                  {n \in Ring : n > after /\ Intersects(scope, journal[n].path)})

Attach(scope) ==   \* the socket may pause after k frames; the rest is queued
    /\ sub.state = "off" /\ connections < MaxConnections /\ connections' = connections + 1 /\ UNCHANGED <<journal, floor, boot, cursor>>
    /\ knows' = [knows EXCEPT !.greeted = FALSE]
    /\ LET frames == IF Resumes(scope, cursor) THEN <<[kind |-> "resumed", seq |-> cursor.seq]>> \o Replayed(scope, cursor.seq)
                     ELSE <<[kind |-> "ready", seq |-> seq]>>
                          \o (IF cursor = NoCursor THEN <<>> ELSE <<[kind |-> "reset", seq |-> seq]>>)
           n == Len(frames)
           fit == SubSeq(frames, 1, IF n > SubscriberSize THEN SubscriberSize ELSE n)
       IN  \/ /\ n > SubscriberSize /\ issuedScopes' = RememberAll(issuedScopes, fit, scope) /\ MarkOverflow(scope)
             /\ \/ UNCHANGED <<wire, sub>>
                \/ wire' = Append(fit, [kind |-> "reset", seq |-> seq]) /\ sub' = [NoSub EXCEPT !.state = "ended", !.scope = scope]
          \/ \E k \in 1 .. n, b \in BOOLEAN :
                /\ n <= SubscriberSize /\ (k < n => b)
                /\ issuedScopes' = RememberAll(issuedScopes, SubSeq(frames, 1, k), scope) /\ wire' = SubSeq(frames, 1, k)
                /\ sub' = [state |-> "on", scope |-> scope, blocked |-> b, queue |-> SubSeq(frames, k + 1, n)]
                /\ UNCHANGED <<resets, resetFloor>>

OtherSubscriber(scope) ==   \* another browser is greeted, gets the last event, or overflows
    /\ connections < MaxConnections /\ connections' = connections + 1 /\ UNCHANGED <<journal, floor, boot, sub, wire, cursor, knows>>
    /\ \/ issuedScopes' = RememberScope(issuedScopes, seq, scope) /\ UNCHANGED <<resets, resetFloor>>
       \/ MarkOverflow(scope) /\ UNCHANGED issuedScopes

Fetches(f) == f.kind \in {"ready", "reset"}
Meeting(scope, n) == {i \in 1 .. n : Intersects(scope, journal[i].path)}

\* The browser takes the next frame.
Receive ==
    /\ wire # <<>>
    /\ LET f == Head(wire) IN
       /\ wire' = Tail(wire) /\ cursor' = [boot |-> boot, seq |-> f.seq]
       /\ knows' = IF Fetches(f) THEN [boot |-> boot, scope |-> sub.scope, seqs |-> Meeting(sub.scope, seq), greeted |-> TRUE]
                   ELSE [knows EXCEPT !.greeted = TRUE, !.scope = IF @ = sub.scope THEN @ ELSE NoScope,
                                      !.seqs = IF f.kind = "event" THEN @ \cup {f.seq} ELSE @]
       /\ sub' = IF sub.state = "ended" /\ Len(wire) = 1 THEN NoSub ELSE sub
    /\ UNCHANGED <<journal, floor, issuedScopes, resets, resetFloor, boot, connections>>

Restart ==   \* close and a new boot: the journal is not kept
    /\ boot < MaxBoots /\ boot' = boot + 1 /\ journal' = <<>> /\ floor' = 0 /\ issuedScopes' = <<>> /\ resets' = <<>> /\ resetFloor' = 0
    /\ sub' = NoSub /\ wire' = <<>>
    /\ knows' = [knows EXCEPT !.greeted = FALSE] /\ UNCHANGED <<cursor, connections>>

EventsNext ==
    \/ \E path \in Folders : Publish(path, "event")
    \/ Publish(Root, "reset")
    \/ \E s \in Scopes : Attach(s) \/ OtherSubscriber(s)
    \/ DrainSubscriber \/ Stall \/ Disconnect \/ Receive
    \/ Restart

EventsSpec == EventsInit /\ [][EventsNext]_eventVars

-------------------------------------------------------------------------------
Informed(n) == knows.boot = boot /\ Meeting(sub.scope, n) \subseteq knows.seqs

\* A browser that keeps its scope is never left with a stale tree: every
\* event of the scope up to its last id has reached it or is covered by a
\* later fetch, whatever boot or connection the id came from, and once
\* nothing is outstanding it knows every event of the journal.
NoMissedChange ==
    sub.state = "on" /\ knows.greeted /\ knows.scope = sub.scope =>
        /\ Informed(cursor.seq)
        /\ wire = <<>> /\ sub.queue = <<>> => Informed(seq)
================================================================================
