---------------------------- MODULE TurnContract ----------------------------
(***************************************************************************)
(* What the session broker promises about turns, without saying how: the   *)
(* abstract specification that BrokerTurns implements.                     *)
(***************************************************************************)
EXTENDS Naturals, FiniteSets

CONSTANTS Convs, Prompts, NoSub, None, ConvOf, SubOf, MaxRunning

VARIABLES
    open,   \* open[c]: the prompt whose turn is open in conversation c, or None
    begun   \* prompts whose turn has begun

vars == <<open, begun>>

Init == open = [c \in Convs |-> None] /\ begun = {}

\* Same submission of the same conversation (API-07).
SameSubmission(p, q) ==
    /\ ConvOf[p] = ConvOf[q]
    /\ SubOf[p] = SubOf[q]
    /\ SubOf[p] # NoSub

OpenTurns == {c \in Convs : open[c] # None}

\* A turn opens: its conversation is idle, there is capacity, and neither the
\* request nor its submission has had a turn before.
Begin(p) ==
    /\ open[ConvOf[p]] = None
    /\ p \notin begun
    /\ \A q \in begun : ~SameSubmission(p, q)
    /\ Cardinality(OpenTurns) < MaxRunning
    /\ open' = [open EXCEPT ![ConvOf[p]] = p]
    /\ begun' = begun \cup {p}

End(p) ==
    /\ open[ConvOf[p]] = p
    /\ open' = [open EXCEPT ![ConvOf[p]] = None]
    /\ UNCHANGED begun

Next == \E p \in Prompts : Begin(p) \/ End(p)

Spec == Init /\ [][Next]_vars
=============================================================================
