--------------------------- MODULE MCBrokerTurns ---------------------------
(***************************************************************************)
(* A small instance of BrokerTurns: two conversations and one slot, so     *)
(* that both the busy and the capacity refusal happen; one submission sent *)
(* twice, another submission and a prompt without an id.                   *)
(***************************************************************************)
EXTENDS BrokerTurns

CONSTANTS c1, c2, p1, p2, p3, p4, s1, s2

MCConvOf == [p \in Prompts |-> IF p = p4 THEN c2 ELSE c1]
MCSubOf == [p \in Prompts |->
              CASE p = p3 -> s2 [] p = p4 -> NoSub [] OTHER -> s1]
=============================================================================
