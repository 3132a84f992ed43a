---------------------------- MODULE MCSpawnLedger ----------------------------
(* One placement that may spawn itself, so that chains and siblings both     *)
(* occur: three ids compete for the four turns of the root or for the one    *)
(* slot of a child, and a turn of each agent races the settlements of its    *)
(* children.  A request without a token limit is refused.                    *)
EXTENDS SpawnLedger, TLC

CONSTANTS root, k1, k2, k3, place, none

Symmetric == Permutations(Children)

GrantAll == [p \in {place} |-> Rights \cup {place}]

LedgerRootMax == [tokens |-> 3, turns |-> 4, sub_agents |-> 0]
LedgerPlacementMax == [p \in {place} |-> [tokens |-> 2, turns |-> 2, sub_agents |-> 0]]
LedgerRequests ==
    {[tokens |-> 0, turns |-> 1, sub_agents |-> 1], [tokens |-> 1, turns |-> 2, sub_agents |-> 1]}
=============================================================================
