------------------------------ MODULE MCStores ------------------------------
(***************************************************************************)
(* Stores for TLC.  Nodes are numbers; up to MaxKey they are their own     *)
(* key, the others share a key in the middle.                              *)
(***************************************************************************)
EXTENDS Stores

CONSTANTS MaxKey, MaxNode

MCNodes == 1..MaxNode
MCKey == [n \in MCNodes |-> IF n <= MaxKey THEN n ELSE MaxKey \div 2]

\* Keys below and above all, the ends, the shared one and its neighbour
MCSearchKeys == {0, 1, MaxKey \div 2, MaxKey \div 2 + 1, MaxKey, MaxKey + 1}

\* Two nodes of the shared key and one on either side
MCSmall == {MaxKey \div 2, MaxKey \div 2 + 1, MaxKey \div 2 - 1, MaxNode}
=============================================================================
