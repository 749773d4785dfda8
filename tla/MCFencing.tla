------------------------------ MODULE MCFencing ------------------------------
(* Values of the constants of FencingHistory for TLC. *)
EXTENDS FencingHistory, TLC

FencingLimits == [nodes |-> 8, edges |-> 12, parents |-> 8, children |-> 8,
                  history |-> 8, attempts |-> 8, publishers |-> 3,
                  depth |-> 4, results |-> 8]

NoBindings == {NoBinding}

Sym == Permutations(NodeId) \cup Permutations(Attempts)
       \cup Permutations(Boots)
=============================================================================
