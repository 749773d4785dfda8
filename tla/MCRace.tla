------------------------------- MODULE MCRace -------------------------------
(* Values of the constants of CommitRace for TLC. *)
EXTENDS CommitRace, TLC

CONSTANTS b1, b2

Call(op, boot, gen, path, expect, victim) ==
    [op |-> op, boot |-> boot, gen |-> gen, path |-> path,
     expect |-> expect, victim |-> victim]

\* With a binding that an announcement overtakes.
Publications == {Call("publish", b1, 2, 1, 0, b1)}

Retirement == {Call("retire", b2, 1, 0, 0, b1)}

Fences == {Call("fence", b2, 1, 0, 0, b1)}

Advances == {Call("announce", b2, 1, 2, 0, b1),
             Call("advance_epoch", b2, 1, 0, 0, b1)}

\* By the other boot, of a later generation and without a binding.
TwoPhase == {Call("session", b2, 3, 0, 0, b1)}

\* Takes the index entry of generation 2, so that it can be published again.
Elsewheres == {Call("elsewhere", b2, 2, 0, 0, b1)}

AllCalls == Publications \cup Retirement \cup Fences \cup Advances
            \cup TwoPhase \cup Elsewheres

FenceCalls == Publications \cup Fences
=============================================================================
