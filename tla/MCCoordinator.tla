---------------------------- MODULE MCCoordinator ----------------------------
(* Values of the constants of Coordinator for TLC. *)
EXTENDS Coordinator, TLC

CONSTANTS c1, c2, p0, p1, b0, b1, b2

Self == <<p0, b0>>

\* The coordinator and two boots of one worker.
TwoBoots == {Self, <<p1, b1>>, <<p1, b2>>}

Hello(bs, es) ==
    {[msg |-> "Hello", arg |-> [who |-> <<p1, b>>, epoch |-> e],
      stalls |-> FALSE] : b \in bs, e \in es}

Plain(m) == [msg |-> m, arg |-> NoId, stalls |-> FALSE]

\* A worker registers and makes one request of any kind; a second one starts
\* under the same boot, or under a fresh one of the next epoch.
Workers ==
    c1 :> <<Hello({b1}, {1}),
            {Plain(m) : m \in {"Publish", "Query", "Ping", "Bye", "Damaged"}}
              \cup {[Plain("Publish") EXCEPT !.stalls = TRUE],
                    [Plain("Epoch") EXCEPT !.arg.epoch = 2],
                    [Plain("Fence") EXCEPT !.arg.who = Self]}>>
    @@ c2 :> <<Hello({b1}, {1}) \cup Hello({b2}, {2})>>

\* A worker that only registers.
OneHello == c1 :> <<Hello({b1}, {1})>>
=============================================================================
