------------------------------- MODULE MCStore -------------------------------
(* Values of the constants of ProvenanceStore for TLC. *)
EXTENDS StoreClaims, TLC

\* Bounds that no behaviour of the run reaches.
RoomyLimits == [nodes |-> 8, edges |-> 12, parents |-> 8, children |-> 8,
                history |-> 8, attempts |-> 8, publishers |-> 8, depth |-> 4,
                results |-> 8]

\* Two parents and two children per record: a third edge is refused.
TightDegrees == [RoomyLimits EXCEPT !.parents = 2, !.children = 2]

\* Two history records fill the lineage; compaction makes room.  A traversal
\* reports at most three records, fewer than an explanation may have.
SmallHistory ==
    [RoomyLimits EXCEPT !.history = 2, !.depth = 3, !.results = 3]

NoBindings == {NoBinding}

\* A record bound by path, policy, plan and fabric epoch, and one bound by an
\* adaptation whose evidence may be ahead of the announced generation.
UpstreamBindings ==
    {[NoBinding EXCEPT !.path = 1, !.policy = 1, !.plan = 1, !.fabric = 1],
     [NoBinding EXCEPT !.adPolicy = 1, !.adEvidence = 2]}

\* Identities are opaque: every property treats them alike.
Sym == Permutations(NodeId) \cup Permutations(Attempts)
SessionSym == Sym \cup Permutations(Boots)

LifecycleOps == {"publish", "withdraw", "revoke", "retire", "revalidate",
                 "invalidate", "correct", "epoch", "refuse", "share"}

SessionOps == {"publish", "revalidate", "fence", "worker_fence", "epoch",
               "announce", "restart", "refuse"}

GraphOps == {"publish", "declare", "link", "correct", "invalidate"}

RetentionOps == {"publish", "declare", "invalidate", "correct", "compact",
                 "restart"}
=============================================================================
