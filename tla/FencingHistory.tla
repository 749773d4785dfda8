--------------------------- MODULE FencingHistory ---------------------------
(***************************************************************************)
(* ProvenanceStore with a history variable: the worker boots whose session *)
(* was ever ended by a fence, a WorkerFence notification or a newer boot   *)
(* of the same publisher.                                                  *)
(***************************************************************************)
EXTENDS ProvenanceStore

VARIABLE everFenced

Ended(ps) == {k \in Publishers \X Boots : ps[k] \in {"Down", "Fenced"}}

HInit == Init /\ everFenced = {}

HNext == Next /\ everFenced' = everFenced \cup Ended(publishers')

HSpec == HInit /\ [][HNext]_<<vars, everFenced>>

\* authority.hpp:99-100: "A fenced boot may never publish again: a restarted
\* publisher must present a fresh WorkerBootId."  A boot that was fenced once is
\* never a live session again, whatever registrations and reloads follow.
FencedBootNeverLive == \A k \in everFenced : publishers[k] # "Live"

=============================================================================
