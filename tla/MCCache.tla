------------------------------ MODULE MCCache -------------------------------
(* Cache with two chunks that do not fit together in the cache. *)
EXTENDS Cache, TLC

CONSTANTS c1, c2

MCChunk == {c1, c2}
MCSize == c1 :> 1 @@ c2 :> 2

\* Bound for the safety run: the invariants say nothing once every chunk was exposed, and no
\* exposure is taken back.
SomeUnexposed == exposed # Chunk

\* Bound for the liveness run: no call for a chunk that was exposed begins.  Nothing is
\* claimed of such a chunk, and its file stays for recovery to meet.
LiveNext == Next /\ (AtClient("idle") => client'.id \notin exposed)

\* Nobody has to call: the bound takes no step from those that are fair.
LiveSpec == Init /\ [][LiveNext]_vars /\ Fairness

=============================================================================
