----------------------------- MODULE ChunkStore -----------------------------
(***************************************************************************)
(* What the file system may expect of the cache it writes chunks to: one   *)
(* call at a time, on one chunk, and what the call reports is so.  Nothing *)
(* happens to a chunk by itself: what a caller cannot see of the drain,    *)
(* its retries, recovery and restarts makes no chunk appear or go.         *)
(*                                                                         *)
(* A chunk may be forsaken: then nothing is promised of it any more.  Only *)
(* a call on that chunk can do that, or a start that cannot read its file. *)
(***************************************************************************)

CONSTANTS
    Key,         \* chunk ids
    NoKey

VARIABLES
    blobs,       \* the chunks a Read would return
    doing,       \* the call under way, or how the last one ended ...
    chunk,       \* ... and its chunk
    forsaken     \* the chunks of which nothing is promised

storeVars == <<blobs, doing, chunk, forsaken>>

Busy == doing \in {"write", "delete"}

Init == blobs = {} /\ doing = "none" /\ chunk = NoKey /\ forsaken = {}

\* No chunk appears or goes, but those of S and the forsaken.
OnlyOf(S) == blobs \ (S \cup forsaken') = blobs' \ (S \cup forsaken')

\* A delete makes nothing appear.
Shrinks == blobs' \ forsaken' \subseteq blobs

\* No chunk is taken back from the forsaken, and those of S alone may join them.
Forsake(S) == forsaken \subseteq forsaken' /\ forsaken' \subseteq forsaken \cup S

Begin(d, c) ==
    /\ ~Busy
    /\ doing' = d /\ chunk' = c
    /\ OnlyOf({}) /\ Forsake({c})

\* A write may take away what it rewrites before it puts it back; a delete only takes away.
Work ==
    /\ Busy /\ UNCHANGED <<doing, chunk>>
    /\ OnlyOf({chunk}) /\ Forsake({chunk})
    /\ doing = "delete" => Shrinks

End(result) == Busy /\ doing' = result /\ chunk' = NoKey /\ UNCHANGED forsaken

Succeed ==
    /\ End("ok")
    /\ OnlyOf({chunk})
    /\ chunk \in forsaken \/ (chunk \in blobs' <=> doing = "write")

Fail ==
    /\ End("failed")
    /\ OnlyOf({chunk})
    /\ doing = "delete" => Shrinks

\* The process ends and is started again: nothing appears or goes.
Restart ==
    /\ doing' = "none" /\ chunk' = NoKey
    /\ OnlyOf({}) /\ Forsake({chunk})

\* A start comes upon a chunk it cannot read.
Skip(c) ==
    /\ doing = "none" /\ UNCHANGED <<doing, chunk>>
    /\ OnlyOf({}) /\ Forsake({c})

\* What goes on behind the callers' back.
Behind == UNCHANGED <<doing, chunk, forsaken>> /\ OnlyOf({})

Next ==
    \/ Behind \/ Work \/ Succeed \/ Fail \/ Restart
    \/ \E d \in {"write", "delete"}, c \in Key : Begin(d, c)
    \/ \E c \in Key : Skip(c)

Spec == Init /\ [][Next]_storeVars

=============================================================================
