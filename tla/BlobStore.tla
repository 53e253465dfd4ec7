------------------------------ MODULE BlobStore ------------------------------
(***************************************************************************)
(* What the file system and its cache may expect of the backend they write *)
(* chunks to.  Calls overlap.  A call touches its own chunk only.  After a *)
(* write that returned nil the chunk can be read, after such a delete it   *)
(* cannot, unless another call on that chunk overlapped.  A crash changes  *)
(* only the chunks of calls under way, unless it did damage, after which   *)
(* nothing is promised.                                                    *)
(***************************************************************************)

CONSTANTS
    Key,         \* chunk ids
    NoKey,
    Caller

VARIABLES
    blobs,       \* the chunks a Read would return
    doing,       \* each caller's call, or how its last one ended ...
    chunk,       \* ... and its chunk
    contested,   \* callers whose call met another on its chunk
    damaged      \* a restart came back without what was stored

blobVars == <<blobs, doing, chunk, contested, damaged>>

Busy(p) == doing[p] \in {"write", "delete"}

Init ==
    /\ blobs = {}
    /\ doing = [p \in Caller |-> "none"]
    /\ chunk = [p \in Caller |-> NoKey]
    /\ contested = {}
    /\ damaged = FALSE

Begin(p, d, c) ==
    /\ ~Busy(p)
    /\ doing' = [doing EXCEPT ![p] = d]
    /\ chunk' = [chunk EXCEPT ![p] = c]
    /\ LET others == {q \in Caller : Busy(q) /\ chunk[q] = c}
       IN  contested' = IF others = {} THEN contested ELSE contested \cup others \cup {p}
    /\ UNCHANGED <<blobs, damaged>>

\* No chunk but the call's own appears or goes.
OnlyOf(p) == \A c \in Key : (c \in blobs') # (c \in blobs) => c = chunk[p]

\* A write may take away what it rewrites before it puts it back; a delete only takes away.
Change(p) ==
    /\ Busy(p) /\ OnlyOf(p)
    /\ doing[p] = "delete" => blobs' \subseteq blobs
    /\ UNCHANGED <<doing, chunk, contested, damaged>>

End(p, result) ==
    /\ doing' = [doing EXCEPT ![p] = result]
    /\ chunk' = [chunk EXCEPT ![p] = NoKey]
    /\ contested' = contested \ {p}
    /\ UNCHANGED damaged

Succeed(p) ==
    /\ Busy(p)
    /\ p \notin contested => (chunk[p] \in blobs <=> doing[p] = "write")
    /\ UNCHANGED blobs
    /\ End(p, "ok")

Fail(p) ==
    /\ Busy(p) /\ OnlyOf(p)
    /\ doing[p] = "delete" => blobs' \subseteq blobs
    /\ End(p, "failed")

Crash ==
    /\ doing' = [p \in Caller |-> "none"]
    /\ chunk' = [p \in Caller |-> NoKey]
    /\ contested' = {}
    /\ damaged => damaged'
    /\ \/ damaged'
       \/ \A c \in Key : (c \in blobs') # (c \in blobs) => \E p \in Caller : Busy(p) /\ chunk[p] = c

Next ==
    \/ damaged /\ damaged'
    \/ Crash
    \/ \E p \in Caller :
          \/ Change(p) \/ Succeed(p) \/ Fail(p)
          \/ \E d \in {"write", "delete"}, c \in Key : Begin(p, d, c)

Spec == Init /\ [][Next]_blobVars

=============================================================================
