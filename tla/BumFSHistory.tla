---------------------------- MODULE BumFSHistory ----------------------------
(***************************************************************************)
(* BumFS with a memory of what it did, to tell which loss and which leak   *)
(* of a chunk the code's reference counting explains.                      *)
(***************************************************************************)
EXTENDS BumFS

VARIABLES
    shared,      \* the chunks that two files have mapped at the same time
    discarded    \* the chunks of removed files, and those put for one

hvars == <<vars, shared, discarded>>

HInit == Init /\ shared = {} /\ discarded = {}

\* Chunks mapped by two files.
InTwoFiles == {c \in ChunkID : \E i, j \in Ino : /\ i # j
                                                 /\ c \in Elems(fileChunks[i])
                                                 /\ c \in Elems(fileChunks[j])}

Discards ==
    IF op.pc = "rmChunks" THEN Elems(fileChunks[op.ino])
    ELSE IF op.pc = "put" /\ op.ino \notin nodes THEN {Head(op.todo)} ELSE {}

HNext == Next /\ shared' = shared \cup InTwoFiles' /\ discarded' = discarded \cup Discards

HSpec == HInit /\ [][HNext]_hvars

-----------------------------------------------------------------------------

\* With no failure and no crash, sharing is the only way to lose data: a file has
\* an unreadable chunk only if that chunk was once in another file as well, whose
\* rewrite or truncation deleted it (bumfs.go:652-657, 428).
LossOnlyBySharing ==
    Undisturbed => \A i \in nodes : Elems(fileChunks[i]) \subseteq backend \cup shared

\* With no failure and no crash, removal is the only way to leak: a chunk the
\* backend keeps for no file was one of a removed file, or was put by the flush of
\* a handle whose file was gone.
LeakOnlyByRemoval ==
    Undisturbed => \A c \in backend : Mapped(c) \/ c \in discarded

=============================================================================
