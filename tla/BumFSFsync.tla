----------------------------- MODULE BumFSFsync -----------------------------
(***************************************************************************)
(* BumFS with a memory of what each file was last given, to hold a flush   *)
(* against.  Failures and crashes are for BumFS itself: here every call    *)
(* works.                                                                  *)
(***************************************************************************)
EXTENDS BumFS

CONSTANT Unknown    \* no flush has given the file its content yet

VARIABLES
    unsynced,    \* the handles written through since their last flush
    latest       \* what the last flush of news gave the file

fvars == <<vars, unsynced, latest>>

FInit == Init /\ unsynced = {} /\ latest = [i \in Ino |-> Unknown]

\* The handle f is given news: written, resized, or opened with O_TRUNC.
News(f) ==
    \/ Write(f) \/ TruncateHandle(f)
    \/ \E i \in Ino : Open(i, f) /\ handles'[f].dirty

\* A flush of f makes what f was told the file's content.  One of a handle that
\* was told nothing since its last flush has nothing to give.
Syncs(f) ==
    /\ Flush(f) \/ Release(f)
    /\ unsynced' = unsynced \ {f}
    /\ latest' = IF f \in unsynced
                   THEN [latest EXCEPT ![handles[f].ino] = handles[f].buf]
                   ELSE latest

FNext ==
    \/ \E f \in Fh : News(f) /\ unsynced' = unsynced \cup {f} /\ UNCHANGED latest
    \/ \E f \in Fh : Syncs(f)
    \/ \E i \in Ino : /\ \/ TruncateToZero(i) \/ TruncatePath(i)
                         \/ Mknod(i) \/ \E f \in Fh : Create(i, f)
                      /\ latest' = [latest EXCEPT ![i] = Unknown]
                      /\ UNCHANGED unsynced
    \/ \E i \in Ino, f \in Fh :
          Open(i, f) /\ ~handles'[f].dirty /\ UNCHANGED <<unsynced, latest>>
    \/ \E i \in Ino : (Unlink(i) \/ RenameOver(i)) /\ UNCHANGED <<unsynced, latest>>
    \/ Steps /\ UNCHANGED <<unsynced, latest>>

FSpec == FInit /\ [][FNext]_fvars

-----------------------------------------------------------------------------

\* "Fsync persists file data." (bumfs.go:632): between handlers a file maps what the
\* last flush that had news gave it, unless it was truncated since.
FsyncPersists ==
    Undisturbed => \A i \in nodes :
        latest[i] # Unknown => ReadFile(fileChunks[i]) = latest[i]

=============================================================================
