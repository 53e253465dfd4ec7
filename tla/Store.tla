-------------------------------- MODULE Store --------------------------------
(***************************************************************************)
(* Where chunks are kept: the router of internal/store/multi/multi.go over *)
(* the backends of internal/store/{github,wandb,telegram,local}, each with *)
(* the capacity caplimit.go gives it, and their persisted indexes (Index). *)
(*                                                                         *)
(* Two goroutines call it: the cache's drain, and a handler of the file    *)
(* system.  A chunk id names one content, so a copy is its chunk and its   *)
(* asset id; a file of the local backend has id 0, and none while it is    *)
(* cut short.  Backends have distinct names, so one is its name.           *)
(***************************************************************************)
EXTENDS Index

CONSTANTS
    Backend, Router, NoBackend, NoKey,
    Kind,        \* the type of each backend
    Limit,       \* max_capacity of each, in chunks
    Does,        \* the calls each caller makes
    MaxWrites,   \* bound: writes begun
    MaxFaults    \* bound: requests and file operations that fail, and crashes

VARIABLES
    copies,      \* what each backend holds
    doing,       \* the call of each caller, or how its last one ended ...
    chunk,       \* ... its chunk ...
    pc,          \* ... what it does next ...
    to,          \* ... with which backend ...
    old,         \* ... the reference it found there ...
    id,          \* ... and the asset id its upload gets
    mounted,     \* the process is up; it refuses to start on a garbled index
    writes,
    contested,   \* callers whose call met another on its chunk
    disturbed,   \* chunks that may have copies the router does not lead to, see OneCopy
    damaged,     \* a restart came while an index was suspect
    faults

callVars == <<doing, chunk, pc, to, old, id>>
ghostVars == <<contested, disturbed, damaged>>
vars == <<indexVars, copies, callVars, mounted, writes, ghostVars, faults>>

Kinds == {"github", "wandb", "telegram", "local"}
Local(b) == Kind[b] = "local"

ASSUME StoreAssumption ==
    /\ Kind \in [Backend -> Kinds] /\ Limit \in [Backend -> Nat]
    /\ Router \notin Backend /\ NoBackend \notin Backend /\ NoKey \notin Key
    /\ Ix = {Router} \cup {b \in Backend : ~Local(b)}
    /\ Ref = Backend \cup 1..MaxWrites
    /\ Does \in [Caller -> SUBSET {"write", "delete"}]
    /\ MaxWrites \in Nat /\ MaxFaults \in Nat

Busy(p) == doing[p] \in {"write", "delete"}

\* Read: the router's entry, then the backend's, then the asset.
Holds(b, c) ==
    IF Local(b) THEN <<c, 0>> \in copies[b]
    ELSE data[b][c] # NoRef /\ <<c, data[b][c]>> \in copies[b]

Readable(c) == mounted /\ data[Router][c] # NoRef /\ Holds(data[Router][c], c)

Init ==
    /\ IndexInit
    /\ copies = [b \in Backend |-> {}]
    /\ doing = [p \in Caller |-> "none"]
    /\ chunk = [p \in Caller |-> NoKey]
    /\ pc = [p \in Caller |-> "idle"]
    /\ to = [p \in Caller |-> NoBackend]
    /\ old = [p \in Caller |-> NoRef]
    /\ id = [p \in Caller |-> 0]
    /\ mounted = TRUE /\ writes = 0
    /\ contested = {} /\ disturbed = {} /\ damaged = FALSE
    /\ faults = 0

-----------------------------------------------------------------------------
Works == UNCHANGED faults
Fails == faults < MaxFaults /\ faults' = faults + 1

Goto(p, s) == pc' = [pc EXCEPT ![p] = s]

Stay == UNCHANGED <<doing, chunk, to, old, id, contested>>

Return(p, result) ==
    /\ doing' = [doing EXCEPT ![p] = result]
    /\ chunk' = [chunk EXCEPT ![p] = NoKey]
    /\ pc' = [pc EXCEPT ![p] = "idle"]
    /\ to' = [to EXCEPT ![p] = NoBackend]
    /\ old' = [old EXCEPT ![p] = NoRef]
    /\ id' = [id EXCEPT ![p] = 0]
    /\ contested' = contested \ {p}

Disturb(S) == disturbed' = disturbed \cup S

Succeed(p) == Return(p, "ok") /\ UNCHANGED disturbed
Fail(p) == Return(p, "failed") /\ Disturb({chunk[p]})

AddCopy(b, copy) == copies' = [copies EXCEPT ![b] = @ \cup {copy}]
DropCopy(b, copy) == copies' = [copies EXCEPT ![b] = @ \ {copy}]

\* The step leaves these alone.
Apart == UNCHANGED <<mounted, writes, damaged>>

-----------------------------------------------------------------------------
Begin(p, d, c) ==
    /\ mounted /\ ~Busy(p) /\ d \in Does[p]
    /\ d = "write" => writes < MaxWrites
    /\ writes' = IF d = "write" THEN writes + 1 ELSE writes
    /\ id' = [id EXCEPT ![p] = IF d = "write" THEN writes + 1 ELSE 0]
    /\ doing' = [doing EXCEPT ![p] = d]
    /\ chunk' = [chunk EXCEPT ![p] = c]
    /\ Goto(p, IF d = "write" THEN "pick" ELSE "lookup")
    /\ LET others == {q \in Caller : Busy(q) /\ chunk[q] = c}
       IN  IF others = {} THEN UNCHANGED <<contested, disturbed>>
           ELSE contested' = contested \cup others \cup {p} /\ Disturb({c})
    /\ UNCHANGED <<indexVars, copies, to, old, mounted, damaged, faults>>

\* pickBackend.  An indexed backend reports its limit less a megabyte for each entry,
\* the local one what its disk says; the order of equals is that of a Go map.
Free(b) == IF Len(data[b]) < Limit[b] THEN Limit[b] - Len(data[b]) ELSE 0
Roomiest == {b \in Backend : Local(b) \/ \A a \in Backend : Local(a) \/ Free(a) <= Free(b)}

\* Only github and the local disk replace the copy they have.
Replaces(b) == Kind[b] \in {"github", "local"}

Pick(p) ==
    /\ pc[p] = "pick"
    /\ \E b \in Roomiest :
          /\ to' = [to EXCEPT ![p] = b]
          /\ old' = [old EXCEPT ![p] = IF Kind[b] = "github" THEN data[b][chunk[p]] ELSE NoRef]
          /\ Goto(p, IF Local(b) THEN "truncate" ELSE IF old'[p] # NoRef THEN "deleteOld" ELSE "upload")
          /\ IF data[Router][chunk[p]] = NoRef \/ (data[Router][chunk[p]] = b /\ Replaces(b))
             THEN UNCHANGED disturbed ELSE Disturb({chunk[p]})
    /\ UNCHANGED <<indexVars, copies, doing, chunk, id, contested, faults>> /\ Apart

\* github Write, once its release is there: an overwrite deletes the old asset, whatever
\* comes of it.
DeleteOld(p) ==
    /\ pc[p] = "deleteOld"
    /\ \/ /\ Works /\ DropCopy(to[p], <<chunk[p], old[p]>>)
          /\ Goto(p, "upload") /\ Stay /\ UNCHANGED disturbed
       \/ Fails /\ UNCHANGED <<copies, disturbed>> /\ Goto(p, "upload") /\ Stay
       \/ Fails /\ UNCHANGED copies /\ Fail(p)
    /\ UNCHANGED indexVars /\ Apart

\* The upload, with the requests before it that prepare a run, an artifact or, where nothing
\* is replaced, a release.  Github refuses a second asset of a name.  A failure may leave
\* the asset behind.
Refused(b, c) == Kind[b] = "github" /\ \E copy \in copies[b] : copy[1] = c

\* Mutant of Upload: the status of the answer is not looked at.
UploadUnchecked(p) ==
    /\ pc[p] = "upload"
    /\ IF Refused(to[p], chunk[p]) THEN UNCHANGED copies
       ELSE AddCopy(to[p], <<chunk[p], id[p]>>) \/ UNCHANGED copies
    /\ Works /\ Goto(p, "setRef") /\ Stay /\ UNCHANGED disturbed
    /\ UNCHANGED indexVars /\ Apart

Upload(p) ==
    /\ pc[p] = "upload"
    /\ \/ /\ ~Refused(to[p], chunk[p]) /\ Works
          /\ AddCopy(to[p], <<chunk[p], id[p]>>)
          /\ Goto(p, "setRef") /\ Stay /\ UNCHANGED disturbed
       \/ /\ ~Refused(to[p], chunk[p]) /\ Fails
          /\ AddCopy(to[p], <<chunk[p], id[p]>>) \/ UNCHANGED copies
          /\ Fail(p)
       \/ Refused(to[p], chunk[p]) /\ Works /\ UNCHANGED copies /\ Fail(p)
    /\ UNCHANGED indexVars /\ Apart

\* local Write: os.WriteFile.
Truncate(p) ==
    /\ pc[p] = "truncate"
    /\ \/ Works /\ DropCopy(to[p], <<chunk[p], 0>>) /\ Goto(p, "fill") /\ Stay /\ UNCHANGED disturbed
       \/ Fails /\ UNCHANGED copies /\ Fail(p)
    /\ UNCHANGED indexVars /\ Apart

FillCopy(p) ==
    /\ pc[p] = "fill"
    /\ \/ Works /\ AddCopy(to[p], <<chunk[p], 0>>) /\ Goto(p, "setRouter") /\ Stay /\ UNCHANGED disturbed
       \/ Fails /\ UNCHANGED copies /\ Fail(p)
    /\ UNCHANGED indexVars /\ Apart

\* Delete: what the router does not know is deleted.
Lookup(p) ==
    /\ pc[p] = "lookup"
    /\ LET b == data[Router][chunk[p]]
       IN  IF b = NoRef THEN Succeed(p)
           ELSE /\ to' = [to EXCEPT ![p] = b]
                /\ old' = [old EXCEPT ![p] = IF Local(b) THEN NoRef ELSE data[b][chunk[p]]]
                /\ Goto(p, "remove")
                /\ UNCHANGED <<doing, chunk, id, contested, disturbed>>
    /\ UNCHANGED <<indexVars, copies, faults>> /\ Apart

\* Github and W&B delete the asset the index names, and fail where it is gone.
RemoveAsset(p) ==
    /\ pc[p] = "remove" /\ Kind[to[p]] \in {"github", "wandb"} /\ old[p] # NoRef
    /\ LET copy == <<chunk[p], old[p]>>
       IN  \/ /\ copy \in copies[to[p]] /\ Works /\ DropCopy(to[p], copy)
              /\ Goto(p, "setRef") /\ Stay /\ UNCHANGED disturbed
           \/ /\ copy \in copies[to[p]] /\ Fails
              /\ DropCopy(to[p], copy) \/ UNCHANGED copies
              /\ Fail(p)
           \/ copy \notin copies[to[p]] /\ Works /\ UNCHANGED copies /\ Fail(p)
    /\ UNCHANGED indexVars /\ Apart

\* Telegram forgets the message and leaves it; so does what is not indexed, where W&B
\* does not even save.
RemoveEntry(p) ==
    /\ pc[p] = "remove" /\ ~Local(to[p])
    /\ Kind[to[p]] = "telegram" \/ old[p] = NoRef
    /\ Goto(p, IF Kind[to[p]] = "wandb" THEN "setRouter" ELSE "setRef") /\ Stay
    /\ IF Kind[to[p]] = "telegram" THEN Disturb({chunk[p]}) ELSE UNCHANGED disturbed
    /\ UNCHANGED <<indexVars, copies, faults>> /\ Apart

RemoveFile(p) ==
    /\ pc[p] = "remove" /\ Local(to[p])
    /\ \/ Works /\ DropCopy(to[p], <<chunk[p], 0>>) /\ Goto(p, "setRouter") /\ Stay /\ UNCHANGED disturbed
       \/ Fails /\ UNCHANGED copies /\ Fail(p)
    /\ UNCHANGED indexVars /\ Apart

-----------------------------------------------------------------------------
\* The backend's entry, its Save, the router's entry and its Save: a write sets
\* them, a delete clears them.

SetRef(p) ==
    /\ pc[p] = "setRef"
    /\ Put(p, to[p], chunk[p], IF doing[p] = "write" THEN id[p] ELSE NoRef)
    /\ Goto(p, "saveRef") /\ Stay
    /\ UNCHANGED <<copies, disturbed, faults>> /\ Apart

\* Mutant of SetRouter: a delete keeps the router's entry.
SetRouterAlways(p) ==
    /\ pc[p] = "setRouter"
    /\ Put(p, Router, chunk[p], to[p])
    /\ Goto(p, "saveRouter") /\ Stay
    /\ UNCHANGED <<copies, disturbed, faults>> /\ Apart

SetRouter(p) ==
    /\ pc[p] = "setRouter"
    /\ Put(p, Router, chunk[p], IF doing[p] = "write" THEN to[p] ELSE NoRef)
    /\ Goto(p, "saveRouter") /\ Stay
    /\ UNCHANGED <<copies, disturbed, faults>> /\ Apart

Save(p) ==
    /\ Marshal(p) \/ OpenFile(p)
    /\ UNCHANGED <<copies, callVars, contested, disturbed, faults>> /\ Apart

Saved(p) ==
    /\ Fill(p)
    /\ IF pc[p] = "saveRef" THEN Goto(p, "setRouter") /\ Stay /\ UNCHANGED disturbed
       ELSE Succeed(p)
    /\ UNCHANGED <<copies, faults>> /\ Apart

NotSaved(p) ==
    /\ SaveFails(p) /\ Fails /\ Fail(p)
    /\ UNCHANGED copies /\ Apart

-----------------------------------------------------------------------------
\* The process dies and is started again.  NewIndex refuses a file it cannot parse,
\* and the mount with it.
Crash ==
    /\ mounted /\ Fails
    /\ Reload
    /\ mounted' = Loadable
    /\ damaged' = (damaged \/ suspect # {})
    /\ Disturb({chunk[p] : p \in {q \in Caller : Busy(q)}})
    /\ doing' = [p \in Caller |-> "none"]
    /\ chunk' = [p \in Caller |-> NoKey]
    /\ pc' = [p \in Caller |-> "idle"]
    /\ to' = [p \in Caller |-> NoBackend]
    /\ old' = [p \in Caller |-> NoRef]
    /\ id' = [p \in Caller |-> 0]
    /\ contested' = {}
    /\ UNCHANGED <<copies, writes>>

Step(p) ==
    \/ Pick(p) \/ DeleteOld(p) \/ Upload(p) \/ Truncate(p) \/ FillCopy(p)
    \/ Lookup(p) \/ RemoveAsset(p) \/ RemoveEntry(p) \/ RemoveFile(p)
    \/ SetRef(p) \/ SetRouter(p) \/ Save(p) \/ Saved(p) \/ NotSaved(p)

Next ==
    \/ Crash
    \/ \E p \in Caller : Step(p) \/ \E d \in Does[p], c \in Key : Begin(p, d, c)

Spec == Init /\ [][Next]_vars

-----------------------------------------------------------------------------

TypeOK ==
    /\ IndexTypeOK
    /\ copies \in [Backend -> SUBSET (Key \X (0..MaxWrites))]
    /\ doing \in [Caller -> {"none", "write", "delete", "ok", "failed"}]
    /\ chunk \in [Caller -> Key \cup {NoKey}]
    /\ pc \in [Caller -> {"idle", "pick", "deleteOld", "upload", "truncate", "fill", "lookup",
                          "remove", "setRef", "saveRef", "setRouter", "saveRouter"}]
    /\ to \in [Caller -> Backend \cup {NoBackend}]
    /\ old \in [Caller -> Ref \cup {NoRef}]
    /\ id \in [Caller -> 0..MaxWrites]
    /\ mounted \in BOOLEAN /\ damaged \in BOOLEAN
    /\ writes \in 0..MaxWrites /\ faults \in 0..MaxFaults
    /\ contested \subseteq Caller /\ disturbed \subseteq Key
    /\ \A p \in Caller : Busy(p) <=> chunk[p] # NoKey

Copies(c) ==
    {at \in Backend \X (Key \X (0..MaxWrites)) : at[2] \in copies[at[1]] /\ at[2][1] = c}

Found(c) ==
    LET b == data[Router][c]
    IN  IF b = NoRef THEN {} ELSE {<<b, <<c, IF Local(b) THEN 0 ELSE data[b][c]>>>>}

\* With no call on it, a chunk has the one copy that the router and the backend's index
\* lead to, or none and no entry: nothing is stored that no index knows, and no entry
\* outlives what it names.  Excepted are the chunks whose call failed, met another on
\* that chunk or was cut off, those rewritten on another backend or on one that keeps
\* what it had (multi.go:40), and those telegram has forgotten (telegram.go:126).
OneCopy ==
    \A c \in Key \ disturbed :
        ~damaged /\ (\A p \in Caller : chunk[p] # c) => Copies(c) = Found(c)

\* The router over its backends is the BlobStore that the cache and the file system
\* take it for, damaged only by a restart that comes while a Save is under way or after
\* one that failed or overlapped another.
Blobs == INSTANCE BlobStore WITH blobs <- {c \in Key : Readable(c)}

ImplementsBlobStore == Blobs!Spec

=============================================================================
