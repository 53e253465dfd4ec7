------------------------------- MODULE Cache --------------------------------
(***************************************************************************)
(* The write-behind cache of internal/store/cache/cache.go: chunks are     *)
(* written to a local directory, then drained by one goroutine to the      *)
(* inner backend.                                                          *)
(*                                                                         *)
(* The caller is the file system, which holds fs.mu over its writes and    *)
(* deletes: one call at a time, interleaved with the drain.  Reads share   *)
(* the lock and change nothing, so one reader stands for all.  Callers     *)
(* pass context.Background(), so no wait is ever cancelled.                *)
(*                                                                         *)
(* An id names one content: its file, or its blob, is whole, or cut short. *)
(***************************************************************************)
EXTENDS Integers, Sequences, FiniteSets

CONSTANTS
    Chunk,       \* chunk ids
    NoChunk,     \* no chunk id
    Size,        \* the bytes of each chunk
    MaxBytes,    \* cache_size
    QueueCap,    \* the capacity of drainCh, 256 in the code
    MaxDebt,     \* bound: no further delete once usedBytes is below -MaxDebt
    MaxFaults,   \* bound: file and backend calls that fail
    MaxCrashes   \* bound: crashes

\* A chunk fits in the cache: Write waits forever for one that does not.
ASSUME CacheAssumption ==
    /\ IsFiniteSet(Chunk) /\ NoChunk \notin Chunk
    /\ MaxBytes \in Nat /\ Size \in [Chunk -> 1..MaxBytes]
    /\ QueueCap \in Nat \ {0}
    /\ MaxDebt \in Nat /\ MaxFaults \in Nat /\ MaxCrashes \in Nat

VARIABLES
    files,       \* the cache directory
    inner,       \* the inner backend
    used,        \* usedBytes
    queue,       \* drainCh
    drain,       \* drainLoop and the drainOne it is in
    client,      \* the call under way
    phase,       \* New's recovery, serving, Close, or no process
    left,        \* the directory entries recovery has not come to
    rec,         \* the chunk recovery is about to enqueue
    accepted,    \* the chunks whose Write returned nil and no Delete followed
    result,      \* what the last Write or Delete returned
    exposed,     \* the chunks that saw a hazard, see Expose
    faults,
    crashes

vars == <<files, inner, used, queue, drain, client, phase, left, rec, accepted,
          result, exposed, faults, crashes>>

Content == {"none", "short", "whole"}
Item == [id : Chunk, data : Content \ {"none"}]

\* What drainLoop is at, and the item and local variables of its drainOne.
Drain ==
    [pc      : {"idle", "write", "stat", "remove", "used", "broadcast"},
     id      : Chunk \cup {NoChunk},
     data    : Content,
     attempt : 0..2,
     size    : 0..MaxBytes]

\* What the caller is at: in Write, in Delete, in Read, or in none.
Call ==
    [pc   : {"idle", "reserve", "asleep", "create", "fill", "unreserve", "send",
             "delFile", "delUsed", "delInner", "readInner"},
     id   : Chunk \cup {NoChunk},
     size : 0..MaxBytes]

NoDrain == [pc |-> "idle", id |-> NoChunk, data |-> "none", attempt |-> 0, size |-> 0]
NoCall == [pc |-> "idle", id |-> NoChunk, size |-> 0]

\* The size os.Stat may return for a cached file: a short one holds some of the bytes, a
\* missing one counts for nothing.
FileSize(c) ==
    CASE files[c] = "whole" -> {Size[c]}
      [] files[c] = "short" -> 0..Size[c] - 1
      [] files[c] = "none"  -> {0}

\* The chunk is in the queue, or the drain has yet to store it or to remove its file.
Pending(c) ==
    \/ drain.id = c /\ drain.pc \in {"write", "stat", "remove"}
    \/ \E k \in DOMAIN queue : queue[k].id = c

Cached == {c \in Chunk : files[c] # "none"}

Init ==
    /\ files = [c \in Chunk |-> "none"] /\ inner = [c \in Chunk |-> "none"]
    /\ used = 0 /\ queue = <<>> /\ drain = NoDrain /\ client = NoCall
    /\ phase = "up" /\ left = {} /\ rec = NoChunk
    /\ accepted = {} /\ result = "none" /\ exposed = {} /\ faults = 0 /\ crashes = 0

-----------------------------------------------------------------------------

Works == UNCHANGED faults
Fails == faults < MaxFaults /\ faults' = faults + 1

ClientGoto(pc) == client' = [client EXCEPT !.pc = pc]
DrainGoto(pc) == drain' = [drain EXCEPT !.pc = pc]
AtClient(pc) == phase = "up" /\ client.pc = pc

\* A chunk is exposed when it is written while a copy is cached or pending, when it
\* is deleted while pending, when its file is cut short, and when recovery skips it.
Expose(c, why) == exposed' = IF why THEN exposed \cup {c} ELSE exposed

-----------------------------------------------------------------------------
\* Write.

BeginWrite(c) ==
    /\ AtClient("idle")
    /\ client' = [pc |-> "reserve", id |-> c, size |-> Size[c]]
    /\ Expose(c, files[c] # "none" \/ Pending(c))
    /\ result' = "none"
    /\ UNCHANGED <<files, inner, used, queue, drain, phase, left, rec, accepted, faults,
                   crashes>>

\* Mutant of Reserve: the incoming chunk is not counted.
ReserveLate ==
    /\ AtClient("reserve")
    /\ IF used >= MaxBytes
         THEN ClientGoto("asleep") /\ UNCHANGED used
         ELSE used' = used + client.size /\ ClientGoto("create")
    /\ UNCHANGED <<files, inner, queue, drain, phase, left, rec, accepted, result, exposed,
                   faults, crashes>>

\* Under c.mu: take the space, or wait on the condition for some.
Reserve ==
    /\ AtClient("reserve")
    /\ IF used + client.size > MaxBytes
         THEN ClientGoto("asleep") /\ UNCHANGED used
         ELSE used' = used + client.size /\ ClientGoto("create")
    /\ UNCHANGED <<files, inner, queue, drain, phase, left, rec, accepted, result, exposed,
                   faults, crashes>>

\* os.WriteFile truncates, then writes.
CreateFile ==
    /\ AtClient("create")
    /\ \/ /\ Works
          /\ files' = [files EXCEPT ![client.id] = "short"]
          /\ ClientGoto("fill")
       \/ Fails /\ ClientGoto("unreserve") /\ UNCHANGED files
    /\ UNCHANGED <<inner, used, queue, drain, phase, left, rec, accepted, result, exposed,
                   crashes>>

\* The drain of an older item may have removed the path: then the bytes go to a
\* file without a name.
FillFile ==
    /\ AtClient("fill")
    /\ \/ /\ Works
          /\ files' = [files EXCEPT ![client.id] = IF @ = "none" THEN @ ELSE "whole"]
          /\ ClientGoto("send") /\ UNCHANGED exposed
       \/ Fails /\ ClientGoto("unreserve") /\ Expose(client.id, TRUE) /\ UNCHANGED files
    /\ UNCHANGED <<inner, used, queue, drain, phase, left, rec, accepted, result, crashes>>

\* Mutant of Unreserve: the space of a failed write is not given back.
UnreserveNothing ==
    /\ AtClient("unreserve")
    /\ client' = NoCall /\ result' = "failed"
    /\ UNCHANGED <<files, inner, used, queue, drain, phase, left, rec, accepted,
                   exposed, faults, crashes>>

\* A failed os.WriteFile gives the space back, and Write returns an error.
Unreserve ==
    /\ AtClient("unreserve")
    /\ used' = used - client.size
    /\ client' = NoCall /\ result' = "failed"
    /\ UNCHANGED <<files, inner, queue, drain, phase, left, rec, accepted, exposed,
                   faults, crashes>>

\* Mutant of Send: the channel has no capacity.
SendUnbounded ==
    /\ AtClient("send")
    /\ queue' = Append(queue, [id |-> client.id, data |-> "whole"])
    /\ accepted' = accepted \cup {client.id}
    /\ client' = NoCall /\ result' = "ok"
    /\ UNCHANGED <<files, inner, used, drain, phase, left, rec, exposed, faults, crashes>>

Send ==
    /\ AtClient("send")
    /\ Len(queue) < QueueCap
    /\ queue' = Append(queue, [id |-> client.id, data |-> "whole"])
    /\ accepted' = accepted \cup {client.id}
    /\ client' = NoCall /\ result' = "ok"
    /\ UNCHANGED <<files, inner, used, drain, phase, left, rec, exposed, faults, crashes>>

-----------------------------------------------------------------------------
\* Delete and Read.

\* Delete, up to os.Stat.
DeleteStat(c) ==
    /\ AtClient("idle")
    /\ used >= -MaxDebt
    /\ \E n \in FileSize(c) :
          client' = [pc |-> IF files[c] = "none" THEN "delInner" ELSE "delFile",
                     id |-> c, size |-> n]
    /\ accepted' = accepted \ {c} /\ result' = "none"
    /\ Expose(c, Pending(c))
    /\ UNCHANGED <<files, inner, used, queue, drain, phase, left, rec, faults, crashes>>

DeleteFile ==
    /\ AtClient("delFile")
    /\ files' = [files EXCEPT ![client.id] = "none"]
    /\ ClientGoto("delUsed")
    /\ UNCHANGED <<inner, used, queue, drain, phase, left, rec, accepted, result, exposed,
                   faults, crashes>>

DeleteUsed ==
    /\ AtClient("delUsed")
    /\ used' = used - client.size
    /\ ClientGoto("delInner")
    /\ UNCHANGED <<files, inner, queue, drain, phase, left, rec, accepted, result, exposed,
                   faults, crashes>>

\* Mutant of DeleteInner: the error of the inner backend is ignored.
DeleteInnerIgnoringErrors ==
    /\ AtClient("delInner")
    /\ LET without == [inner EXCEPT ![client.id] = "none"]
       IN  \/ Works /\ inner' = without
           \/ Fails /\ inner' \in {inner, without}
    /\ client' = NoCall /\ result' = "ok"
    /\ UNCHANGED <<files, used, queue, drain, phase, left, rec, accepted, exposed, crashes>>

DeleteInner ==
    /\ AtClient("delInner")
    /\ LET without == [inner EXCEPT ![client.id] = "none"]
       IN  \/ Works /\ inner' = without /\ result' = "ok"
           \/ Fails /\ inner' \in {inner, without} /\ result' = "failed"
    /\ client' = NoCall
    /\ UNCHANGED <<files, used, queue, drain, phase, left, rec, accepted, exposed, crashes>>

\* Read finds no file; a Read that finds one returns it.
ReadMiss(c) ==
    /\ AtClient("idle")
    /\ files[c] = "none"
    /\ client' = [pc |-> "readInner", id |-> c, size |-> 0]
    /\ UNCHANGED <<files, inner, used, queue, drain, phase, left, rec, accepted, result,
                   exposed, faults, crashes>>

ReadInner ==
    /\ AtClient("readInner")
    /\ client' = NoCall
    /\ UNCHANGED <<files, inner, used, queue, drain, phase, left, rec, accepted, result,
                   exposed, faults, crashes>>

-----------------------------------------------------------------------------
\* drainLoop and drainOne.

Draining == phase \in {"up", "closing"}

DrainTake ==
    /\ Draining /\ drain.pc = "idle"
    /\ queue # <<>>
    /\ drain' = [NoDrain EXCEPT !.pc = "write", !.id = Head(queue).id,
                                !.data = Head(queue).data]
    /\ queue' = Tail(queue)
    /\ UNCHANGED <<files, inner, used, client, phase, left, rec, accepted, result, exposed,
                   faults, crashes>>

\* What a write the inner backend did not finish may leave: it deletes, or truncates, the
\* blob it replaces first.
Unfinished ==
    {[inner EXCEPT ![drain.id] = d] : d \in {inner[drain.id], "none", "short", drain.data}}

\* Mutant of DrainWrite: the error of the inner backend is ignored.
DrainWriteIgnoringErrors ==
    /\ Draining /\ drain.pc = "write"
    /\ \/ Works /\ inner' = [inner EXCEPT ![drain.id] = drain.data]
       \/ Fails /\ inner' \in Unfinished
    /\ DrainGoto("stat")
    /\ UNCHANGED <<files, used, queue, client, phase, left, rec, accepted, result, exposed,
                   crashes>>

\* Mutant of DrainWrite: two attempts.
DrainWriteTwice ==
    /\ Draining /\ drain.pc = "write"
    /\ \/ /\ Works /\ inner' = [inner EXCEPT ![drain.id] = drain.data]
          /\ DrainGoto("stat")
       \/ /\ Fails /\ inner' \in Unfinished
          /\ drain' = IF drain.attempt + 1 < 2
                        THEN [drain EXCEPT !.attempt = @ + 1] ELSE NoDrain
    /\ UNCHANGED <<files, used, queue, client, phase, left, rec, accepted, result, exposed,
                   crashes>>

\* The third failure gives up: the file stays, nothing is enqueued again.
DrainWrite ==
    /\ Draining /\ drain.pc = "write"
    /\ \/ /\ Works /\ inner' = [inner EXCEPT ![drain.id] = drain.data]
          /\ DrainGoto("stat")
       \/ /\ Fails /\ inner' \in Unfinished
          /\ drain' = IF drain.attempt + 1 < 3
                        THEN [drain EXCEPT !.attempt = @ + 1] ELSE NoDrain
    /\ UNCHANGED <<files, used, queue, client, phase, left, rec, accepted, result, exposed,
                   crashes>>

DrainStat ==
    /\ Draining /\ drain.pc = "stat"
    /\ \E n \in FileSize(drain.id) : drain' = [drain EXCEPT !.pc = "remove", !.size = n]
    /\ UNCHANGED <<files, inner, used, queue, client, phase, left, rec, accepted, result,
                   exposed, faults, crashes>>

DrainRemove ==
    /\ Draining /\ drain.pc = "remove"
    /\ files' = [files EXCEPT ![drain.id] = "none"]
    /\ DrainGoto("used")
    /\ UNCHANGED <<inner, used, queue, client, phase, left, rec, accepted, result, exposed,
                   faults, crashes>>

DrainUsed ==
    /\ Draining /\ drain.pc = "used"
    /\ used' = used - drain.size
    /\ DrainGoto("broadcast")
    /\ UNCHANGED <<files, inner, queue, client, phase, left, rec, accepted, result, exposed,
                   faults, crashes>>

\* Mutant of DrainBroadcast: nobody is woken.
DrainSilent ==
    /\ Draining /\ drain.pc = "broadcast"
    /\ drain' = NoDrain
    /\ UNCHANGED <<files, inner, used, queue, client, phase, left, rec, accepted, result,
                   exposed, faults, crashes>>

DrainBroadcast ==
    /\ Draining /\ drain.pc = "broadcast"
    /\ client' = IF client.pc = "asleep" THEN [client EXCEPT !.pc = "reserve"] ELSE client
    /\ drain' = NoDrain
    /\ UNCHANGED <<files, inner, used, queue, phase, left, rec, accepted, result, exposed,
                   faults, crashes>>

-----------------------------------------------------------------------------
\* New, Close, and the end of the process.

\* New starts on what the directory holds.
StartUp ==
    /\ phase' = "recovering" /\ left' = Cached /\ rec' = NoChunk
    /\ used' = 0 /\ queue' = <<>> /\ drain' = NoDrain /\ client' = NoCall
    /\ result' = "none"
    /\ UNCHANGED <<files, accepted, faults>>

\* recoverPending reads one entry, or skips one it cannot read.
RecoverFile ==
    /\ phase = "recovering" /\ rec = NoChunk
    /\ \E c \in left :
          /\ left' = left \ {c}
          /\ \/ /\ Works /\ \E n \in FileSize(c) : used' = used + n
                /\ rec' = c /\ UNCHANGED exposed
             \/ Fails /\ Expose(c, TRUE) /\ UNCHANGED <<used, rec>>
    /\ UNCHANGED <<files, inner, queue, drain, client, phase, accepted, result, crashes>>

\* Mutant of RecoverSend: the channel is one short.
RecoverSendOneShort ==
    /\ phase = "recovering" /\ rec # NoChunk
    /\ Len(queue) + 1 < QueueCap
    /\ queue' = Append(queue, [id |-> rec, data |-> files[rec]])
    /\ rec' = NoChunk
    /\ UNCHANGED <<files, inner, used, drain, client, phase, left, accepted, result,
                   exposed, faults, crashes>>

\* The drain has not started yet: nothing makes room in the channel.
RecoverSend ==
    /\ phase = "recovering" /\ rec # NoChunk
    /\ Len(queue) < QueueCap
    /\ queue' = Append(queue, [id |-> rec, data |-> files[rec]])
    /\ rec' = NoChunk
    /\ UNCHANGED <<files, inner, used, drain, client, phase, left, accepted, result,
                   exposed, faults, crashes>>

RecoverDone ==
    /\ phase = "recovering" /\ rec = NoChunk /\ left = {}
    /\ phase' = "up"
    /\ UNCHANGED <<files, inner, used, queue, drain, client, left, rec, accepted, result,
                   exposed, faults, crashes>>

\* main closes the cache once the file system is unmounted.
Close ==
    /\ AtClient("idle")
    /\ phase' = "closing"
    /\ UNCHANGED <<files, inner, used, queue, drain, client, left, rec, accepted, result,
                   exposed, faults, crashes>>

\* Mutant of DrainExit: what is still in the channel is left there.
DrainExitAtOnce ==
    /\ phase = "closing" /\ drain.pc = "idle"
    /\ phase' = "down"
    /\ UNCHANGED <<files, inner, used, queue, drain, client, left, rec, accepted, result,
                   exposed, faults, crashes>>

\* drainLoop returns once stopCh is closed and the channel is empty.
DrainExit ==
    /\ phase = "closing" /\ drain.pc = "idle" /\ queue = <<>>
    /\ phase' = "down"
    /\ UNCHANGED <<files, inner, used, queue, drain, client, left, rec, accepted, result,
                   exposed, faults, crashes>>

Restart == phase = "down" /\ StartUp /\ UNCHANGED <<inner, exposed, crashes>>

\* The process dies; a file, or a blob, that was being written stays as it is.
Crash ==
    /\ phase # "down" /\ crashes < MaxCrashes
    /\ crashes' = crashes + 1
    /\ inner' \in IF drain.pc = "write" THEN Unfinished ELSE {inner}
    /\ Expose(client.id, client.pc = "fill")
    /\ StartUp

-----------------------------------------------------------------------------

Calls == \E c \in Chunk : BeginWrite(c) \/ DeleteStat(c) \/ ReadMiss(c)

ClientStep ==
    \/ Reserve \/ CreateFile \/ FillFile \/ Unreserve \/ Send
    \/ DeleteFile \/ DeleteUsed \/ DeleteInner \/ ReadInner

DrainStep ==
    \/ DrainTake \/ DrainWrite \/ DrainStat \/ DrainRemove \/ DrainUsed \/ DrainBroadcast
    \/ DrainExit

RecoverStep == RecoverFile \/ RecoverSend \/ RecoverDone

Next == Calls \/ ClientStep \/ DrainStep \/ RecoverStep \/ Close \/ Restart \/ Crash

\* A goroutine that can go on does; nobody has to call, close, restart or crash.
Fairness == WF_vars(ClientStep) /\ WF_vars(DrainStep) /\ WF_vars(RecoverStep)

Spec == Init /\ [][Next]_vars /\ Fairness

-----------------------------------------------------------------------------

TypeOK ==
    /\ files \in [Chunk -> Content] /\ inner \in [Chunk -> Content]
    /\ used \in Int
    /\ queue \in Seq(Item) /\ Len(queue) <= QueueCap
    /\ drain \in Drain /\ client \in Call
    /\ phase \in {"up", "closing", "down", "recovering"}
    /\ left \subseteq Chunk /\ rec \in Chunk \cup {NoChunk}
    /\ accepted \subseteq Chunk /\ exposed \subseteq Chunk
    /\ result \in {"none", "ok", "failed"}
    /\ faults \in 0..MaxFaults /\ crashes \in 0..MaxCrashes

\* The chunks whose file is complete.
Whole == {c \in Chunk : files[c] = "whole"}

\* The bytes of the chunks in S, counted one by one: a sum, as a cardinality.
TotalSize(S) == Cardinality({b \in S \X (1..MaxBytes) : b[2] <= Size[b[1]]})

\* What usedBytes counts and no whole file holds: space reserved for a file being
\* written, and space of a removed file not yet given back.
Floating ==
    (IF client.pc \in {"create", "fill", "unreserve", "delUsed"} THEN client.size ELSE 0)
    + (IF drain.pc = "used" THEN drain.size ELSE 0)

\* usedBytes (cache.go:93, 100, 127, 190) is exactly the bytes of the cached files, up to
\* what is under way, through failures, crashes and recovery, while no chunk was exposed.
AccountingExact ==
    exposed = {} /\ phase \in {"up", "closing", "down"} =>
        used = TotalSize(Whole) + Floating

\* "writes block when the cache exceeds this size" (cache.go:38): while no chunk was
\* exposed, the directory never holds more than MaxBytes.
WithinLimit ==
    exposed = {} => TotalSize(Whole) <= MaxBytes

\* A Write does not sleep for good (cache.go:86-93): while it waits for space the drain is at
\* work or has work queued, and wakes it at the end (cache.go:192), as long as no chunk was
\* exposed and fewer than three calls failed.
SleeperHasDrain ==
    client.pc = "asleep" /\ exposed = {} /\ faults < 3 => drain.pc # "idle" \/ queue # <<>>

\* What Read returns for c: the local file if there is one, else the inner blob.
ReadBack(c) == IF files[c] = "none" THEN inner[c] ELSE files[c]

\* A chunk whose Write returned can be read, whole, at any moment of its drain, after
\* failed attempts, after a crash and across restarts, unless it was exposed.  The
\* fallthrough of Read (cache.go:112-118) may come after the drain's steps: the file it
\* missed is in the inner backend.
ReadableUnlessExposed ==
    \A c \in accepted \ exposed :
        /\ ReadBack(c) = "whole" \/ (client.pc = "fill" /\ client.id = c)
        /\ client.pc = "readInner" /\ client.id = c => inner[c] = "whole"

\* "Close signals the drain goroutine to stop and waits for it to finish draining all
\* pending items" (cache.go:134-135): when it has returned, the inner backend has every
\* chunk written and not deleted, even if two attempts failed: the third may be the last one
\* of an item (cache.go:174-177).
CloseDrains ==
    phase = "down" /\ faults < 3 => \A c \in accepted \ exposed : inner[c] = "whole"

\* The call that changes something, if one is under way, or what the last one returned.
CallDoes ==
    IF client.pc \in {"idle", "readInner"} THEN result
    ELSE IF client.pc \in {"delFile", "delUsed", "delInner"} THEN "delete" ELSE "write"

\* To its caller the cache is a ChunkStore: a call changes what Read returns for its chunk
\* alone, and as it reports; the drain, its retries, recovery and restarts change nothing.
Promised ==
    INSTANCE ChunkStore
      WITH Key <- Chunk, NoKey <- NoChunk,
           blobs <- {c \in Chunk : ReadBack(c) = "whole"},
           doing <- CallDoes,
           chunk <- IF client.pc = "readInner" THEN NoChunk ELSE client.id,
           forsaken <- exposed

ImplementsChunkStore == Promised!Spec

\* A written chunk reaches the inner backend or is deleted, across two failed attempts
\* (cache.go:162-177) and a crash, unless a third call fails, so that it may be given up, or
\* recovery is stuck.
EveryChunkDrains ==
    \A c \in Chunk :
        c \in accepted ~> \/ inner[c] = "whole" \/ c \notin accepted \/ c \in exposed
                          \/ faults >= 3
                          \/ phase = "recovering" /\ Cardinality(Cached) > QueueCap

\* A Write that waits for space is woken and gets on (cache.go:76-93), after sleeping again
\* if it must, while no chunk was exposed.  A third failure may give a chunk up, whose space
\* is not given back (cache.go:174-177).
WriteUnblocks ==
    client.pc = "asleep" /\ exposed = {} ~>
        client.pc \notin {"asleep", "reserve"} \/ faults >= 3

\* New returns (cache.go:39-61) when the directory holds no more files than the channel:
\* recoverPending sends before drainLoop receives.
MountReturns ==
    phase = "recovering" /\ Cardinality(Cached) <= QueueCap ~> phase = "up"

\* "the important thing is it doesn't deadlock" (cache_test.go:169): a Write that waits for
\* space does not wait forever, when nothing fails.
BackpressureEnds == client.pc = "asleep" ~> client.pc # "asleep"

\* "Read checks the local cache first, then falls through to inner" (cache.go:111): a chunk
\* whose Write returned is in one of the two, when nothing fails and nobody is writing it.
AcceptedReadable ==
    faults = 0 /\ crashes = 0 /\ client.pc = "idle" =>
        \A c \in accepted : ReadBack(c) = "whole"

=============================================================================
