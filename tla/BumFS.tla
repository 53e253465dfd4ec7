------------------------------- MODULE BumFS --------------------------------
(***************************************************************************)
(* The data path of the file system: the handlers of internal/fs/bumfs.go  *)
(* with the chunk tables of internal/meta/meta.go and the blobs of the     *)
(* storage backend, one step per call to the database or to the backend.   *)
(*                                                                         *)
(* Every handler that changes state holds fs.mu from its first line to its *)
(* return, so at most one runs: op is that one.  Nothing but a crash, and  *)
(* the calls' own failures, comes between two of its steps.                *)
(*                                                                         *)
(* A file is its inode.  Two handles may be open on one inode; an inode    *)
(* number is handed out again only when nothing refers to it any more,     *)
(* which cannot be told from SQLite's AUTOINCREMENT taking the next one.   *)
(***************************************************************************)
EXTENDS Chunks, FiniteSets

CONSTANTS
    Ino,         \* inode numbers of regular files
    NoIno,       \* what op.ino is while no handler runs
    Fh,          \* file handle numbers
    Closed,      \* a handle that is not in the handles map
    Zero,        \* the byte make([]byte, n) fills with
    MaxLen,      \* bound: the longest file
    MaxLeak,     \* bound: no removal once a ref_count exceeds its rows by this
    MaxFaults,   \* bound: database and backend calls that fail
    MaxCrashes   \* bound: crashes

ASSUME BumFSAssumption ==
    /\ IsFiniteSet(Ino) /\ NoIno \notin Ino
    /\ Zero \in Byte
    /\ MaxLen \in Nat /\ MaxLeak \in Nat
    /\ MaxFaults \in Nat /\ MaxCrashes \in Nat

VARIABLES
    nodes,       \* the files that have a row in inodes
    size,        \* inodes.size, 0 without a row
    fileChunks,  \* file_chunks: the chunk ids of each inode, by chunk_idx
    records,     \* the chunk ids that have a row in chunks
    refCount,    \* chunks.ref_count, 0 without a row
    backend,     \* the chunk ids the storage backend can return
    handles,     \* fs.handles
    op,          \* the handler that holds fs.mu
    faults,      \* calls that failed so far
    crashes      \* crashes so far

meta == <<nodes, size, fileChunks, records, refCount>>
vars == <<meta, backend, handles, op, faults, crashes>>

Handle == [ino : Ino, dirty : BOOLEAN, buf : Seq(Byte)]

\* An operation walks the chunks in todo, then those in gc.
\* "then" is where RemoveNode's caller goes on.
Operation ==
    [pc   : {"idle", "delOld", "put", "setChunks", "setSize", "gcList", "gcDel",
             "gcRec", "truncDel", "setEmpty", "sizeZero", "rmChunks", "rmNode"},
     ino  : Ino \cup {NoIno},
     data : Seq(Byte),
     todo : Seq(ChunkID),
     gc   : SUBSET ChunkID,
     then : {"idle", "gcList"}]

NoOp == [pc |-> "idle", ino |-> NoIno, data |-> <<>>, todo |-> <<>>, gc |-> {},
         then |-> "idle"]

Idle == op.pc = "idle"

Elems(s) == {s[k] : k \in DOMAIN s}

\* How often chunk c occurs in the chunk list s.
Occ(s, c) == Cardinality({k \in DOMAIN s : s[k] = c})

\* The file_chunks rows that name chunk c.
RefsTo(c) == UNION {{i} \X {k \in DOMAIN fileChunks[i] : fileChunks[i][k] = c} : i \in Ino}

\* Make room in buf for n bytes, or cut it to n (bumfs.go:401-407).
Resize(buf, n) == [k \in 1..n |-> IF k <= Len(buf) THEN buf[k] ELSE Zero]

\* copy(buf[ofst:], new), buf grown first when it is too short (bumfs.go:369-377).
Overlay(buf, new, ofst) ==
    LET end == ofst + Len(new)
    IN  [k \in 1..(IF end > Len(buf) THEN end ELSE Len(buf)) |->
            IF k > ofst /\ k <= end THEN new[k - ofst]
            ELSE IF k <= Len(buf) THEN buf[k] ELSE Zero]

Init ==
    /\ nodes = {}
    /\ size = [i \in Ino |-> 0]
    /\ fileChunks = [i \in Ino |-> <<>>]
    /\ records = {}
    /\ refCount = [c \in ChunkID |-> 0]
    /\ backend = {}
    /\ handles = [f \in Fh |-> Closed]
    /\ op = NoOp
    /\ faults = 0
    /\ crashes = 0

-----------------------------------------------------------------------------
\* A call that works, and one that fails.  A call whose failure ends a handler
\* before it changed anything is no step at all.
Works == UNCHANGED faults
Fails == faults < MaxFaults /\ faults' = faults + 1

Goto(pc) == op' = [op EXCEPT !.pc = pc]
Return == op' = NoOp

\* A loop with nothing left to walk makes no call: the operation goes on to what
\* follows the loop.
PastLoop(o) ==
    CASE o.pc \in {"delOld", "truncDel"} /\ o.todo = <<>> /\ o.data = <<>> ->
              [o EXCEPT !.pc = "setEmpty"]
      [] o.pc = "delOld" /\ o.todo = <<>> /\ o.data # <<>> ->
              [o EXCEPT !.pc = "put", !.todo = WriteFile(o.data)]
      [] o.pc = "put" /\ o.todo = <<>> -> [o EXCEPT !.pc = "setChunks"]
      [] o.pc = "gcDel" /\ o.gc = {} -> NoOp
      [] OTHER -> o

Continue(o) == op' = PastLoop(o)

\* Mutant of SetFileChunks: a chunk that occurs twice in the new list counts once.
SetFileChunksCountsOnce(i, new) ==
    /\ fileChunks' = [fileChunks EXCEPT ![i] = new]
    /\ records' = records \cup Elems(new)
    /\ refCount' = [c \in ChunkID |->
                      refCount[c] - Occ(fileChunks[i], c) + (IF c \in Elems(new) THEN 1 ELSE 0)]

\* Mutant of SetFileChunks: ON CONFLICT DO NOTHING, so a known chunk gains no count.
SetFileChunksIgnoresConflict(i, new) ==
    /\ fileChunks' = [fileChunks EXCEPT ![i] = new]
    /\ records' = records \cup Elems(new)
    /\ refCount' = [c \in ChunkID |->
                      IF c \in records THEN refCount[c] - Occ(fileChunks[i], c)
                      ELSE IF c \in Elems(new) THEN 1 ELSE 0]

\* SetFileChunks in its transaction: counts of the old list go down, mappings
\* are replaced, a record is inserted or its count goes up for each new one.
SetFileChunks(i, new) ==
    /\ fileChunks' = [fileChunks EXCEPT ![i] = new]
    /\ records' = records \cup Elems(new)
    /\ refCount' = [c \in ChunkID |->
                      IF c \in records \cup Elems(new)
                        THEN refCount[c] - Occ(fileChunks[i], c) + Occ(new, c)
                        ELSE 0]

\* loadFileData succeeds: the inode and every chunk it maps can be read.
Loadable(i) == i \in nodes /\ (size[i] = 0 \/ Elems(fileChunks[i]) \subseteq backend)

LoadFileData(i) ==
    LET data == ReadFile(fileChunks[i])
    IN  IF size[i] = 0 THEN <<>>
        ELSE IF Len(data) > size[i] THEN SubSeq(data, 1, size[i]) ELSE data

\* What Read assembles and the size Getattr reports for an open handle: its buffer once
\* it is dirty, the inode's before.  Read does not cut the chunks to the size.
ReadHandle(h) ==
    IF h.dirty THEN h.buf
    ELSE IF size[h.ino] = 0 THEN <<>>
    ELSE ReadFile(fileChunks[h.ino])

StatSize(h) == IF h.dirty THEN Len(h.buf) ELSE size[h.ino]

\* The buffer a Write or a Truncate on an open handle starts from.
CanBuffer(h) == h.dirty \/ Loadable(h.ino)
Buffered(h) == IF h.dirty THEN h.buf ELSE LoadFileData(h.ino)
Dirtied(h, buf) == [h EXCEPT !.dirty = TRUE, !.buf = buf]

\* writeFileData(i, data) begins.  Where GetFileChunks fails, the old chunks
\* are not deleted.
WriteFileData(i, data) ==
    LET start == [NoOp EXCEPT !.pc = "delOld", !.ino = i, !.data = data]
    IN  \/ Works /\ Continue([start EXCEPT !.todo = fileChunks[i]])
        \/ Fails /\ Continue(start)

RemoveNode(i, then) ==
    op' = [NoOp EXCEPT !.pc = "rmChunks", !.ino = i, !.then = then]

\* An inode number nothing refers to.
Fresh(i) == i \notin nodes /\ \A f \in Fh : handles[f] # Closed => handles[f].ino # i

-----------------------------------------------------------------------------
\* The handlers, up to their first call that changes the disk.

NewHandle(f, i, truncate) ==
    /\ handles[f] = Closed
    /\ handles' = [handles EXCEPT ![f] = [ino |-> i, dirty |-> truncate, buf |-> <<>>]]

Create(i, f) ==
    /\ Idle /\ Fresh(i)
    /\ nodes' = nodes \cup {i}
    /\ NewHandle(f, i, FALSE)
    /\ UNCHANGED <<size, fileChunks, records, refCount, backend, op, faults, crashes>>

Mknod(i) ==
    /\ Idle /\ Fresh(i)
    /\ nodes' = nodes \cup {i}
    /\ UNCHANGED <<size, fileChunks, records, refCount, backend, handles, op, faults,
                   crashes>>

\* O_TRUNC empties the handle's buffer and marks it dirty; the file is left alone.
Open(i, f) ==
    /\ Idle /\ i \in nodes
    /\ \E truncate \in BOOLEAN : NewHandle(f, i, truncate)
    /\ UNCHANGED <<meta, backend, op, faults, crashes>>

Write(f) ==
    /\ Idle /\ handles[f] # Closed
    /\ CanBuffer(handles[f])
    /\ \E ofst \in 0..(MaxLen - 1) : \E new \in SeqUpTo(Byte, MaxLen - ofst) \ {<<>>} :
          handles' = [handles EXCEPT
                        ![f] = Dirtied(@, Overlay(Buffered(@), new, ofst))]
    /\ UNCHANGED <<meta, backend, op, faults, crashes>>

\* Truncate with a handle only resizes the handle's buffer.
TruncateHandle(f) ==
    /\ Idle /\ handles[f] # Closed
    /\ CanBuffer(handles[f])
    /\ \E n \in 0..MaxLen :
          handles' = [handles EXCEPT ![f] = Dirtied(@, Resize(Buffered(@), n))]
    /\ UNCHANGED <<meta, backend, op, faults, crashes>>

\* Truncate without a handle, to size 0: delete the chunks, empty the list.
TruncateToZero(i) ==
    /\ Idle /\ i \in nodes
    /\ Continue([NoOp EXCEPT !.pc = "truncDel", !.ino = i, !.todo = fileChunks[i]])
    /\ UNCHANGED <<meta, backend, handles, faults, crashes>>

\* Truncate without a handle, to another size: load, resize, write.
TruncatePath(i) ==
    /\ Idle /\ Loadable(i)
    /\ \E n \in 1..MaxLen : WriteFileData(i, Resize(LoadFileData(i), n))
    /\ UNCHANGED <<meta, backend, handles, crashes>>

\* Flush and Fsync.  The handle stays dirty and keeps its buffer.
Flush(f) ==
    /\ Idle /\ handles[f] # Closed /\ handles[f].dirty
    /\ WriteFileData(handles[f].ino, handles[f].buf)
    /\ UNCHANGED <<meta, backend, handles, crashes>>

\* Release takes the handle out of the map before it flushes it.
Release(f) ==
    /\ Idle /\ handles[f] # Closed
    /\ handles' = [handles EXCEPT ![f] = Closed]
    /\ IF handles[f].dirty
         THEN WriteFileData(handles[f].ino, handles[f].buf)
         ELSE UNCHANGED <<op, faults>>
    /\ UNCHANGED <<meta, backend, crashes>>

Bounded == \A c \in ChunkID : refCount[c] < Cardinality(RefsTo(c)) + MaxLeak

Unlink(i) ==
    /\ Idle /\ i \in nodes /\ Bounded
    /\ RemoveNode(i, "gcList")
    /\ UNCHANGED <<meta, backend, handles, faults, crashes>>

\* Rename of another file over file i: i goes, and nothing is collected.
RenameOver(i) ==
    /\ Idle /\ i \in nodes /\ nodes # {i} /\ Bounded
    /\ RemoveNode(i, "idle")
    /\ UNCHANGED <<meta, backend, handles, faults, crashes>>

-----------------------------------------------------------------------------
\* The steps of writeFileData.

\* Mutant of DeleteOld: the old chunks are left to the collection.
DeleteOldLater ==
    /\ op.pc = "delOld"
    /\ Works /\ UNCHANGED backend
    /\ Continue([op EXCEPT !.todo = Tail(@)])
    /\ UNCHANGED <<meta, handles, crashes>>

\* A failed delete of an old chunk is ignored.
DeleteOld ==
    /\ op.pc = "delOld"
    /\ \/ Works /\ backend' = backend \ {Head(op.todo)}
       \/ Fails /\ UNCHANGED backend
    /\ Continue([op EXCEPT !.todo = Tail(@)])
    /\ UNCHANGED <<meta, handles, crashes>>

\* Mutant of PutChunk: a chunk with a record is taken to be in the backend.
PutUnknownChunk ==
    /\ op.pc = "put"
    /\ Works
    /\ backend' = IF Head(op.todo) \in records THEN backend ELSE backend \cup {Head(op.todo)}
    /\ Continue([op EXCEPT !.todo = Tail(@)])
    /\ UNCHANGED <<meta, handles, crashes>>

\* A failed put ends the flush.  The blob may have been stored all the same, and one
\* that was there may be lost: the backends empty or delete it before they store anew.
PutChunk ==
    /\ op.pc = "put"
    /\ \/ /\ Works
          /\ backend' = backend \cup {Head(op.todo)}
          /\ Continue([op EXCEPT !.todo = Tail(@)])
       \/ /\ Fails
          /\ backend' \in {backend, backend \cup {Head(op.todo)}, backend \ {Head(op.todo)}}
          /\ Return
    /\ UNCHANGED <<meta, handles, crashes>>

\* The foreign key on file_chunks.ino refuses the list of a removed inode.
CommitChunks ==
    /\ op.pc = "setChunks"
    /\ IF op.ino \in nodes
         THEN \/ Works /\ SetFileChunks(op.ino, WriteFile(op.data)) /\ Goto("setSize")
              \/ Fails /\ UNCHANGED <<fileChunks, records, refCount>> /\ Return
         ELSE Works /\ UNCHANGED <<fileChunks, records, refCount>> /\ Return
    /\ UNCHANGED <<nodes, size, backend, handles, crashes>>

SetSize ==
    /\ op.pc = "setSize"
    /\ \/ /\ Works
          /\ size' = [size EXCEPT ![op.ino] = Len(op.data)]
          /\ Goto("gcList")
       \/ Fails /\ UNCHANGED size /\ Return
    /\ UNCHANGED <<nodes, fileChunks, records, refCount, backend, handles, crashes>>

\* No data, from writeFileData or TruncateToZero: errors of both statements are
\* ignored, and for a removed inode they change nothing.
SetEmpty ==
    /\ op.pc = "setEmpty"
    /\ \/ Works /\ SetFileChunks(op.ino, <<>>)
       \/ Fails /\ UNCHANGED <<fileChunks, records, refCount>>
    /\ Goto("sizeZero")
    /\ UNCHANGED <<nodes, size, backend, handles, crashes>>

\* Mutant of SizeZero: the size of an emptied file is not reset.
SizeKept ==
    /\ op.pc = "sizeZero"
    /\ Works /\ Return
    /\ UNCHANGED <<meta, backend, handles, crashes>>

SizeZero ==
    /\ op.pc = "sizeZero"
    /\ \/ Works /\ size' = [size EXCEPT ![op.ino] = 0]
       \/ Fails /\ UNCHANGED size
    /\ Return
    /\ UNCHANGED <<nodes, fileChunks, records, refCount, backend, handles, crashes>>

-----------------------------------------------------------------------------
\* The collection of unreferenced chunks, at the end of a flush and of Unlink.

\* Mutant of GetUnreferencedChunks: WHERE ref_count <= 1.
GetSingleReferencedChunks ==
    /\ op.pc = "gcList"
    /\ Works
    /\ Continue([op EXCEPT !.pc = "gcDel", !.gc = {c \in records : refCount[c] <= 1}])
    /\ UNCHANGED <<meta, backend, handles, crashes>>

GetUnreferencedChunks ==
    /\ op.pc = "gcList"
    /\ \/ /\ Works
          /\ Continue([op EXCEPT !.pc = "gcDel",
                                 !.gc = {c \in records : refCount[c] <= 0}])
       \/ Fails /\ Return
    /\ UNCHANGED <<meta, backend, handles, crashes>>

\* The rows come in no stated order.
CollectBlob ==
    /\ op.pc = "gcDel"
    /\ \E c \in op.gc :
          /\ \/ Works /\ backend' = backend \ {c}
             \/ Fails /\ UNCHANGED backend
          /\ op' = [op EXCEPT !.pc = "gcRec", !.todo = <<c>>]
    /\ UNCHANGED <<meta, handles, crashes>>

\* DeleteChunkRecord fails, unnoticed, while a file_chunks row names the chunk.
CollectRecord ==
    /\ op.pc = "gcRec"
    /\ LET c == Head(op.todo)
           mapped == \E i \in nodes : c \in Elems(fileChunks[i])
       IN  /\ \/ /\ Works /\ ~mapped
                 /\ records' = records \ {c}
                 /\ refCount' = [refCount EXCEPT ![c] = 0]
              \/ Works /\ mapped /\ UNCHANGED <<records, refCount>>
              \/ Fails /\ UNCHANGED <<records, refCount>>
           /\ Continue([op EXCEPT !.pc = "gcDel", !.todo = <<>>, !.gc = @ \ {c}])
    /\ UNCHANGED <<nodes, size, fileChunks, backend, handles, crashes>>

-----------------------------------------------------------------------------
\* The steps of the other handlers.

\* DeleteChunks stops at the first failure, and its error is ignored.
TruncateDelete ==
    /\ op.pc = "truncDel"
    /\ \/ /\ Works
          /\ backend' = backend \ {Head(op.todo)}
          /\ Continue([op EXCEPT !.todo = Tail(@)])
       \/ /\ Fails
          /\ backend' \in {backend, backend \ {Head(op.todo)}}
          /\ Continue([op EXCEPT !.todo = <<>>])
    /\ UNCHANGED <<meta, handles, crashes>>

\* RemoveNode, first statement: the mappings go, the ref_counts stay.
RemoveFileChunks ==
    /\ op.pc = "rmChunks"
    /\ \/ /\ Works
          /\ fileChunks' = [fileChunks EXCEPT ![op.ino] = <<>>]
          /\ Goto("rmNode")
       \/ Fails /\ UNCHANGED fileChunks /\ Return
    /\ UNCHANGED <<nodes, size, records, refCount, backend, handles, crashes>>

\* RemoveNode, second statement.  Unlink goes on to collect, Rename does not.
RemoveInode ==
    /\ op.pc = "rmNode"
    /\ \/ /\ Works
          /\ nodes' = nodes \ {op.ino}
          /\ size' = [size EXCEPT ![op.ino] = 0]
          /\ IF op.then = "idle" THEN Return ELSE Goto(op.then)
       \/ Fails /\ UNCHANGED <<nodes, size>> /\ Return
    /\ UNCHANGED <<fileChunks, records, refCount, backend, handles, crashes>>

\* The process dies and is started again: SQLite and the backend keep what was
\* done, the handles and their buffers are gone.  A put under way may lose the blob.
Crash ==
    /\ crashes < MaxCrashes
    /\ crashes' = crashes + 1
    /\ handles' = [f \in Fh |-> Closed]
    /\ Return
    /\ \/ UNCHANGED backend
       \/ op.pc = "put" /\ backend' = backend \ {Head(op.todo)}
    /\ UNCHANGED <<meta, faults>>

-----------------------------------------------------------------------------

Handlers ==
    \/ \E i \in Ino, f \in Fh : Create(i, f) \/ Open(i, f)
    \/ \E i \in Ino : \/ Mknod(i) \/ TruncateToZero(i) \/ TruncatePath(i)
                      \/ Unlink(i) \/ RenameOver(i)
    \/ \E f \in Fh : Write(f) \/ TruncateHandle(f) \/ Flush(f) \/ Release(f)

Steps ==
    \/ DeleteOld \/ PutChunk \/ CommitChunks \/ SetSize \/ SetEmpty \/ SizeZero
    \/ GetUnreferencedChunks \/ CollectBlob \/ CollectRecord
    \/ TruncateDelete \/ RemoveFileChunks \/ RemoveInode

Next == Handlers \/ Steps \/ Crash

Spec == Init /\ [][Next]_vars

-----------------------------------------------------------------------------

TypeOK ==
    /\ nodes \subseteq Ino
    /\ size \in [Ino -> Nat]
    /\ fileChunks \in [Ino -> Seq(ChunkID)]
    /\ records \subseteq ChunkID
    /\ refCount \in [ChunkID -> Int]
    /\ backend \subseteq ChunkID
    /\ handles \in [Fh -> Handle \cup {Closed}]
    /\ op \in Operation
    /\ faults \in 0..MaxFaults
    /\ crashes \in 0..MaxCrashes

Mapped(c) == \E i \in Ino : c \in Elems(fileChunks[i])

\* "It also manages reference counts in the chunks table" (meta.go:272): a chunk
\* named by file_chunks has a record, and its ref_count is never below the number
\* of rows that name it, through dedup between and within files, failed
\* statements and crashes.
RefCountCovers ==
    \A c \in ChunkID : /\ refCount[c] >= Cardinality(RefsTo(c))
                       /\ Mapped(c) => c \in records

\* Collection (bumfs.go:692-699, 484-491) never takes a chunk a file still maps:
\* such a chunk leaves the backend only where its own file is being rewritten or
\* truncated, or where storing it once more fails or is cut short by a crash.
CollectionSparesMapped ==
    [][\A c \in backend \ backend' :
          Mapped(c) =>
             \/ op.pc \in {"delOld", "truncDel"} /\ c \in Elems(fileChunks[op.ino])
             \/ /\ op.pc = "put" /\ c = Head(op.todo)
                /\ faults' > faults \/ crashes' > crashes]_vars

\* Once a flush has set the size, and until it returns, the file maps the flushed
\* data, has its length, and every chunk can be read: nothing the flush deletes
\* before or collects after is a chunk of the new content.
FlushedDataInPlace ==
    op.pc \in {"gcList", "gcDel", "gcRec"} /\ op.data # <<>> =>
        /\ fileChunks[op.ino] = WriteFile(op.data)
        /\ size[op.ino] = Len(op.data)
        /\ Elems(fileChunks[op.ino]) \subseteq backend

Undisturbed == Idle /\ faults = 0 /\ crashes = 0

\* Between handlers, when nothing failed, the size Getattr reports through a handle is
\* the length of what Read returns through it (bumfs.go:171, 308-345), and the size in
\* the inode that of the chunks it maps, which is where Write and Truncate start.
SizeAgrees ==
    Undisturbed =>
        /\ \A i \in nodes : size[i] = Len(ReadFile(fileChunks[i]))
        /\ \A f \in Fh :
              LET h == handles[f]
              IN  h # Closed /\ h.ino \in nodes => StatSize(h) = Len(ReadHandle(h))

\* "the second file should reuse chunks" and "Verify both files read correctly"
\* (e2e_test.go:686-692): with no failure and no crash, a file's chunks can be read.
FilesReadable ==
    Undisturbed => \A i \in nodes : Elems(fileChunks[i]) \subseteq backend

\* "Clean up unreferenced chunks from backend" (bumfs.go:484): with no failure and
\* no crash, the backend keeps no chunk of the chunks table that no file maps.
UnreferencedReclaimed ==
    Undisturbed => \A c \in backend \cap records : Mapped(c)

=============================================================================
