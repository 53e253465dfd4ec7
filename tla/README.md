# bumfs in TLA+

bumfs is a FUSE file system that cuts files into content-addressed, encrypted chunks and
keeps the chunks with backends that were not made for it (GitHub releases, Telegram, W&B, a
local directory). Names, attributes and chunk lists live in a local SQLite database; an
optional write-behind cache sits in front of the backends. This directory models the parts of
it where steps interleave, fail and crash, checks them with TLC, and proves with TLAPS every
safety property that TLC finds to hold.

    FUSE --> fs/bumfs.go --+--> meta/meta.go (SQLite)
             (fs.mu)       |
                           +--> chunk/chunk.go --> crypto
                                     |
                                     v
                            [store/cache] --> store/multi --> ratelimit/caplimit --> backend
                             drain goroutine  multi_index.json                       index.json

## 1. The system

| Component | State it keeps | Operations | Correct when |
|---|---|---|---|
| Handlers, `fs/bumfs.go` | open handles: inode, dirty flag, whole-file buffer | Create, Mknod, Open, Read, Write, Truncate, Flush, Fsync, Release, Unlink, Rename, Mkdir, Rmdir, Readdir, Getattr, Chmod, Utimens, Statfs | what was flushed or fsynced can be read back; size and data agree; one file's operation does not harm another |
| Metadata, `meta/meta.go` | `inodes`, `file_chunks`, `chunks(ref_count)` | CreateNode, RemoveNode, Rename, SetFileChunks, UpdateSize, GetUnreferencedChunks, DeleteChunkRecord, lookups, attributes | ref_count accounts for the rows; names form a tree; nlink is right |
| Chunk manager, `chunk/chunk.go` | none | WriteFile, ReadFile, DeleteChunks | reading the chunks of a file gives the file |
| Cache, `store/cache` | the cache directory, `usedBytes`, the channel `drainCh`, the drain goroutine | New and recovery, Write, Read, Delete, Close, drainLoop, drainOne | an accepted chunk is always readable and reaches the inner backend; the limit holds; nobody waits for ever |
| Router, `store/multi` | in-memory map chunk -> backend, `multi_index.json` | Write, Read, Delete, Capacity | a chunk is where the map says |
| Index, `store/index.go` | map key -> reference and its file | Set, Get, Delete, Save | the file holds the last state saved |
| Backends | the remote store and an Index each | Write, Read, Delete, Capacity, HealthCheck | the index names what is stored |
| caplimit, ratelimit | bytes used; last call | wrappers | order and results of calls are kept |
| crypto, config, `cmd/bumfs` | key; configuration; start-up order | Encrypt, Decrypt, DeriveKey; Load; mount | New before Mount, Close after it |

How they interact. FUSE calls handlers from several threads. `fs.mu` is held over every
handler that changes something, so handlers are serial; reads share it. A handler calls SQLite
and the backend several times with no transaction around them: only SetFileChunks is
one. The cache has one concurrent actor, the drain goroutine, which shares the directory,
`usedBytes` (under `c.mu`) and the channel with the callers. With the cache, a backend is
called by the drain (Write) and by the handlers (Read, Delete) at the same time.

What is hard in it, and where it is looked for, is listed as "hazards" in PROJECT.json, each at
its line. The main ones: dedup against deletion before reference counting; flushes of several
handles on one file; failures and crashes between two statements; the drain against Delete and
rewriting of the chunk it drains; backpressure and recovery that can block; Close against the
drain.

## 2. Modules

| Module | What it is |
|---|---|
| `Chunks` | the closed forms of `Manager.WriteFile` and `ReadFile` |
| `ChunkLoop` | their loops as they run, held against the closed forms |
| `BumFS` (extends `Chunks`) | the handlers' data path with the chunk tables and the backend's blobs |
| `BumFSHistory` | `BumFS` with two history variables, to say *which* losses and leaks happen |
| `BumFSFsync` | `BumFS` with a memory of the last flush of each file |
| `ChunkStore` | what the file system may expect of the cache it writes chunks to |
| `Cache` (an instance of `ChunkStore`) | the write-behind cache and its drain goroutine |
| `FileTree` | what the inodes table promises: a tree that changes one node at a time |
| `Namespace` (an instance of `FileTree`) | names and directories: the handlers with the SQL statements they run one after another |
| `Index` | the JSON-persisted maps of `store/index.go`, changed and saved by several goroutines |
| `BlobStore` | what the callers of a `StorageConnector` may expect of it |
| `Store` (extends `Index`, an instance of `BlobStore`) | the router over the four kinds of backend, each with its index |
| `MCBumFS`, `MCBumFSHistory`, `MCCache`, `MCNamespace`, `MCStore` | instances for TLC |
| `Chunks_proofs`, `ChunkLoop_proofs`, `BumFS_proofs`, `BumFSHistory_proofs`, `Cache_proofs`, `Namespace_proofs`, `Index_proofs`, `Store_proofs` | theorems and proofs |

How they fit. `BumFS` sees the backend as a set of chunk ids that can be read, with puts and
deletes that work or fail; `Cache` sees it as a copy per chunk. `Store` is what is behind either
of them, and `BlobStore`, which it implements, is what they take it for: a call
touches its own chunk, and when it reports success the chunk can be read, or cannot. `ChunkStore`
is the same for one caller at a time, and is what `Cache` implements: the drain, which calls the
backend at its own time, cannot be told from outside. `Namespace`
and `BumFS` split the inodes table: `Namespace` has the columns parent_ino, name, nlink and the
type bits of mode, `BumFS` has size and the chunk tables. No column is in both, and a row
appears and goes in both at the same statement (`Insert`, `DeleteRow` there, `Fresh`,
`RemoveInode` here).

### BumFS

State: `nodes`, `size`, `fileChunks`, `records`, `refCount` are the tables of meta.go:50-79
restricted to regular files; `backend` is the set of chunk ids the backend can return;
`handles` is `fs.handles`; `op` is the handler that holds `fs.mu`, with its local variables.
`op.pc` says which database or backend call comes next:

    delOld   backend.Delete of each old chunk              bumfs.go:651-657
    put      chunkMgr.WriteFile, one chunk at a time       :665-669
    setChunks, setSize   SetFileChunks, UpdateSize         :671-690
    setEmpty, sizeZero   the branch for an empty file      :659-662, :430-432
    gcList, gcDel, gcRec GetUnreferencedChunks and its loop :692-699, :484-491
    truncDel DeleteChunks of Truncate to 0                 :418-429
    rmChunks, rmNode     RemoveNode                        meta.go:203-225

A handler action (Create, Open, Write, Flush, ...) goes up to its first call that changes the
disk; each call is then a step that works or fails (`Works`, `Fails`), and `Crash` may come
between any two. A call that fails before anything has changed ends the handler with an error
and is no step. Loops with nothing left fall through in `PastLoop`, so no step is invented.

Abstractions:
- A chunk id is the chunk's plaintext: SHA-256 is taken to be injective, and encryption to be
  undone by decryption.
- Directories and names are in `Namespace`; here a file is its inode. Rename over an existing
  name appears as `RenameOver`, its removal of the target. A rename of a name onto itself does
  not reach the handler: the kernel answers it.
- Read and Getattr change nothing; `ReadHandle` and `StatSize` are what they return for an open
  handle, and `SizeAgrees` compares the two.
- Flush of a handle whose inode is gone is kept. With libfuse's default the kernel side hides an
  unlinked open file under another name, so this is a possibility of the handlers and not of
  every mount.
- An inode number is handed out again only when nothing refers to it, which is
  indistinguishable from AUTOINCREMENT taking a new one.
- A failing put may have stored the blob, and may have lost the one that was there, as the
  GitHub and local backends remove or truncate first.

### Cache

State: `files` and `inner` give the copy of each chunk in the directory and in the inner
backend (none, cut short, whole); `used`, `queue` are `usedBytes`, `drainCh`; `drain` is the
goroutine with drainOne's local variables; `client` is the call under way; `phase`, `left`,
`rec` are New's recovery, Close, and the process being down.

The drain's steps are those another goroutine can see between: take, each attempt, Stat,
Remove, the locked update, the broadcast. Write is: reserve under the lock or wait,
truncate-and-write as two steps (what a crash cuts short), then send. The caller is the file
system, which holds `fs.mu` over writes and deletes, so there is one call at a time; reads
change nothing, so one reader is enough. Every caller passes `context.Background()`: the wait
is never cancelled and the waiter's helper goroutine never broadcasts. Names of other files in
the directory, and failures of Remove and Stat on a file that exists, are left out.

A drain attempt that fails, or that a crash cuts off, may leave the inner blob as it was, lost,
short or stored (`Unfinished`): the backends delete or truncate what they replace first
(github.go:69-71, local.go:42). The bytes of a short file are some number below the size of the
chunk (`FileSize`), because Stat sees what has been written of it.

`exposed` is a history variable: the chunks that saw one of the hazards for which the code
gives no guarantee: written while a copy was cached or pending, deleted while pending, the
file cut short by a failing or crashed write, or skipped by recovery. Most properties are
stated for chunks, or histories, without one; the two violation runs show what exposure does.

`result` is a history variable too: what the last Write or Delete returned. The refinement of
`ChunkStore` maps `blobs` to the chunks that a Read would return whole (`ReadBack`: the file if
there is one, else the inner blob), `doing` to the call that changes something or else `result`,
and `forsaken` to `exposed`. Everything that has no name there (reservations, sleep, the queue,
attempts, removal of files, recovery) has to be a step that changes no blob (`Behind`), but for
the caller's own work on its chunk.

### Namespace and FileTree

State: `place`, `kind`, `nlink` are the columns of `inodes`; `op` is the handler that holds
`fs.mu`, with the one or two places it works on and the statement it comes to:

    bump                 CreateNode's UPDATE of the parent     meta.go:192-197
    dropParent           RemoveNode's UPDATE of the parent     :218-223
    clear, dropTarget    RemoveNode of a rename's target       :355-360, :218-223
    move                 the UPDATE of the row                 :362-372
    leave, enter         the two UPDATEs of nlink              :375-381

Only SetFileChunks uses a transaction, so each statement is a step that works or fails, and
`Crash` may come between any two. The INSERT needs a free name because of UNIQUE(parent_ino,
name); the DELETE needs a node without children because of the foreign key on parent_ino, which
`_foreign_keys=on` switches on. What the code leaves to the kernel is in the guards, marked
external: names are looked up first, a rename is onto something of the same kind and makes no
loop. `FileTree` has no handlers: it adds, removes or moves a node. The refinement maps the
variables of one name onto each other, the links and the handler away.

### Index, Store and BlobStore

`Index` has the map (`data`), the file (`file`), and for each caller between a Set or Delete
and the end of its Save where it is (`stage`), what it changed (`work`) and what it marshalled
(`snap`). The lock covers the change and json.Marshal; `OpenFile` (O_TRUNC) and `Fill` are two
steps under no lock. Two Saves at once may end in either order, and may leave the tail of a
longer document behind a shorter one, which json.Unmarshal then refuses (`Overlay`). `alone` and
`suspect` are history variables: a Save that met no other, and an index whose file is not to be
relied on.

`Store` adds the backends' copies, each with its asset id, and the call of each caller. A write
picks a backend (`Pick`), deletes the old asset (`DeleteOld`, github), uploads (`Upload`) or
truncates and fills a file (`Truncate`, `FillCopy`, local), then sets and saves the backend's
entry and the router's. A delete looks up the router's entry (`Lookup`), removes what the
backend's entry names (`RemoveAsset`, `RemoveEntry`, `RemoveFile`), then clears both entries in
the same order. Saves are the steps of `Index`. `disturbed`, `contested` and `damaged` are
history variables.

Abstractions:
- A github write's first request, ensureRelease, may fail with the old asset in place
  (`DeleteOld`).
- Asset ids are drawn from the number of writes begun; a release, run or artifact made for an
  upload is part of the upload, which fails with or without having stored something.
- `Pick` and `Lookup` read the router's index and the backend's in one step. No other caller on
  the same chunk means no change between the two reads; with one, nothing is promised.
- GitHub refuses a second asset of one name; W&B and Telegram keep both.
- Backends have distinct names. With two of one type the router's `lookup` cannot tell
  them apart, see the hazard at multi.go:117.
- A local backend reports what its disk has, which may be more or less than any other's.
  An indexed one reports its limit less a megabyte for each entry.
- The rate limit only delays.

`BlobStore` has `blobs`, mapped to the chunks that can be read through both indexes, and the
calls. It promises nothing of a chunk while two calls on it overlap, and nothing at all once
`damaged`: a restart came while an index was suspect.

## 3. What TLC checks

| Run | Instance | States | Shows |
|---|---|---|---|
| `chunk_loop` | bytes {0,1}, ChunkSize 3, files up to 7 | 2,009 | the loops compute the closed forms; reading returns what was written |
| `data_path` | bytes {0,1}, ChunkSize 1, files up to 2, two files, one handle, one failure, one crash | 4.6 million | `RefCountCovers`, `FlushedDataInPlace`, `CollectionSparesMapped` |
| `data_path_history` | one byte, ChunkSize 2, files up to 3, two files, two handles, no failure | 1.7 million | `LossOnlyBySharing`, `LeakOnlyByRemoval`, `SizeAgrees` |
| `cache` | chunks of size 1 and 2, limit 2, channel 2, three failures, one crash, until both chunks were exposed | 4.3 million | `AccountingExact`, `WithinLimit`, `SleeperHasDrain`, `ReadableUnlessExposed`, `CloseDrains` |
| `cache_live` | chunks of size 1 and 2, limit 2, channel 1, three failures, one crash, no new call for an exposed chunk | 0.3 million | refinement of `ChunkStore`, `EveryChunkDrains`, `WriteUnblocks`, `MountReturns` |
| `namespace` | four inodes besides the root, two names, one failure or crash | 48,709 | `NlinkDrift`, `RenameKeepsSource`, `NamesFormTree`, refinement of `FileTree` |
| `store` | one backend of each type, two chunks, a writer and a deleter, two writes, two failures or crashes | 0.3 million | `FileHoldsIndex`, `OneCopy`, refinement of `BlobStore` |
| `sharing_loses_data` | two files of one byte, two handles, nothing fails | | violation of `FilesReadable` |
| `removal_leaks` | one file of one byte, nothing fails | | violation of `UnreferencedReclaimed` |
| `stale_reflush` | two files of one byte, two handles, nothing fails | | violation of `FsyncPersists` |
| `cache_unreadable` | as `cache`, nothing fails | trace of 19 states | violation of `AcceptedReadable` |
| `cache_blocks` | as `cache`, nothing fails | trace of 41 states | violation of `BackpressureEnds` |

The properties and the hazards they are for:
- `RefCountCovers`: a chunk in `file_chunks` has a record and its ref_count is at least its
  number of rows. The code decrements per old row and increments per new row, so a chunk that
  occurs twice, is kept over a rewrite or is shared must come out right, also after a failure.
- `FlushedDataInPlace`: the flush deletes old chunks, puts new ones and collects; from
  `setSize` on, the file maps the new data and all of it is in the backend.
- `CollectionSparesMapped`: no collection deletes a chunk that a file maps. The exceptions are
  written out: a file's own rewrite or truncation, and a put that fails or is cut off.
- `LossOnlyBySharing`, `LeakOnlyByRemoval`: the two ways the bookkeeping goes wrong are the only
  two. A loss needs a chunk that two files have mapped; a leak needs a removed file.
- `SizeAgrees`: with two handles and truncation by path in any order, `inodes.size` is
  the length of the file's chunks, and Getattr on an open handle agrees with what Read returns.
- `AccountingExact`, `WithinLimit`: `usedBytes` equals the bytes of whole files plus what is in
  flight (`Floating`), hence the directory keeps its limit.
- `SleeperHasDrain`: a Write that waits for space has somebody to wake it: the drain is at work
  or has work queued. This is the safety half of `WriteUnblocks`, and the one that can be proved.
  A third failure can leave a full cache with nothing queued, hence the condition.
- `ImplementsChunkStore`: of a chunk that was not exposed, a call that returned nil has done what
  it says, a failed delete has at most taken away, and no step of the drain, of recovery or of a
  crash makes a chunk appear or go. The mutant returns nil from a Delete that failed.
- `ReadableUnlessExposed`: at no step of the drain is there a moment without a whole copy, and
  a Read that has missed the file finds the blob.
- `CloseDrains`: when Close has returned, everything accepted is in the inner backend. This
  is so up to two failures; the third can be a drain's last attempt, which keeps the file and
  forgets the item, and the chunk then waits for the next start.
- `EveryChunkDrains`, `WriteUnblocks`, `MountReturns`: liveness, see below. A drain may fail twice
  and its third attempt stores the chunk; a third failure may give it up, with its bytes still
  counted and nothing queued until the next start (cache.go:174-177), so the first two claim
  nothing once three calls have failed. The mutant that gives up after the second attempt breaks
  `EveryChunkDrains`. A writer that is woken may find too little space and sleep again: the
  chunk of size 2 does, when the broadcast that wakes it is that of an earlier drain. `MountReturns` is
  conditional: recovery sends into the channel before the drain goroutine exists, so a
  directory with more files than `QueueCap` (256) blocks New for ever, in the model as in the
  code.
- `NlinkDrift`: nlink, with what the running handler still has to add, is the number of
  subdirectories, off by at most one for each statement that failed and each crash.
- `RenameKeepsSource`: a rename cut off anywhere has lost the target at most.
- `NamesFormTree`, `ImplementsFileTree`: names are unique, parents are directories, nothing is cut
  off from the root, and each statement changes one node. The mutant that drops the foreign key
  breaks it with a rename over a directory with children.
- `FileHoldsIndex`: when no change of an index is under way its file holds its entries, so that a
  restart loses and revives nothing, unless a Save failed or overlapped another and none has
  run by itself since.
- `OneCopy`: a chunk with no call on it has the copy that the two indexes lead to and no other,
  or none and no entry. The ways out are listed in `disturbed`: a call that failed, was cut off
  or met another on its chunk, a write to a backend that keeps the old copy or to another than
  before, and telegram's delete, which leaves the message.
- `ImplementsBlobStore`: see above. It includes that a crash loses no chunk but those with a
  call under way, as long as no index was suspect.

Bounds. `MaxLen`, `MaxFaults`, `MaxCrashes`, `MaxLeak` (no removal once a count exceeds its rows
by this much) and `MaxDebt` (no further delete once `usedBytes` is that far below zero) keep
the instances finite; each is a guard on the environment or on a failure and never on a
step the code takes by itself. Two files are enough for sharing, two handles for a stale buffer, a
ChunkSize of 1 with two bytes for repeated, kept and shared chunks, ChunkSize 2 with 3 bytes
for a short last chunk and a size that cuts a chunk. Two chunks of size 1 and 2 with limit 2
make a write wait for the other chunk's drain; a channel of 2 fills. Two failures are the most
that leave every item with an attempt, and a third makes attempts run out; one crash can come
anywhere, recovery included. `cache` stops where both chunks were exposed (`SomeUnexposed`): its
invariants but `TypeOK`, which is proved, say nothing from there on, and `exposed` only grows.
`cache_live` has a channel of 1, so that recovery can block. Its specification is `LiveSpec`: as `Spec`, but no call begins for a
chunk that was exposed. The first two liveness properties and the refinement claim nothing of
such a chunk, its file stays for recovery to meet, and what calls for it do to the rest of the
cache is in the run `cache` and in the theorems. The bound restricts no fair step, since nobody
has to call.
Four nodes and two names make a rename of a directory over another that has, or had, something in
it, and a chain of three below the root for loops. In `store`, two chunks let one call of each
kind run beside one on the other chunk; two writes are what it takes to rewrite a chunk, or to
move it to another backend; two failures are a save that fails and the restart that finds it.
The limits 2, 1 and 1 make the roomiest backend change as chunks come and go. The writer is the
cache's drain, the deleter a handler: without a cache all calls are serial, with one these are
the two goroutines that call the router. Symmetry is used for inodes, names, handles and chunks,
in runs without liveness.

Deadlock is not checked in the run of `Store`, where a mount refuses to start on a garbled index
and the bounded writes run out, nor in the runs of `Cache`, because the code really can stop there: a write
that waits for space nobody will give back, a recovery with more files than the channel holds,
and a last phase in which nothing has to be started again. What must not stop is said by the
liveness properties. The runs of `BumFS`,
`Namespace` and `ChunkLoop` check for deadlock.

Fairness. Only `Cache` has any: weak fairness of the steps of a call that is under way, of
the drain goroutine and of recovery. Each is a goroutine that the Go scheduler runs when it can
go on, and a call to a file or backend returns. Nobody has to start a call, close,
restart or crash. Failures are bounded by `MaxFaults`, which is what lets a chunk drain at last.

## 4. Where code and claims part

- `sharing_loses_data`: `writeFileData` and Truncate delete every old chunk of a file from the
  backend before asking whether another file maps it. The end-to-end test says that the second
  file reuses the chunks and that both read correctly (e2e_test.go:686, 692); it never rewrites
  one of them.
- `removal_leaks`: `RemoveNode` drops the `file_chunks` rows and leaves `ref_count`, so the
  collection that Unlink runs ("Clean up unreferenced chunks from backend", bumfs.go:484) finds
  nothing to collect.
- `stale_reflush`: a flushed handle stays dirty and puts its old buffer back at release, over
  what another handle has fsynced ("Fsync persists file data.", bumfs.go:632).
- `cache_unreadable`: drainOne removes the cache file by name. If the chunk was deleted and
  written again while its older copy was being drained, the new file goes and the inner copy is
  gone too (cache.go:111 says Read finds it in one of the two).
- `cache_blocks`: two Writes of one id before its drain add its size twice and give it back
  once; a later Write can wait for ever ("it doesn't deadlock", cache_test.go:169).

## 5. What is proved

All theorems hold for every value of the constants that the ASSUMEs allow: any finite set of
inodes or chunks, any number of handles, callers and backends, any names, chunk size, capacity,
limit and bound.

`Chunks_proofs` (from ChunkSize >= 1): `WriteFileType`, `RoundTrip`, by arithmetic on the
closed forms: byte n of the file is in chunk `(n-1) \div ChunkSize + 1`.

`ChunkLoop_proofs`: `LoopTypeCorrect`, `CutCorrect`, `ReadBackCorrect`, so that the closed forms
used everywhere else are those of the loops. `LoopInv` says that the chunks cut so far are the
first ones of the closed form, and that what has been read is the file up to the end of the last
chunk read. It makes the induction over the file one over the steps of the loop.

`BumFS_proofs`: `TypeCorrect`, `RefCountsCorrect`, `CollectionCorrect`, `FlushCorrect`,
`SizeCorrect`, `FlushReadsBack`. The inductive invariant is
`IInv == TypeInv /\ RefCountCovers /\ Progress`. `TypeInv` adds to
`TypeOK` the shape of the running operation. `RefCountCovers` is inductive given those, because
`SetFileChunks` takes off exactly the rows it removes (`RefsToRows`, on cardinalities). The
property of the flush is not inductive: `Progress` says at each pc what has been
done so far: while putting, what has been put is in the backend; after `setChunks`, the file
maps the data; while collecting, no chunk that is left to collect is mapped, which
follows from `RefCountCovers` when the list is read. `SizeCorrect` has an invariant of its own,
`SizeInv`: while nothing has failed, a size and a list agree except between the two statements
that set them, where the list is already the one that the size is about to follow; `RoundTrip`
closes the gap. `FlushReadsBack` puts `FlushCorrect` and `RoundTrip` together, for the code's own
way back: `loadFileData` fails at no chunk and returns the flushed bytes.

`BumFSHistory_proofs`: `LossCorrect`, `LeakCorrect`, `HistoryImplements`. The invariant is
`HistoryInv == IInv /\ InTwoFiles \subseteq shared /\ (Quiet => Trail(...))`. The two properties
speak of the time between handlers; `Trail` says where every chunk is inside one. `Kept`: every
file but the one being rewritten has its chunks, or shared them. `Cleared`: of the file being
rewritten the backend has nothing but what is still to be deleted or is in the new list, which
is why the collection at the end finds all that is left over. `Owned`: a chunk of the backend is
mapped, discarded or about to be mapped. `Gone`: a removed file maps nothing. `HistoryImplements`
carries the theorems about `BumFS` over.

`Cache_proofs`: `CacheTypeCorrect`, `ReadableCorrect`, `DrainCorrect`,
`AccountingCorrect`, `LimitKept`, `SleeperCorrect` and
`CacheImplementsChunkStore`. The invariant of the first three is
`CacheInv == Shape /\ drain.attempt <= faults /\ \A c \in Chunk \ exposed : Safe(c) /\ Single(c)`.
`Shape` ties pcs to phases. `Safe(c)` speaks of one chunk and has four parts: `NothingShort`
(no file or item of c is cut short but the file being written), `CallAlone` (a write or delete of c and
the drain never work on it together, and the file is what the call has made of it so far),
`CopyKept` (an accepted chunk has a whole copy; past the inner write the blob is whole),
and `OnItsWay` (what is accepted and not yet in the inner backend is queued, in the drain, or
in recovery's hands). None of them is inductive alone: removing the file is safe
because of `CopyKept`, and that the file removed is the one stored is `CallAlone`. `Single(c)`
says that at most one item of c is on its way and that its file is there as long as it is: a drain
attempt that fails or is cut off may lose the blob it replaces, and the file is then the copy.

The rest stands on it. `Accounts` says in every phase what `usedBytes` is made of: the
files recovery has come to, what the call has reserved or not yet given back, and what the drain
has removed and not yet given back. A sum over a set would need an induction, so `TotalSize`
counts the bytes one by one, as a cardinality: adding or removing a chunk is then a lemma on
disjoint sets. For `SleeperCorrect`, `FileOnItsWay` says that a whole file is pending, about to be
sent or removed, or in recovery's hands, and `Woken` that a sleeper either has no space yet or
the broadcast is still to come; with `Accounts`, a sleeper means a file, and a file means the
drain. In the refinement `Single` says that what the drain does behind the file cannot be seen. A second item for the same
chunk is what exposure is about. Crashes, restarts and recovery are `Restart`, `Skip` or `Behind`
because they touch no files, and no blob but that of a chunk whose file is there.

`Namespace_proofs`: `NamespaceTypeCorrect`, `NamesFormTreeCorrect`, `RenameKeepsSourceCorrect`,
`NamespaceRefinesTree`, `NlinkDriftCorrect`. What adding, removing and moving do to a tree is
proved once, about `FileTree`: that a move makes no loop needs that `Rooted` and `Within` speak
of sets of nodes, which avoids an induction over paths. The invariant
`SInv == TypeOK /\ Tree!IsTree /\ OpInv` adds what a rename knows between its statements: the node
it moves is still where it was, the place is free once cleared, and no loop can have come up,
because the handlers are serial. `NlinkDrift` is inductive with it (`DInv`): a statement that
works leaves `Off` as it is, one that fails changes it by at most one, at one directory.

`Index_proofs`: `FileHoldsIndexCorrect`, from `IndexInv`: a file that is not suspect differs from
the map only at keys whose change is under way, and a Save that met no other holds everything
but the changes that wait for their Marshal. Both are needed: a Save writes an old snapshot while
a new change is made, and it is the new change's own Save that makes up for it.

`Store_proofs`: `StoreTypeCorrect`, `StoreUsesIndexes`, `StoreFilesCorrect`,
`StoreRefinesBlobStore` and `OneCopyCorrect`. The first part shows that every step of `Store` is
a step of `Index` or leaves it alone, so that `IndexInv` holds in `Store` without another proof.
The refinement uses
`PInv == SInv /\ Meets /\ \A p : Promise(p)`. `Promise` says of a call that no other met what it
has achieved so far: after the upload the copy is there, after the backend's entry it can be
found, after the router's entry it can be read. It is kept by the steps of others because they
touch other chunks only (`Away`), and `Meets` is what makes two calls on one chunk both give up
their promise. That a crash loses nothing else is `FileHoldsIndex`, weakened to the keys under
way, applied to both indexes. `OneCopy` has an invariant of its own, `OInv`: a chunk with no call
on it has exactly the copy the indexes lead to, and one with a call the copies that the call has
made of it so far (`Placed`): none between the deletion of the old asset and the upload, one that
no index knows until the entry is set. Whatever leaves that path puts the chunk in `disturbed`.

Every invariant, action property and refinement that a passing run checks is also a theorem.
Only model-checked are the liveness
properties `EveryChunkDrains`, `WriteUnblocks` and `MountReturns`: fairness and ENABLED are
outside what the prover handles. `SleeperCorrect` is the part of `WriteUnblocks` that is a
safety property. The statements that the code does not keep (section 4) are refuted by
their runs; what holds in their place is proved: `LossCorrect` and `LeakCorrect` for the first
two, `ReadableCorrect` and `SleeperCorrect` for the cache.

## 6. What is not modelled

- Encryption and key derivation: pure functions of a library. The consequence of a key that
  changes between mounts is listed as a hazard (main.go:210).
- Configuration, the registry of backend types, flags and logging: fixed before the mount. What
  they decide are the constants.
- Times, modes and owners: Utimens, Chmod and Chown set columns that no other operation reads; Chmod keeps
  the type bits (bumfs.go:577).
- Statfs and the sums of Capacity: read by nothing else. HealthCheck: called by nothing in the program.
- The requests inside one upload (a GitHub release, W&B's run, artifact, manifest and commit): one
  step with three outcomes, since only the last of them makes a chunk readable.
- Rate limiting: a delay before a call that with context.Background cannot fail.
- Two backends of one name, and a chunk larger than the cache: excluded by `StoreAssumption` and
  `CacheAssumption`, listed as hazards.

What could follow: the composition of `Cache` with `Store` in one module, for blobs that outlive
their delete.
