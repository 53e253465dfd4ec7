------------------------- MODULE BumFSHistory_proofs ------------------------
(***************************************************************************)
(* What loses and what leaks a chunk while nothing fails, for any number   *)
(* of files and handles and any chunk size.                                *)
(***************************************************************************)
EXTENDS BumFSHistory, BumFS_proofs

\* From its first delete to its commit, an operation may have deleted chunks its
\* file still maps.
Rewriting == {"delOld", "put", "setChunks", "truncDel", "setEmpty"}

\* Every file but the one being rewritten has its chunks, or shared them.
Kept(o, fc, be, sh) ==
    \A i \in Ino : ~(o.ino = i /\ o.pc \in Rewriting) => Elems(fc[i]) \subseteq be \cup sh

\* Of the file being rewritten, the backend has no chunk but those still to be
\* deleted or those of the new list.
Cleared(o, fc, be) ==
    /\ o.pc \in {"delOld", "truncDel"} => Elems(fc[o.ino]) \cap be \subseteq Elems(o.todo)
    /\ o.pc \in {"put", "setChunks"} =>
          Elems(fc[o.ino]) \cap be \subseteq Elems(WriteFile(o.data))
    /\ o.pc = "setEmpty" => Elems(fc[o.ino]) \cap be = {}
    /\ o.pc = "put" => Elems(o.todo) \subseteq Elems(WriteFile(o.data))

\* Every chunk of the backend is mapped, discarded, or about to be mapped.
Owned(o, fc, be, nd, di) ==
    \A c \in be :
       \/ \E i \in Ino : c \in Elems(fc[i])
       \/ c \in di
       \/ o.pc \in {"put", "setChunks"} /\ o.ino \in nd /\ c \in Elems(WriteFile(o.data))

\* A removed file maps nothing.
Gone(o, fc, nd) ==
    /\ \A i \in Ino \ nd : fc[i] = <<>>
    /\ o.pc = "rmNode" => fc[o.ino] = <<>>

Trail(o, fc, be, nd, sh, di) ==
    /\ Kept(o, fc, be, sh)
    /\ Cleared(o, fc, be)
    /\ Owned(o, fc, be, nd, di)
    /\ Gone(o, fc, nd)

HistoryInv ==
    /\ IInv
    /\ InTwoFiles \subseteq shared
    /\ Quiet => Trail(op, fileChunks, backend, nodes, shared, discarded)

-----------------------------------------------------------------------------

LEMMA NoElems == Elems(<<>>) = {}
BY DEF Elems

\* More marks and more files explain as much.
LEMMA TrailGrows ==
    ASSUME NEW o, NEW fc, NEW be, NEW nd, NEW sh, NEW di, Trail(o, fc, be, nd, sh, di),
           NEW nd2, NEW sh2, NEW di2, nd \subseteq nd2, sh \subseteq sh2, di \subseteq di2
    PROVE  Trail(o, fc, be, nd2, sh2, di2)
<1>1. Kept(o, fc, be, sh2)  BY DEF Trail, Kept
<1>2. Owned(o, fc, be, nd2, di2)  BY DEF Trail, Owned
<1>3. Gone(o, fc, nd2)  BY DEF Trail, Gone
<1> QED  BY <1>1, <1>2, <1>3 DEF Trail

LEMMA PastLoopTrail ==
    ASSUME NEW o \in Operation, o.pc \in {"delOld", "put", "truncDel", "gcDel"},
           NEW fc, NEW be, NEW nd, NEW sh, NEW di, Trail(o, fc, be, nd, sh, di)
    PROVE  Trail(PastLoop(o), fc, be, nd, sh, di)
<1> USE NoElems
<1>1. CASE o.pc \in {"delOld", "truncDel"} /\ o.todo = <<>> /\ o.data = <<>>
  <2>1. PastLoop(o) = [o EXCEPT !.pc = "setEmpty"]  BY <1>1 DEF PastLoop
  <2> PICK e : e = [o EXCEPT !.pc = "setEmpty"]  OBVIOUS
  <2>2. e.pc = "setEmpty" /\ e.ino = o.ino  BY DEF Operation
  <2>3. Trail(e, fc, be, nd, sh, di)
    BY <1>1, <2>2 DEF Trail, Kept, Cleared, Owned, Gone, Rewriting
  <2> QED  BY <2>1, <2>3
<1>2. CASE o.pc = "delOld" /\ o.todo = <<>> /\ o.data # <<>>
  <2>1. PastLoop(o) = [o EXCEPT !.pc = "put", !.todo = WriteFile(o.data)]
    BY <1>2 DEF PastLoop
  <2> PICK e : e = [o EXCEPT !.pc = "put", !.todo = WriteFile(o.data)]  OBVIOUS
  <2>2. e.pc = "put" /\ e.ino = o.ino /\ e.data = o.data /\ e.todo = WriteFile(o.data)
    BY DEF Operation
  <2>3. Trail(e, fc, be, nd, sh, di)
    BY <1>2, <2>2 DEF Trail, Kept, Cleared, Owned, Gone, Rewriting
  <2> QED  BY <2>1, <2>3
<1>3. CASE o.pc = "put" /\ o.todo = <<>>
  <2>1. PastLoop(o) = [o EXCEPT !.pc = "setChunks"]  BY <1>3 DEF PastLoop
  <2> PICK e : e = [o EXCEPT !.pc = "setChunks"]  OBVIOUS
  <2>2. e.pc = "setChunks" /\ e.ino = o.ino /\ e.data = o.data  BY DEF Operation
  <2>3. Trail(e, fc, be, nd, sh, di)
    BY <1>3, <2>2 DEF Trail, Kept, Cleared, Owned, Gone, Rewriting
  <2> QED  BY <2>1, <2>3
<1>4. CASE o.pc = "gcDel" /\ o.gc = {}
  <2>1. PastLoop(o) = NoOp /\ NoOp.pc = "idle"  BY <1>4 DEF PastLoop, NoOp
  <2>2. Trail(NoOp, fc, be, nd, sh, di)
    BY <1>4, <2>1 DEF Trail, Kept, Cleared, Owned, Gone, Rewriting
  <2> QED  BY <2>1, <2>2
<1>5. CASE ~ \/ o.pc \in {"delOld", "truncDel"} /\ o.todo = <<>> /\ o.data = <<>>
             \/ o.pc = "delOld" /\ o.todo = <<>> /\ o.data # <<>>
             \/ o.pc = "put" /\ o.todo = <<>>
             \/ o.pc = "gcDel" /\ o.gc = {}
  BY <1>5 DEF PastLoop
<1> QED  BY <1>1, <1>2, <1>3, <1>4, <1>5

-----------------------------------------------------------------------------
(* The handlers' beginnings *)

\* With no operation under way, one that deletes a whole list may begin, and so may
\* one that only removes.
LEMMA TrailBegins ==
    ASSUME NEW fc, NEW be, NEW nd, NEW sh, NEW di, NEW o, o.pc = "idle",
           Trail(o, fc, be, nd, sh, di),
           NEW e, \/ e.pc \in {"delOld", "truncDel"} /\ e.todo = fc[e.ino]
                  \/ e.pc \in {"idle", "rmChunks"}
    PROVE  Trail(e, fc, be, nd, sh, di)
BY DEF Trail, Kept, Cleared, Owned, Gone, Rewriting

LEMMA FlushBegins ==
    ASSUME TypeInv, NEW i \in Ino, NEW data \in Seq(Byte), WriteFileData(i, data), ~Fails, Idle,
           NEW nd, NEW sh, NEW di, Trail(op, fileChunks, backend, nd, sh, di)
    PROVE  Trail(op', fileChunks, backend, nd, sh, di)
<1> DEFINE start == [NoOp EXCEPT !.pc = "delOld", !.ino = i, !.data = data]
           walk == [start EXCEPT !.todo = fileChunks[i]]
<1>1. /\ walk \in Operation /\ walk.pc = "delOld"
      /\ walk.ino = i /\ walk.todo = fileChunks[i]
  BY NoOpType DEF Operation, NoOp, TypeInv, TypeOK
<1>2. op' = PastLoop(walk)
  BY DEF WriteFileData, Continue
<1> HIDE DEF walk
<1>3. Trail(walk, fileChunks, backend, nd, sh, di)
  BY <1>1, TrailBegins DEF Idle
<1> QED  BY <1>1, <1>2, <1>3, PastLoopTrail

LEMMA HandlerTrail ==
    ASSUME TypeInv, Handlers, ~Fails,
           NEW sh, NEW di, Trail(op, fileChunks, backend, nodes, sh, di)
    PROVE  Trail(op', fileChunks', backend', nodes', sh, di)
<1> USE DEF meta
<1>1. op.pc = "idle" /\ UNCHANGED <<fileChunks, backend>> /\ nodes \subseteq nodes'
  BY DEF Handlers, Create, Open, Mknod, TruncateToZero, TruncatePath, Unlink, RenameOver,
         Write, TruncateHandle, Flush, Release, Idle
<1> SUFFICES Trail(op', fileChunks, backend, nodes, sh, di)
  BY <1>1, TrailGrows
<1>2. CASE UNCHANGED op
  BY <1>2
<1>3. ASSUME NEW i \in Ino, TruncateToZero(i)
      PROVE  Trail(op', fileChunks, backend, nodes, sh, di)
  <2> DEFINE walk == [NoOp EXCEPT !.pc = "truncDel", !.ino = i, !.todo = fileChunks[i]]
  <2>1. /\ walk \in Operation /\ walk.pc = "truncDel"
        /\ walk.ino = i /\ walk.todo = fileChunks[i]
    BY NoOpType DEF Operation, NoOp, TypeInv, TypeOK
  <2>2. op' = PastLoop(walk)
    BY <1>3 DEF TruncateToZero, Continue
  <2> HIDE DEF walk
  <2>3. Trail(walk, fileChunks, backend, nodes, sh, di)
    BY <1>1, <2>1, TrailBegins
  <2> QED  BY <2>1, <2>2, <2>3, PastLoopTrail
<1>4. ASSUME NEW i \in Ino, TruncatePath(i)
      PROVE  Trail(op', fileChunks, backend, nodes, sh, di)
  <2>1. PICK n \in 1..MaxLen : WriteFileData(i, Resize(LoadFileData(i), n))
    BY <1>4 DEF TruncatePath
  <2>2. Resize(LoadFileData(i), n) \in Seq(Byte)
    BY LoadFileDataType, ResizeType, BumFSAssumption
  <2> QED  BY <1>1, <2>1, <2>2, FlushBegins DEF Idle
<1>5. ASSUME NEW i \in Ino, Unlink(i) \/ RenameOver(i)
      PROVE  Trail(op', fileChunks, backend, nodes, sh, di)
  <2>1. PICK then \in {"idle", "gcList"} :
          op' = [NoOp EXCEPT !.pc = "rmChunks", !.ino = i, !.then = then]
    BY <1>5 DEF Unlink, RenameOver, RemoveNode
  <2>2. op'.pc = "rmChunks"  BY <2>1 DEF NoOp
  <2> QED  BY <1>1, <2>2, TrailBegins
<1>6. ASSUME NEW f \in Fh, Flush(f)
      PROVE  Trail(op', fileChunks, backend, nodes, sh, di)
  <2>1. handles[f].ino \in Ino /\ handles[f].buf \in Seq(Byte)
    BY <1>6, BufferedType DEF Flush, Handle
  <2>2. WriteFileData(handles[f].ino, handles[f].buf)  BY <1>6 DEF Flush
  <2> QED  BY <1>1, <2>1, <2>2, FlushBegins DEF Idle
<1>7. ASSUME NEW f \in Fh, Release(f), ~UNCHANGED op
      PROVE  Trail(op', fileChunks, backend, nodes, sh, di)
  <2>1. handles[f].ino \in Ino /\ handles[f].buf \in Seq(Byte)
    BY <1>7, BufferedType DEF Release, Handle
  <2>2. WriteFileData(handles[f].ino, handles[f].buf)  BY <1>7 DEF Release
  <2> QED  BY <1>1, <2>1, <2>2, FlushBegins DEF Idle
<1> QED
  BY <1>2, <1>3, <1>4, <1>5, <1>6, <1>7
  DEF Handlers, Create, Open, Mknod, Write, TruncateHandle

-----------------------------------------------------------------------------
(* The steps of an operation *)

\* A chunk of the file being rewritten is deleted: another file that maps it shares it.
LEMMA DeleteTrail ==
    ASSUME IInv, InTwoFiles \subseteq shared, op.pc \in {"delOld", "truncDel"},
           Trail(op, fileChunks, backend, nodes, shared, discarded),
           backend' = backend \ {Head(op.todo)}, Continue([op EXCEPT !.todo = Tail(@)])
    PROVE  Trail(op', fileChunks, backend', nodes, shared, discarded)
<1> DEFINE o == [op EXCEPT !.todo = Tail(@)]
<1> PICK h : h = Head(op.todo)  OBVIOUS
<1> PICK be : be = backend \ {h}  OBVIOUS
<1>1. /\ op \in Operation /\ op.todo \in Seq(ChunkID) /\ op.todo # <<>> /\ op.ino \in Ino
      /\ Elems(op.todo) \subseteq Elems(fileChunks[op.ino])
  BY DEF IInv, TypeInv, TypeOK, Shape, Progress, Operation
<1>2. Elems(op.todo) = {h} \cup Elems(Tail(op.todo)) /\ h \in ChunkID
      /\ Tail(op.todo) \in Seq(ChunkID)
  BY <1>1, ElemsHeadTail, HeadTailProperties
<1>3. /\ o \in Operation /\ o.pc = op.pc /\ o.ino = op.ino /\ o.todo = Tail(op.todo)
  BY <1>1, <1>2 DEF Operation
<1>4. op' = PastLoop(o)  BY DEF Continue
<1> HIDE DEF o
<1>5. Kept(o, fileChunks, be, shared)
  <2> SUFFICES ASSUME NEW i \in Ino, i # op.ino, NEW c \in Elems(fileChunks[i])
               PROVE  c \in be \cup shared
    BY <1>3 DEF Kept, Rewriting
  <2>1. c \in backend \cup shared  BY DEF Trail, Kept
  <2>2. c = h => c \in InTwoFiles  BY <1>1, <1>2 DEF InTwoFiles
  <2> QED  BY <2>1, <2>2
<1>6. Cleared(o, fileChunks, be)
  BY <1>2, <1>3 DEF Trail, Cleared
<1>7. Owned(o, fileChunks, be, nodes, discarded)
  BY DEF Trail, Owned
<1>8. Gone(o, fileChunks, nodes)
  BY <1>3 DEF Trail, Gone
<1>9. Trail(o, fileChunks, be, nodes, shared, discarded)
  BY <1>5, <1>6, <1>7, <1>8 DEF Trail
<1> QED  BY <1>3, <1>4, <1>9, PastLoopTrail

\* A chunk is put: it is one of the list about to be mapped, or its file is gone.
LEMMA PutTrail ==
    ASSUME IInv, op.pc = "put", NEW di, Discards \subseteq di, discarded \subseteq di,
           Trail(op, fileChunks, backend, nodes, shared, discarded),
           backend' = backend \cup {Head(op.todo)}, Continue([op EXCEPT !.todo = Tail(@)])
    PROVE  Trail(op', fileChunks, backend', nodes, shared, di)
<1> DEFINE o == [op EXCEPT !.todo = Tail(@)]
<1> PICK h : h = Head(op.todo)  OBVIOUS
<1> PICK be : be = backend \cup {h}  OBVIOUS
<1>1. /\ op \in Operation /\ op.todo \in Seq(ChunkID) /\ op.todo # <<>> /\ op.ino \in Ino
  BY DEF IInv, TypeInv, TypeOK, Shape, Operation
<1>2. Elems(op.todo) = {h} \cup Elems(Tail(op.todo)) /\ Tail(op.todo) \in Seq(ChunkID)
  BY <1>1, ElemsHeadTail, HeadTailProperties
<1>3. /\ o \in Operation /\ o.pc = "put" /\ o.ino = op.ino /\ o.todo = Tail(op.todo)
      /\ o.data = op.data
  BY <1>1, <1>2 DEF Operation
<1>4. op' = PastLoop(o)  BY DEF Continue
<1> HIDE DEF o
<1>5. h \in Elems(WriteFile(op.data))  BY <1>2 DEF Trail, Cleared
<1>6. Kept(o, fileChunks, be, shared)
  BY <1>3 DEF Trail, Kept
<1>7. Cleared(o, fileChunks, be)
  BY <1>2, <1>3, <1>5 DEF Trail, Cleared
<1>8. op.ino \notin nodes => h \in di
  BY DEF Discards
<1>9. Owned(o, fileChunks, be, nodes, di)
  BY <1>3, <1>5, <1>8 DEF Trail, Owned
<1>10. Gone(o, fileChunks, nodes)
  BY <1>3 DEF Trail, Gone
<1>11. Trail(o, fileChunks, be, nodes, shared, di)
  BY <1>6, <1>7, <1>9, <1>10 DEF Trail
<1> QED  BY <1>3, <1>4, <1>11, PastLoopTrail

\* The new list is committed: all of it is in the backend, and of the old list only
\* what the new one has too.
LEMMA CommitTrail ==
    ASSUME IInv, op.pc = "setChunks",
           Trail(op, fileChunks, backend, nodes, shared, discarded),
           NEW fc, op.ino \in nodes,
           fc = [fileChunks EXCEPT ![op.ino] = WriteFile(op.data)],
           NEW o, o.pc = "setSize"
    PROVE  Trail(o, fc, backend, nodes, shared, discarded)
<1> PICK new : new = WriteFile(op.data)  OBVIOUS
<1>1. /\ fileChunks \in [Ino -> Seq(ChunkID)] /\ op.ino \in Ino
      /\ Elems(new) \subseteq backend
  BY DEF IInv, TypeInv, TypeOK, Shape, Progress
<1>2. \A i \in Ino : fc[i] = IF i = op.ino THEN new ELSE fileChunks[i]
  BY <1>1
<1>3. Kept(o, fc, backend, shared)
  BY <1>1, <1>2 DEF Trail, Kept
<1>4. Cleared(o, fc, backend)  BY DEF Cleared
<1>5. Owned(o, fc, backend, nodes, discarded)
  <2> SUFFICES ASSUME NEW c \in backend, c \notin discarded
               PROVE  \E i \in Ino : c \in Elems(fc[i])
    BY DEF Owned
  <2>1. CASE c \in Elems(new)  BY <1>1, <1>2, <2>1
  <2>2. CASE c \notin Elems(new)
    <3>1. PICK i \in Ino : c \in Elems(fileChunks[i])  BY <2>2 DEF Trail, Owned
    <3>2. i # op.ino  BY <2>2, <3>1 DEF Trail, Cleared
    <3> QED  BY <1>2, <3>1, <3>2
  <2> QED  BY <2>1, <2>2
<1>6. Gone(o, fc, nodes)
  BY <1>1, <1>2 DEF Trail, Gone
<1> QED  BY <1>3, <1>4, <1>5, <1>6 DEF Trail

\* A list is emptied: the backend has none of its chunks any more, or they are
\* discarded.
LEMMA EmptyTrail ==
    ASSUME IInv, op.pc \in {"setEmpty", "rmChunks"}, NEW di, Discards \subseteq di,
           discarded \subseteq di,
           Trail(op, fileChunks, backend, nodes, shared, discarded),
           NEW fc, \A i \in Ino : fc[i] = IF i = op.ino THEN <<>> ELSE fileChunks[i],
           NEW o, o.pc = "sizeZero" \/ o.pc = "rmNode", o.ino = op.ino
    PROVE  Trail(o, fc, backend, nodes, shared, di)
<1>1. fileChunks \in [Ino -> Seq(ChunkID)] /\ op.ino \in Ino
  BY DEF IInv, TypeInv, TypeOK, Shape
<1>2. \A i \in Ino : fc[i] = IF i = op.ino THEN <<>> ELSE fileChunks[i]
  OBVIOUS
<1>3. Kept(o, fc, backend, shared)
  BY <1>1, <1>2, NoElems DEF Trail, Kept
<1>4. Cleared(o, fc, backend)  BY DEF Cleared
<1>5. Owned(o, fc, backend, nodes, di)
  <2> SUFFICES ASSUME NEW c \in backend, c \notin di
               PROVE  \E i \in Ino : c \in Elems(fc[i])
    BY DEF Owned
  <2>1. PICK i \in Ino : c \in Elems(fileChunks[i])  BY DEF Trail, Owned
  <2>2. i # op.ino  BY <2>1 DEF Trail, Cleared, Discards
  <2> QED  BY <1>2, <2>1, <2>2
<1>6. Gone(o, fc, nodes)
  BY <1>1, <1>2 DEF Trail, Gone
<1> QED  BY <1>3, <1>4, <1>5, <1>6 DEF Trail

\* A collection takes no chunk that a file maps.
LEMMA CollectTrail ==
    ASSUME IInv, op.pc = "gcDel", NEW c \in op.gc,
           Trail(op, fileChunks, backend, nodes, shared, discarded),
           NEW be, be = backend \ {c}, NEW o, o.pc = "gcRec"
    PROVE  Trail(o, fileChunks, be, nodes, shared, discarded)
<1>1. \A i \in Ino : c \notin Elems(fileChunks[i])
  BY DEF IInv, Progress
<1> QED  BY <1>1 DEF Trail, Kept, Cleared, Owned, Gone, Rewriting

\* A step that changes neither the lists nor the backend, at a point where the file
\* of the operation is not being rewritten.
LEMMA QuietTrail ==
    ASSUME NEW o, NEW fc, NEW be, NEW nd, NEW sh, NEW di, Trail(o, fc, be, nd, sh, di),
           o.pc \notin Rewriting,
           NEW e, e.pc \notin Rewriting \cup {"rmNode"}
    PROVE  Trail(e, fc, be, nd, sh, di)
BY DEF Trail, Kept, Cleared, Owned, Gone, Rewriting

\* The steps of an operation, none of which fails, with what they discard.
LEMMA StepsTrail ==
    ASSUME IInv, InTwoFiles \subseteq shared, Steps, ~Fails,
           Trail(op, fileChunks, backend, nodes, shared, discarded),
           NEW di, di = discarded \cup Discards
    PROVE  Trail(op', fileChunks', backend', nodes', shared, di)
<1> USE DEF meta
<1>0. /\ TypeInv /\ op \in Operation /\ fileChunks \in [Ino -> Seq(ChunkID)]
      /\ op.pc # "idle" => op.ino \in Ino
      /\ discarded \subseteq di /\ Discards \subseteq di
      /\ Trail(op, fileChunks, backend, nodes, shared, di)
  <2>1. nodes \subseteq nodes /\ shared \subseteq shared /\ discarded \subseteq di  OBVIOUS
  <2> QED  BY <2>1, TrailGrows DEF IInv, TypeInv, TypeOK, Shape
<1>1. NoOp.pc = "idle" /\ "idle" \notin Rewriting \cup {"rmNode"}
  BY DEF NoOp, Rewriting
<1>2. ASSUME Trail(op', fileChunks', backend', nodes', shared, discarded)
      PROVE  Trail(op', fileChunks', backend', nodes', shared, di)
  <2>1. nodes' \subseteq nodes' /\ shared \subseteq shared  OBVIOUS
  <2> QED  BY <1>0, <1>2, <2>1, TrailGrows
<1>3. CASE DeleteOld
  BY <1>2, <1>3, DeleteTrail DEF DeleteOld
<1>4. CASE TruncateDelete
  BY <1>2, <1>4, DeleteTrail DEF TruncateDelete
<1>5. CASE PutChunk
  BY <1>0, <1>5, PutTrail DEF PutChunk
<1>6. CASE CommitChunks
  <2>1. CASE op.ino \in nodes
    <3>1. /\ fileChunks' = [fileChunks EXCEPT ![op.ino] = WriteFile(op.data)]
          /\ Goto("setSize") /\ UNCHANGED <<backend, nodes>> /\ op.pc = "setChunks"
      BY <1>6, <2>1 DEF CommitChunks, SetFileChunks
    <3>2. op'.pc = "setSize"  BY <1>0, <3>1 DEF Goto, Operation
    <3>3. Trail(op', fileChunks', backend, nodes, shared, discarded)
      BY <2>1, <3>1, <3>2, CommitTrail
    <3> QED  BY <1>2, <3>1, <3>3
  <2>2. CASE op.ino \notin nodes
    <3>1. /\ op' = NoOp /\ UNCHANGED <<fileChunks, backend, nodes>> /\ op.pc = "setChunks"
      BY <1>6, <2>2 DEF CommitChunks, Return
    <3>2. fileChunks[op.ino] = <<>>
      BY <1>0, <2>2, <3>1 DEF Trail, Gone
    <3>3. Kept(NoOp, fileChunks, backend, shared)
      BY <3>2, NoElems DEF Trail, Kept
    <3>4. Cleared(NoOp, fileChunks, backend) /\ Gone(NoOp, fileChunks, nodes)
      BY <1>1 DEF Trail, Cleared, Gone
    <3>5. Owned(NoOp, fileChunks, backend, nodes, discarded)
      BY <2>2 DEF Trail, Owned
    <3> QED  BY <1>2, <3>1, <3>3, <3>4, <3>5 DEF Trail
  <2> QED  BY <2>1, <2>2
<1>7. CASE SetSize
  <2>1. /\ Goto("gcList") /\ op.pc = "setSize" /\ UNCHANGED <<fileChunks, backend, nodes>>
    BY <1>7 DEF SetSize
  <2>2. op'.pc = "gcList"  BY <1>0, <2>1 DEF Goto, Operation
  <2> QED  BY <1>2, <2>1, <2>2, QuietTrail DEF Rewriting
<1>8. CASE SetEmpty
  <2>1. /\ fileChunks' = [fileChunks EXCEPT ![op.ino] = <<>>] /\ op.pc = "setEmpty"
        /\ Goto("sizeZero") /\ UNCHANGED <<backend, nodes>>
    BY <1>8 DEF SetEmpty, SetFileChunks
  <2>2. op'.pc = "sizeZero" /\ op'.ino = op.ino  BY <1>0, <2>1 DEF Goto, Operation
  <2> PICK fc : fc = fileChunks'  OBVIOUS
  <2> PICK o : o = op'  OBVIOUS
  <2>3. /\ op.pc \in {"setEmpty", "rmChunks"} /\ o.ino = op.ino
        /\ o.pc = "sizeZero" \/ o.pc = "rmNode"
        /\ \A i \in Ino : fc[i] = IF i = op.ino THEN <<>> ELSE fileChunks[i]
    BY <1>0, <2>1, <2>2
  <2>4. Discards \subseteq di /\ discarded \subseteq di  BY <1>0
  <2>5. Trail(o, fc, backend, nodes, shared, di)
    BY <2>3, <2>4, EmptyTrail
  <2> QED  BY <2>1, <2>5
<1>9. CASE SizeZero
  <2>1. /\ op' = NoOp /\ op.pc = "sizeZero" /\ UNCHANGED <<fileChunks, backend, nodes>>
    BY <1>9 DEF SizeZero, Return
  <2> QED  BY <1>1, <1>2, <2>1, QuietTrail DEF Rewriting
<1>10. CASE GetUnreferencedChunks
  <2> DEFINE o == [op EXCEPT !.pc = "gcDel", !.gc = {c \in records : refCount[c] <= 0}]
  <2>1. /\ Continue(o) /\ op.pc = "gcList" /\ UNCHANGED <<fileChunks, backend, nodes>>
    BY <1>10 DEF GetUnreferencedChunks
  <2>2. o \in Operation /\ o.pc = "gcDel"
    BY <1>0 DEF Operation, TypeInv, TypeOK
  <2>3. op' = PastLoop(o)  BY <2>1 DEF Continue
  <2> HIDE DEF o
  <2>4. Trail(o, fileChunks, backend, nodes, shared, discarded)
    BY <2>1, <2>2, QuietTrail DEF Rewriting
  <2> QED  BY <1>2, <2>1, <2>2, <2>3, <2>4, PastLoopTrail
<1>11. CASE CollectBlob
  <2>1. PICK c \in op.gc :
           backend' = backend \ {c} /\ op' = [op EXCEPT !.pc = "gcRec", !.todo = <<c>>]
    BY <1>11 DEF CollectBlob
  <2>2. op'.pc = "gcRec" /\ op.pc = "gcDel" /\ UNCHANGED <<fileChunks, nodes>>
    BY <1>0, <1>11, <2>1 DEF CollectBlob, Operation
  <2> QED  BY <1>2, <2>1, <2>2, CollectTrail
<1>12. CASE CollectRecord
  <2> DEFINE o == [op EXCEPT !.pc = "gcDel", !.todo = <<>>, !.gc = @ \ {Head(op.todo)}]
  <2>1. /\ Continue(o) /\ op.pc = "gcRec" /\ UNCHANGED <<fileChunks, backend, nodes>>
    BY <1>12 DEF CollectRecord
  <2>2. o \in Operation /\ o.pc = "gcDel"
    BY <1>0, EmptySeq DEF Operation
  <2>3. op' = PastLoop(o)  BY <2>1 DEF Continue
  <2> HIDE DEF o
  <2>4. Trail(o, fileChunks, backend, nodes, shared, discarded)
    BY <2>1, <2>2, QuietTrail DEF Rewriting
  <2> QED  BY <1>2, <2>1, <2>2, <2>3, <2>4, PastLoopTrail
<1>13. CASE RemoveFileChunks
  <2>1. /\ fileChunks' = [fileChunks EXCEPT ![op.ino] = <<>>] /\ op.pc = "rmChunks"
        /\ Goto("rmNode") /\ UNCHANGED <<backend, nodes>>
    BY <1>13 DEF RemoveFileChunks
  <2>2. op'.pc = "rmNode" /\ op'.ino = op.ino  BY <1>0, <2>1 DEF Goto, Operation
  <2> PICK fc : fc = fileChunks'  OBVIOUS
  <2> PICK o : o = op'  OBVIOUS
  <2>3. /\ op.pc \in {"setEmpty", "rmChunks"} /\ o.ino = op.ino
        /\ o.pc = "sizeZero" \/ o.pc = "rmNode"
        /\ \A i \in Ino : fc[i] = IF i = op.ino THEN <<>> ELSE fileChunks[i]
    BY <1>0, <2>1, <2>2
  <2>4. Discards \subseteq di /\ discarded \subseteq di  BY <1>0
  <2>5. Trail(o, fc, backend, nodes, shared, di)
    BY <2>3, <2>4, EmptyTrail
  <2> QED  BY <2>1, <2>5
<1>14. CASE RemoveInode
  <2>1. /\ op.pc = "rmNode" /\ nodes' = nodes \ {op.ino} /\ UNCHANGED <<fileChunks, backend>>
        /\ IF op.then = "idle" THEN Return ELSE Goto(op.then)
    BY <1>14 DEF RemoveInode
  <2>2. op'.pc \in {"idle", "gcList"}
    BY <1>0, <1>1, <2>1 DEF Return, Goto, Operation
  <2>3. fileChunks[op.ino] = <<>>  BY <2>1 DEF Trail, Gone
  <2>4. Kept(op', fileChunks, backend, shared) /\ Cleared(op', fileChunks, backend)
    BY <2>1, <2>2 DEF Trail, Kept, Cleared, Rewriting
  <2>5. Owned(op', fileChunks, backend, nodes', discarded)
    BY <2>1 DEF Trail, Owned
  <2>6. Gone(op', fileChunks, nodes')
    BY <2>1, <2>2, <2>3 DEF Trail, Gone
  <2> QED  BY <1>2, <2>1, <2>4, <2>5, <2>6 DEF Trail
<1> QED
  BY <1>3, <1>4, <1>5, <1>6, <1>7, <1>8, <1>9, <1>10, <1>11, <1>12, <1>13, <1>14 DEF Steps

-----------------------------------------------------------------------------

LEMMA HistoryStep == HistoryInv /\ [HNext]_hvars => HistoryInv'
<1> SUFFICES ASSUME HistoryInv, [HNext]_hvars PROVE HistoryInv'
  OBVIOUS
<1>1. IInv /\ [Next]_vars  BY DEF HistoryInv, HNext, hvars
<1>2. IInv'  BY <1>1, Step
<1>3. CASE UNCHANGED hvars
  BY <1>2, <1>3 DEF HistoryInv, hvars, vars, meta, InTwoFiles, Quiet
<1>4. CASE HNext
  <2>1. shared' = shared \cup InTwoFiles' /\ discarded' = discarded \cup Discards /\ Next
    BY <1>4 DEF HNext
  <2> SUFFICES ASSUME Quiet'
               PROVE  Trail(op', fileChunks', backend', nodes', shared', discarded')
    BY <1>2, <2>1 DEF HistoryInv
  <2>2. /\ faults \in Nat /\ crashes \in Nat /\ faults' = 0 /\ crashes' = 0
    BY <1>1, BumFSAssumption DEF IInv, TypeInv, TypeOK, Quiet
  <2>3. ~Fails /\ ~Crash  BY <2>2 DEF Fails, Crash
  <2>4. Quiet
    <3>1. CASE Handlers
      BY <2>2, <2>3, <3>1
      DEF Handlers, Create, Open, Mknod, TruncateToZero, TruncatePath, Unlink, RenameOver,
          Write, TruncateHandle, Flush, Release, WriteFileData, Works, Quiet
    <3>2. CASE Steps
      BY <2>2, <2>3, <3>2
      DEF Steps, DeleteOld, PutChunk, CommitChunks, SetSize, SetEmpty, SizeZero,
          GetUnreferencedChunks, CollectBlob, CollectRecord, TruncateDelete,
          RemoveFileChunks, RemoveInode, Works, Quiet
    <3> QED  BY <2>1, <2>3, <3>1, <3>2 DEF Next
  <2>5. /\ Trail(op, fileChunks, backend, nodes, shared, discarded)
        /\ InTwoFiles \subseteq shared
    BY <2>4 DEF HistoryInv
  <2>6. Trail(op', fileChunks', backend', nodes', shared, discarded')
    <3>1. CASE Handlers
      <4>1. nodes \subseteq nodes /\ shared \subseteq shared /\ discarded \subseteq discarded'
        BY <2>1
      <4>2. Trail(op, fileChunks, backend, nodes, shared, discarded')
        BY <2>5, <4>1, TrailGrows
      <4> QED  BY <1>1, <2>3, <3>1, <4>2, HandlerTrail DEF IInv
    <3>2. CASE Steps
      BY <1>1, <2>1, <2>3, <2>5, <3>2, StepsTrail
    <3> QED  BY <2>1, <2>3, <3>1, <3>2 DEF Next
  <2>7. nodes' \subseteq nodes' /\ shared \subseteq shared' /\ discarded' \subseteq discarded'
    BY <2>1
  <2> QED  BY <2>6, <2>7, TrailGrows
<1> QED  BY <1>3, <1>4

LEMMA HistoryBegins == HInit => HistoryInv
<1> SUFFICES ASSUME HInit PROVE HistoryInv
  OBVIOUS
<1>1. IInv  BY InitInv DEF HInit
<1>2. \A i \in Ino : fileChunks[i] = <<>>  BY DEF HInit, Init
<1>3. op.pc = "idle" /\ backend = {}  BY DEF HInit, Init, NoOp
<1>4. InTwoFiles = {}  BY <1>2, NoElems DEF InTwoFiles
<1>5. Trail(op, fileChunks, backend, nodes, shared, discarded)
  BY <1>2, <1>3, NoElems DEF Trail, Kept, Cleared, Owned, Gone
<1> QED  BY <1>1, <1>4, <1>5 DEF HistoryInv

LEMMA HistoryInvariance == HSpec => []HistoryInv
BY HistoryBegins, HistoryStep, PTL DEF HSpec

\* While no call fails and the process does not crash, a file can lack a chunk only
\* where it shared that chunk with a second file, whose rewrite or truncation deleted
\* it (bumfs.go:652-657, 428).
THEOREM LossCorrect == HSpec => []LossOnlyBySharing
<1>1. HistoryInv => LossOnlyBySharing
  BY DEF HistoryInv, Quiet, Undisturbed, Idle, Trail, Kept, Rewriting, LossOnlyBySharing,
         IInv, TypeInv, TypeOK
<1> QED  BY <1>1, HistoryInvariance, PTL

\* While no call fails and the process does not crash, the backend keeps a chunk that
\* no file maps only when it was one of a removed file (RemoveNode leaves ref_count,
\* meta.go) or was put for one (bumfs.go:659-673).
THEOREM LeakCorrect == HSpec => []LeakOnlyByRemoval
<1>1. HistoryInv => LeakOnlyByRemoval
  BY DEF HistoryInv, Quiet, Undisturbed, Idle, Trail, Owned, Mapped, LeakOnlyByRemoval
<1> QED  BY <1>1, HistoryInvariance, PTL

\* The memory only watches: every behaviour of HSpec is one of BumFS, so all that is
\* proved of Spec holds of it.
THEOREM HistoryImplements == HSpec => Spec
<1>1. HInit => Init  BY DEF HInit
<1>2. [HNext]_hvars => [Next]_vars  BY DEF HNext, hvars
<1> QED  BY <1>1, <1>2, PTL DEF HSpec, Spec

=============================================================================
