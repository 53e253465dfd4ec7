---------------------------- MODULE BumFS_proofs ----------------------------
(***************************************************************************)
(* The reference counts and the collection of BumFS, for any number of     *)
(* files and handles, any chunk size, and any failures and crashes.        *)
(***************************************************************************)
EXTENDS BumFS, Chunks_proofs, FiniteSetTheorems, FunctionTheorems

-----------------------------------------------------------------------------
(* Types *)

\* What an operation's place in the handler says of its other fields.
Shape(o) ==
    /\ o.pc # "idle" => o.ino \in Ino
    /\ o.pc \in {"delOld", "put", "truncDel", "gcRec"} => o.todo # <<>>
    /\ o.pc \in {"put", "setChunks", "setSize"} => o.data # <<>>
    /\ o.pc \in {"truncDel", "setEmpty", "rmChunks", "rmNode"} => o.data = <<>>

\* Types, with what they rest on: the chunk lists are such that ReadFile's
\* closed form applies to them.
TypeInv ==
    /\ TypeOK
    /\ Shape(op)
    /\ \A i \in Ino : WellCut(fileChunks[i])

LEMMA NoOpType == NoOp \in Operation /\ Shape(NoOp)
BY EmptySeq DEF NoOp, Operation, Shape

LEMMA PastLoopType ==
    ASSUME NEW o \in Operation,
           o.pc \in {"delOld", "put", "truncDel", "gcDel"},
           o.ino \in Ino,
           o.pc = "put" => o.data # <<>>,
           o.pc = "truncDel" => o.data = <<>>
    PROVE  /\ PastLoop(o) \in Operation
           /\ Shape(PastLoop(o))
<1>1. CASE o.pc \in {"delOld", "truncDel"} /\ o.todo = <<>> /\ o.data = <<>>
  BY <1>1 DEF PastLoop, Operation, Shape
<1>2. CASE o.pc = "delOld" /\ o.todo = <<>> /\ o.data # <<>>
  <2>1. WriteFile(o.data) \in Seq(ChunkID) /\ WriteFile(o.data) # <<>>
    BY <1>2, WriteFileType DEF Operation
  <2>2. PastLoop(o) = [o EXCEPT !.pc = "put", !.todo = WriteFile(o.data)]
    BY <1>2 DEF PastLoop
  <2>3. QED
    BY <1>2, <2>1, <2>2 DEF Operation, Shape
<1>3. CASE o.pc = "put" /\ o.todo = <<>>
  BY <1>3 DEF PastLoop, Operation, Shape
<1>4. CASE o.pc = "gcDel" /\ o.gc = {}
  BY <1>4, NoOpType DEF PastLoop
<1>5. CASE ~ \/ o.pc \in {"delOld", "truncDel"} /\ o.todo = <<>> /\ o.data = <<>>
             \/ o.pc = "delOld" /\ o.todo = <<>> /\ o.data # <<>>
             \/ o.pc = "put" /\ o.todo = <<>>
             \/ o.pc = "gcDel" /\ o.gc = {}
  <2>1. PastLoop(o) = o
    BY <1>5 DEF PastLoop
  <2>2. QED
    BY <1>5, <2>1 DEF Shape
<1>6. QED
  BY <1>1, <1>2, <1>3, <1>4, <1>5

LEMMA ResizeType ==
    ASSUME NEW buf \in Seq(Byte), NEW n \in Nat
    PROVE  Resize(buf, n) \in Seq(Byte)
BY BumFSAssumption DEF Resize

LEMMA OverlayType ==
    ASSUME NEW buf \in Seq(Byte), NEW new \in Seq(Byte), NEW ofst \in Nat
    PROVE  Overlay(buf, new, ofst) \in Seq(Byte)
<1> DEFINE end == ofst + Len(new)
           len == IF end > Len(buf) THEN end ELSE Len(buf)
           b(k) == IF k > ofst /\ k <= end THEN new[k - ofst]
                   ELSE IF k <= Len(buf) THEN buf[k] ELSE Zero
<1>1. Len(buf) \in Nat /\ Len(new) \in Nat
  BY LenProperties
<1>2. len \in Nat
  BY <1>1
<1>3. ASSUME NEW k \in 1..len
      PROVE  b(k) \in Byte
  BY <1>1, <1>2, <1>3, BumFSAssumption
<1>4. Overlay(buf, new, ofst) = [k \in 1..len |-> b(k)]
  BY DEF Overlay
<1> HIDE DEF len, b
<1>5. QED
  BY <1>2, <1>3, <1>4

LEMMA SeqUpToType ==
    ASSUME NEW S, NEW n \in Nat, NEW s \in SeqUpTo(S, n)
    PROVE  s \in Seq(S)
<1>1. PICK m \in 0..n : s \in [1..m -> S]
  BY DEF SeqUpTo
<1>2. QED
  BY <1>1

\* What a handle starts from when it is first written.
LEMMA LoadFileDataType ==
    ASSUME TypeInv, NEW i \in Ino
    PROVE  LoadFileData(i) \in Seq(Byte)
<1> DEFINE data == ReadFile(fileChunks[i])
<1>1. data \in Seq(Byte) /\ size[i] \in Nat
  BY ReadFileType DEF TypeInv, TypeOK
<1> HIDE DEF data
<1>2. Len(data) > size[i] => SubSeq(data, 1, size[i]) \in Seq(Byte)
  <2>1. Len(data) > size[i] => \A k \in 1..size[i] : data[k] \in Byte
    BY <1>1, LenProperties, ElementOfSeq
  <2>2. QED
    BY <1>1, <2>1, SubSeqProperties
<1>3. LoadFileData(i) = IF size[i] = 0 THEN <<>>
                        ELSE IF Len(data) > size[i] THEN SubSeq(data, 1, size[i])
                        ELSE data
  BY DEF LoadFileData, data
<1>4. QED
  BY <1>1, <1>2, <1>3, EmptySeq

LEMMA BufferedType ==
    ASSUME TypeInv, NEW f \in Fh, handles[f] # Closed
    PROVE  handles[f] \in Handle /\ Buffered(handles[f]) \in Seq(Byte)
<1>1. handles[f] \in Handle
  BY DEF TypeInv, TypeOK
<1>2. handles[f].ino \in Ino /\ handles[f].buf \in Seq(Byte)
  BY <1>1 DEF Handle
<1>3. QED
  BY <1>1, <1>2, LoadFileDataType DEF Buffered

\* The operation writeFileData starts is well formed.
LEMMA WriteFileDataType ==
    ASSUME TypeInv, NEW i \in Ino, NEW data \in Seq(Byte), WriteFileData(i, data)
    PROVE  /\ op' \in Operation /\ Shape(op')
           /\ faults' \in 0..MaxFaults
<1> DEFINE start == [NoOp EXCEPT !.pc = "delOld", !.ino = i, !.data = data]
           walk == [start EXCEPT !.todo = fileChunks[i]]
<1>1. fileChunks[i] \in Seq(ChunkID) /\ faults \in 0..MaxFaults
  BY DEF TypeInv, TypeOK
<1>2. start \in Operation /\ start.pc = "delOld" /\ start.ino \in Ino
  BY NoOpType DEF Operation, NoOp
<1>3. walk \in Operation /\ walk.pc = "delOld" /\ walk.ino \in Ino
  BY <1>1, <1>2 DEF Operation, NoOp
<1>4. op' = PastLoop(start) \/ op' = PastLoop(walk)
  BY DEF WriteFileData, Continue
<1>5. faults' \in 0..MaxFaults
  BY <1>1, BumFSAssumption DEF WriteFileData, Works, Fails
<1> HIDE DEF start, walk
<1>6. op' \in Operation /\ Shape(op')
  BY <1>2, <1>3, <1>4, PastLoopType
<1>7. QED
  BY <1>5, <1>6

LEMMA OccType ==
    ASSUME NEW s \in Seq(ChunkID), NEW c
    PROVE  /\ IsFiniteSet({k \in DOMAIN s : s[k] = c})
           /\ Occ(s, c) \in Nat
           /\ (c \in Elems(s) => Occ(s, c) # 0)
<1> DEFINE P == {k \in DOMAIN s : s[k] = c}
<1>1. IsFiniteSet(DOMAIN s)
  BY LenProperties, FS_Interval
<1>2. IsFiniteSet(P)
  BY <1>1, FS_Subset
<1>3. Cardinality(P) \in Nat /\ (Cardinality(P) = 0 <=> P = {})
  BY <1>2, FS_CardinalityType, FS_EmptySet
<1>4. QED
  BY <1>2, <1>3 DEF Occ, Elems

LEMMA SetFileChunksType ==
    ASSUME TypeInv, NEW i \in Ino, NEW new \in Seq(ChunkID), WellCut(new),
           SetFileChunks(i, new)
    PROVE  /\ fileChunks' \in [Ino -> Seq(ChunkID)]
           /\ \A j \in Ino : WellCut(fileChunks'[j])
           /\ records' \subseteq ChunkID
           /\ refCount' \in [ChunkID -> Int]
<1>1. /\ fileChunks \in [Ino -> Seq(ChunkID)] /\ records \subseteq ChunkID
      /\ refCount \in [ChunkID -> Int]
      /\ \A j \in Ino : WellCut(fileChunks[j])
  BY DEF TypeInv, TypeOK
<1>2. fileChunks' \in [Ino -> Seq(ChunkID)]
  BY <1>1 DEF SetFileChunks
<1>3. \A j \in Ino : fileChunks'[j] = IF j = i THEN new ELSE fileChunks[j]
  BY <1>1 DEF SetFileChunks
<1>4. records' \subseteq ChunkID
  BY <1>1, ElementOfSeq, LenProperties DEF SetFileChunks, Elems
<1>5. \A c \in ChunkID : Occ(fileChunks[i], c) \in Nat /\ Occ(new, c) \in Nat
  BY <1>1, OccType
<1>6. refCount' \in [ChunkID -> Int]
  BY <1>1, <1>5 DEF SetFileChunks
<1>7. QED
  BY <1>1, <1>2, <1>3, <1>4, <1>6

LEMMA TypeStep == TypeInv /\ [Next]_vars => TypeInv'
<1> SUFFICES ASSUME TypeInv, [Next]_vars
             PROVE  TypeInv'
  OBVIOUS
<1> USE DEF meta
<1>0. /\ nodes \subseteq Ino /\ size \in [Ino -> Nat]
      /\ fileChunks \in [Ino -> Seq(ChunkID)] /\ records \subseteq ChunkID
      /\ refCount \in [ChunkID -> Int] /\ backend \subseteq ChunkID
      /\ handles \in [Fh -> Handle \cup {Closed}] /\ op \in Operation
      /\ faults \in 0..MaxFaults /\ crashes \in 0..MaxCrashes
      /\ Shape(op) /\ \A i \in Ino : WellCut(fileChunks[i])
  BY DEF TypeInv, TypeOK
<1>1. ASSUME NEW i \in Ino, NEW f \in Fh, Create(i, f)
      PROVE  TypeInv'
  BY <1>0, <1>1, EmptySeq DEF Create, NewHandle, Handle, TypeInv, TypeOK
<1>2. ASSUME NEW i \in Ino, NEW f \in Fh, Open(i, f)
      PROVE  TypeInv'
  BY <1>0, <1>2, EmptySeq DEF Open, NewHandle, Handle, TypeInv, TypeOK
<1>3. ASSUME NEW i \in Ino, Mknod(i)
      PROVE  TypeInv'
  BY <1>0, <1>3 DEF Mknod, TypeInv, TypeOK
<1>4. ASSUME NEW i \in Ino, TruncateToZero(i)
      PROVE  TypeInv'
  <2> DEFINE o == [NoOp EXCEPT !.pc = "truncDel", !.ino = i, !.todo = fileChunks[i]]
  <2>1. o \in Operation /\ o.pc = "truncDel" /\ o.ino \in Ino /\ o.data = <<>>
    BY <1>0, NoOpType DEF Operation, NoOp
  <2>2. op' = PastLoop(o)
    BY <1>4 DEF TruncateToZero, Continue
  <2> HIDE DEF o
  <2>3. op' \in Operation /\ Shape(op')
    BY <2>1, <2>2, PastLoopType
  <2>4. QED
    BY <1>0, <1>4, <2>3 DEF TruncateToZero, TypeInv, TypeOK
<1>5. ASSUME NEW i \in Ino, TruncatePath(i)
      PROVE  TypeInv'
  <2>1. PICK n \in 1..MaxLen : WriteFileData(i, Resize(LoadFileData(i), n))
    BY <1>5 DEF TruncatePath
  <2>2. Resize(LoadFileData(i), n) \in Seq(Byte)
    BY LoadFileDataType, ResizeType, BumFSAssumption
  <2>3. op' \in Operation /\ Shape(op') /\ faults' \in 0..MaxFaults
    BY <2>1, <2>2, WriteFileDataType
  <2>4. QED
    BY <1>0, <1>5, <2>3 DEF TruncatePath, TypeInv, TypeOK
<1>6. ASSUME NEW i \in Ino, Unlink(i) \/ RenameOver(i)
      PROVE  TypeInv'
  <2>1. PICK then \in {"idle", "gcList"} :
          op' = [NoOp EXCEPT !.pc = "rmChunks", !.ino = i, !.then = then]
    BY <1>6 DEF Unlink, RenameOver, RemoveNode
  <2>2. op' \in Operation /\ Shape(op')
    BY <2>1, NoOpType DEF NoOp, Operation, Shape
  <2>3. QED
    BY <1>0, <1>6, <2>2 DEF Unlink, RenameOver, TypeInv, TypeOK
<1>7. ASSUME NEW f \in Fh, Write(f)
      PROVE  TypeInv'
  <2>1. PICK ofst \in 0..(MaxLen - 1) : \E new \in SeqUpTo(Byte, MaxLen - ofst) \ {<<>>} :
          handles' = [handles EXCEPT
                        ![f] = Dirtied(@, Overlay(Buffered(@), new, ofst))]
    BY <1>7 DEF Write
  <2>2. PICK new \in SeqUpTo(Byte, MaxLen - ofst) :
          handles' = [handles EXCEPT
                        ![f] = Dirtied(@, Overlay(Buffered(@), new, ofst))]
    BY <2>1
  <2>3. handles[f] \in Handle /\ Buffered(handles[f]) \in Seq(Byte)
    BY <1>7, BufferedType DEF Write
  <2>4. ofst \in Nat /\ MaxLen - ofst \in Nat
    BY BumFSAssumption
  <2>5. Overlay(Buffered(handles[f]), new, ofst) \in Seq(Byte)
    BY <2>3, <2>4, SeqUpToType, OverlayType
  <2>6. Dirtied(handles[f], Overlay(Buffered(handles[f]), new, ofst)) \in Handle
    BY <2>3, <2>5 DEF Dirtied, Handle
  <2>7. handles' \in [Fh -> Handle \cup {Closed}]
    BY <1>0, <2>2, <2>6
  <2>8. QED
    BY <1>0, <1>7, <2>7 DEF Write, TypeInv, TypeOK
<1>8. ASSUME NEW f \in Fh, TruncateHandle(f)
      PROVE  TypeInv'
  <2>1. PICK n \in 0..MaxLen :
          handles' = [handles EXCEPT ![f] = Dirtied(@, Resize(Buffered(@), n))]
    BY <1>8 DEF TruncateHandle
  <2>2. handles[f] \in Handle /\ Buffered(handles[f]) \in Seq(Byte)
    BY <1>8, BufferedType DEF TruncateHandle
  <2>3. Resize(Buffered(handles[f]), n) \in Seq(Byte)
    BY <2>2, ResizeType, BumFSAssumption
  <2>4. Dirtied(handles[f], Resize(Buffered(handles[f]), n)) \in Handle
    BY <2>2, <2>3 DEF Dirtied, Handle
  <2>5. handles' \in [Fh -> Handle \cup {Closed}]
    BY <1>0, <2>1, <2>4
  <2>6. QED
    BY <1>0, <1>8, <2>5 DEF TruncateHandle, TypeInv, TypeOK
<1>9. ASSUME NEW f \in Fh, Flush(f)
      PROVE  TypeInv'
  <2>1. handles[f].ino \in Ino /\ handles[f].buf \in Seq(Byte)
    BY <1>9, BufferedType DEF Flush, Handle
  <2>2. op' \in Operation /\ Shape(op') /\ faults' \in 0..MaxFaults
    BY <1>9, <2>1, WriteFileDataType DEF Flush
  <2>3. QED
    BY <1>0, <1>9, <2>2 DEF Flush, TypeInv, TypeOK
<1>10. ASSUME NEW f \in Fh, Release(f)
       PROVE  TypeInv'
  <2>1. handles[f].ino \in Ino /\ handles[f].buf \in Seq(Byte)
    BY <1>10, BufferedType DEF Release, Handle
  <2>2. op' \in Operation /\ Shape(op') /\ faults' \in 0..MaxFaults
    BY <1>0, <1>10, <2>1, WriteFileDataType DEF Release
  <2>3. handles' \in [Fh -> Handle \cup {Closed}]
    BY <1>0, <1>10 DEF Release
  <2>4. QED
    BY <1>0, <1>10, <2>2, <2>3 DEF Release, TypeInv, TypeOK
<1>11. Works \/ Fails => faults' \in 0..MaxFaults
  BY <1>0, BumFSAssumption DEF Works, Fails
<1>12. ASSUME op.todo # <<>>
       PROVE  Head(op.todo) \in ChunkID /\ Tail(op.todo) \in Seq(ChunkID)
  BY <1>0, <1>12, HeadTailProperties DEF Operation
<1>13. CASE DeleteOld
  <2>1. op.todo # <<>> /\ op.ino \in Ino
    BY <1>0, <1>13 DEF DeleteOld, Shape
  <2> DEFINE o == [op EXCEPT !.todo = Tail(@)]
  <2>2. o \in Operation /\ o.pc = "delOld" /\ o.ino \in Ino
    BY <1>0, <1>12, <1>13, <2>1 DEF DeleteOld, Operation
  <2>3. op' = PastLoop(o)
    BY <1>13 DEF DeleteOld, Continue
  <2> HIDE DEF o
  <2>4. op' \in Operation /\ Shape(op')
    BY <2>2, <2>3, PastLoopType
  <2>5. QED
    BY <1>0, <1>11, <1>13, <2>4 DEF DeleteOld, TypeInv, TypeOK
<1>14. CASE PutChunk
  <2>1. op.todo # <<>> /\ op.ino \in Ino /\ op.data # <<>>
    BY <1>0, <1>14 DEF PutChunk, Shape
  <2> DEFINE o == [op EXCEPT !.todo = Tail(@)]
  <2>2. o \in Operation /\ o.pc = "put" /\ o.ino \in Ino /\ o.data # <<>>
    BY <1>0, <1>12, <1>14, <2>1 DEF PutChunk, Operation
  <2>3. op' = PastLoop(o) \/ op' = NoOp
    BY <1>14 DEF PutChunk, Continue, Return
  <2> HIDE DEF o
  <2>4. op' \in Operation /\ Shape(op')
    BY <2>2, <2>3, PastLoopType, NoOpType
  <2>5. QED
    BY <1>0, <1>11, <1>12, <1>14, <2>1, <2>4 DEF PutChunk, TypeInv, TypeOK
<1>15. CASE CommitChunks
  <2>1. op.ino \in Ino /\ op.data \in Seq(Byte) /\ op.data # <<>>
    BY <1>0, <1>15 DEF CommitChunks, Shape, Operation
  <2>2. WriteFile(op.data) \in Seq(ChunkID) /\ WellCut(WriteFile(op.data))
    BY <2>1, WriteFileType
  <2>3. op' \in Operation /\ Shape(op')
    BY <1>0, <1>15, <2>1, NoOpType DEF CommitChunks, Goto, Return, Operation, Shape
  <2>4. CASE SetFileChunks(op.ino, WriteFile(op.data))
    <3>1. /\ fileChunks' \in [Ino -> Seq(ChunkID)]
          /\ \A j \in Ino : WellCut(fileChunks'[j])
          /\ records' \subseteq ChunkID
          /\ refCount' \in [ChunkID -> Int]
      BY <2>1, <2>2, <2>4, SetFileChunksType
    <3>2. QED
      BY <1>0, <1>11, <1>15, <2>3, <3>1 DEF CommitChunks, TypeInv, TypeOK
  <2>5. CASE UNCHANGED <<fileChunks, records, refCount>>
    BY <1>0, <1>11, <1>15, <2>3, <2>5 DEF CommitChunks, TypeInv, TypeOK
  <2>6. QED
    BY <1>15, <2>4, <2>5 DEF CommitChunks
<1>16. CASE SetSize
  <2>1. op.ino \in Ino /\ Len(op.data) \in Nat
    BY <1>0, <1>16, LenProperties DEF SetSize, Shape, Operation
  <2>2. op' \in Operation /\ Shape(op')
    BY <1>0, <1>16, <2>1, NoOpType DEF SetSize, Goto, Return, Operation, Shape
  <2>3. QED
    BY <1>0, <1>11, <1>16, <2>1, <2>2 DEF SetSize, TypeInv, TypeOK
<1>17. CASE SetEmpty
  <2>1. op.ino \in Ino
    BY <1>0, <1>17 DEF SetEmpty, Shape
  <2>2. op' \in Operation /\ Shape(op')
    BY <1>0, <1>17, <2>1 DEF SetEmpty, Goto, Operation, Shape
  <2>3. CASE SetFileChunks(op.ino, <<>>)
    <3>1. <<>> \in Seq(ChunkID) /\ WellCut(<<>>)
      BY EmptySeq DEF WellCut
    <3>2. /\ fileChunks' \in [Ino -> Seq(ChunkID)]
          /\ \A j \in Ino : WellCut(fileChunks'[j])
          /\ records' \subseteq ChunkID
          /\ refCount' \in [ChunkID -> Int]
      BY <2>1, <2>3, <3>1, SetFileChunksType
    <3>3. QED
      BY <1>0, <1>11, <1>17, <2>2, <3>2 DEF SetEmpty, TypeInv, TypeOK
  <2>4. CASE UNCHANGED <<fileChunks, records, refCount>>
    BY <1>0, <1>11, <1>17, <2>2, <2>4 DEF SetEmpty, TypeInv, TypeOK
  <2>5. QED
    BY <1>17, <2>3, <2>4 DEF SetEmpty
<1>18. CASE SizeZero
  BY <1>0, <1>11, <1>18, NoOpType DEF SizeZero, Return, TypeInv, TypeOK
<1>19. CASE GetUnreferencedChunks
  <2> DEFINE o == [op EXCEPT !.pc = "gcDel", !.gc = {c \in records : refCount[c] <= 0}]
  <2>1. o \in Operation /\ o.pc = "gcDel" /\ o.ino \in Ino
    BY <1>0, <1>19 DEF GetUnreferencedChunks, Shape, Operation
  <2>2. op' = PastLoop(o) \/ op' = NoOp
    BY <1>19 DEF GetUnreferencedChunks, Continue, Return
  <2> HIDE DEF o
  <2>3. op' \in Operation /\ Shape(op')
    BY <2>1, <2>2, PastLoopType, NoOpType
  <2>4. QED
    BY <1>0, <1>11, <1>19, <2>3 DEF GetUnreferencedChunks, TypeInv, TypeOK
<1>20. CASE CollectBlob
  <2>1. PICK c \in op.gc : /\ \/ Works /\ backend' = backend \ {c}
                              \/ Fails /\ UNCHANGED backend
                           /\ op' = [op EXCEPT !.pc = "gcRec", !.todo = <<c>>]
    BY <1>20 DEF CollectBlob
  <2>2. c \in ChunkID
    BY <1>0 DEF Operation
  <2>3. <<c>> \in Seq(ChunkID) /\ <<c>> # <<>>
    BY <2>2
  <2>4. op' \in Operation /\ Shape(op')
    BY <1>0, <1>20, <2>1, <2>3 DEF CollectBlob, Operation, Shape
  <2>5. QED
    BY <1>0, <1>11, <1>20, <2>1, <2>4 DEF CollectBlob, TypeInv, TypeOK
<1>21. CASE CollectRecord
  <2> DEFINE o == [op EXCEPT !.pc = "gcDel", !.todo = <<>>, !.gc = @ \ {Head(op.todo)}]
  <2>1. o \in Operation /\ o.pc = "gcDel" /\ o.ino \in Ino
    BY <1>0, <1>21, EmptySeq DEF CollectRecord, Shape, Operation
  <2>2. op' = PastLoop(o)
    BY <1>21 DEF CollectRecord, Continue
  <2> HIDE DEF o
  <2>3. op' \in Operation /\ Shape(op')
    BY <2>1, <2>2, PastLoopType
  <2>4. records' \subseteq ChunkID /\ refCount' \in [ChunkID -> Int] /\ (Works \/ Fails)
    BY <1>0, <1>21 DEF CollectRecord
  <2>5. QED
    BY <1>0, <1>11, <1>21, <2>3, <2>4 DEF CollectRecord, TypeInv, TypeOK
<1>22. CASE TruncateDelete
  <2>1. op.todo # <<>> /\ op.ino \in Ino /\ op.data = <<>>
    BY <1>0, <1>22 DEF TruncateDelete, Shape
  <2> DEFINE o == [op EXCEPT !.todo = Tail(@)]
             stop == [op EXCEPT !.todo = <<>>]
  <2>2. o \in Operation /\ o.pc = "truncDel" /\ o.ino \in Ino /\ o.data = <<>>
    BY <1>0, <1>12, <1>22, <2>1 DEF TruncateDelete, Operation
  <2>3. stop \in Operation /\ stop.pc = "truncDel" /\ stop.ino \in Ino /\ stop.data = <<>>
    BY <1>0, <1>22, <2>1, EmptySeq DEF TruncateDelete, Operation
  <2>4. op' = PastLoop(o) \/ op' = PastLoop(stop)
    BY <1>22 DEF TruncateDelete, Continue
  <2> HIDE DEF o, stop
  <2>5. op' \in Operation /\ Shape(op')
    BY <2>2, <2>3, <2>4, PastLoopType
  <2>6. QED
    BY <1>0, <1>11, <1>22, <2>5 DEF TruncateDelete, TypeInv, TypeOK
<1>23. CASE RemoveFileChunks
  <2>1. op' \in Operation /\ Shape(op')
    BY <1>0, <1>23, NoOpType DEF RemoveFileChunks, Goto, Return, Operation, Shape
  <2>2. <<>> \in Seq(ChunkID) /\ WellCut(<<>>)
    BY EmptySeq DEF WellCut
  <2>3. QED
    BY <1>0, <1>11, <1>23, <2>1, <2>2 DEF RemoveFileChunks, TypeInv, TypeOK
<1>24. CASE RemoveInode
  <2>1. op' \in Operation /\ Shape(op')
    BY <1>0, <1>24, NoOpType DEF RemoveInode, Goto, Return, Operation, Shape
  <2>2. QED
    BY <1>0, <1>11, <1>24, <2>1 DEF RemoveInode, TypeInv, TypeOK
<1>25. CASE Crash
  BY <1>0, <1>25, NoOpType, BumFSAssumption DEF Crash, Return, TypeInv, TypeOK
<1>26. CASE UNCHANGED vars
  BY <1>0, <1>26 DEF vars, TypeInv, TypeOK
<1>27. QED
  BY <1>1, <1>2, <1>3, <1>4, <1>5, <1>6, <1>7, <1>8, <1>9, <1>10, <1>13, <1>14, <1>15,
     <1>16, <1>17, <1>18, <1>19, <1>20, <1>21, <1>22, <1>23, <1>24, <1>25, <1>26
     DEF Next, Handlers, Steps

LEMMA InitType == Init => TypeInv
<1> SUFFICES ASSUME Init PROVE TypeInv
  OBVIOUS
<1>1. <<>> \in Seq(ChunkID) /\ WellCut(<<>>)
  BY EmptySeq DEF WellCut
<1>2. QED
  BY <1>1, NoOpType, BumFSAssumption DEF Init, TypeInv, TypeOK

\* Types hold on every reachable state, whatever fails and whenever it crashes.
THEOREM TypeCorrect == Spec => []TypeOK
<1>1. TypeInv => TypeOK
  BY DEF TypeInv
<1>2. QED
  BY <1>1, InitType, TypeStep, PTL DEF Spec

-----------------------------------------------------------------------------
(* The rows of file_chunks that name a chunk *)

Places(s, c) == {k \in DOMAIN s : s[k] = c}

Rows(fc, c) == UNION {{i} \X Places(fc[i], c) : i \in Ino}

LEMMA RefsToRows == \A c : RefsTo(c) = Rows(fileChunks, c)
BY DEF RefsTo, Rows, Places

LEMMA RowsFinite ==
    ASSUME NEW fc \in [Ino -> Seq(ChunkID)], NEW c, NEW J \in SUBSET Ino
    PROVE  IsFiniteSet(UNION {{i} \X Places(fc[i], c) : i \in J})
<1> DEFINE row(i) == {i} \X Places(fc[i], c)
           T == {row(i) : i \in J}
           f == [i \in J |-> row(i)]
<1>1. ASSUME NEW i \in J
      PROVE  IsFiniteSet(row(i))
  <2>1. fc[i] \in Seq(ChunkID)
    OBVIOUS
  <2>2. IsFiniteSet(Places(fc[i], c))
    BY <2>1, OccType DEF Places
  <2>3. QED
    BY <2>2, FS_Singleton, FS_Product
<1>2. IsFiniteSet(J)
  BY BumFSAssumption, FS_Subset
<1> HIDE DEF row
<1>3. f \in Surjection(J, T)
  BY DEF Surjection
<1>4. IsFiniteSet(T)
  BY <1>2, <1>3, FS_Surjection
<1>5. \A S \in T : IsFiniteSet(S)
  BY <1>1
<1> HIDE DEF T
<1>6. IsFiniteSet(UNION T)
  BY <1>4, <1>5, FS_UNION
<1>7. QED
  BY <1>6 DEF T, row

\* Giving inode i another list changes the number of rows that name c by the
\* difference of c's occurrences in the two lists.
LEMMA RowsOfUpdate ==
    ASSUME NEW fc \in [Ino -> Seq(ChunkID)], NEW i \in Ino,
           NEW new \in Seq(ChunkID), NEW c
    PROVE  /\ Cardinality(Rows(fc, c)) \in Nat
           /\ Cardinality(Rows([fc EXCEPT ![i] = new], c))
                = Cardinality(Rows(fc, c)) - Occ(fc[i], c) + Occ(new, c)
<1> DEFINE Others == UNION {{j} \X Places(fc[j], c) : j \in Ino \ {i}}
           fd == [fc EXCEPT ![i] = new]
<1>1. IsFiniteSet(Others)
  BY RowsFinite
<1>2. ASSUME NEW s \in Seq(ChunkID)
      PROVE  /\ IsFiniteSet({i} \X Places(s, c))
             /\ Cardinality({i} \X Places(s, c)) = Occ(s, c)
             /\ Others \cap ({i} \X Places(s, c)) = {}
             /\ Occ(s, c) \in Nat
  <2>1. IsFiniteSet(Places(s, c)) /\ Cardinality(Places(s, c)) = Occ(s, c) /\ Occ(s, c) \in Nat
    BY OccType DEF Places, Occ
  <2>2. IsFiniteSet({i}) /\ Cardinality({i}) = 1
    BY FS_Singleton
  <2>3. /\ IsFiniteSet({i} \X Places(s, c))
        /\ Cardinality({i} \X Places(s, c)) = Cardinality({i}) * Cardinality(Places(s, c))
    BY <2>1, <2>2, FS_Product
  <2>4. Others \cap ({i} \X Places(s, c)) = {}
    OBVIOUS
  <2>5. 1 * Occ(s, c) = Occ(s, c)
    BY <2>1
  <2>6. QED
    BY <2>1, <2>2, <2>3, <2>4, <2>5
<1>3. Rows(fc, c) = Others \cup ({i} \X Places(fc[i], c))
  BY DEF Rows
<1>4. Rows(fd, c) = Others \cup ({i} \X Places(new, c))
  <2>1. fd[i] = new /\ \A j \in Ino \ {i} : fd[j] = fc[j]
    OBVIOUS
  <2> HIDE DEF fd
  <2>2. QED
    BY <2>1 DEF Rows
<1> HIDE DEF Others, fd
<1>5. ASSUME NEW s \in Seq(ChunkID)
      PROVE  Cardinality(Others \cup ({i} \X Places(s, c))) = Cardinality(Others) + Occ(s, c)
  <2>1. Cardinality(Others \cup ({i} \X Places(s, c)))
          = Cardinality(Others) + Cardinality({i} \X Places(s, c))
            - Cardinality(Others \cap ({i} \X Places(s, c)))
    BY <1>1, <1>2, FS_Union
  <2>2. Cardinality(Others) \in Nat
    BY <1>1, FS_CardinalityType
  <2>3. Cardinality(Others \cap ({i} \X Places(s, c))) = 0
    BY <1>2, FS_EmptySet
  <2>4. Cardinality({i} \X Places(s, c)) = Occ(s, c) /\ Occ(s, c) \in Nat
    BY <1>2
  <2>5. QED
    BY <2>1, <2>2, <2>3, <2>4
<1>6. Cardinality(Others) \in Nat /\ Occ(fc[i], c) \in Nat /\ Occ(new, c) \in Nat
  BY <1>1, <1>2, FS_CardinalityType
<1>7. fc[i] \in Seq(ChunkID)
  OBVIOUS
<1>8. /\ Cardinality(Rows(fc, c)) = Cardinality(Others) + Occ(fc[i], c)
      /\ Cardinality(Rows(fd, c)) = Cardinality(Others) + Occ(new, c)
  BY <1>3, <1>4, <1>5, <1>7
<1>9. QED
  BY <1>6, <1>8 DEF fd

\* A chunk with no row is mapped by no file.
LEMMA NoRows ==
    ASSUME NEW fc \in [Ino -> Seq(ChunkID)], NEW c, NEW n \in Int, n <= 0,
           n >= Cardinality(Rows(fc, c))
    PROVE  \A i \in Ino : c \notin Elems(fc[i])
<1>1. IsFiniteSet(Rows(fc, c))
  BY RowsFinite DEF Rows
<1>2. Cardinality(Rows(fc, c)) \in Nat
  BY <1>1, FS_CardinalityType
<1>3. Cardinality(Rows(fc, c)) = 0
  BY <1>2
<1>4. Rows(fc, c) = {}
  BY <1>1, <1>3, FS_EmptySet
<1>5. ASSUME NEW i \in Ino, NEW k \in DOMAIN fc[i], fc[i][k] = c
      PROVE  FALSE
  <2>1. <<i, k>> \in {i} \X Places(fc[i], c)
    BY <1>5 DEF Places
  <2>2. <<i, k>> \in Rows(fc, c)
    BY <2>1 DEF Rows
  <2>3. QED
    BY <1>4, <2>2
<1>6. QED
  BY <1>5 DEF Elems

LEMMA UnmappedHasNoRows ==
    ASSUME NEW fc \in [Ino -> Seq(ChunkID)], NEW c, \A i \in Ino : c \notin Elems(fc[i])
    PROVE  Cardinality(Rows(fc, c)) = 0
<1>1. \A i \in Ino : Places(fc[i], c) = {}
  BY DEF Places, Elems
<1>2. Rows(fc, c) = {}
  BY <1>1 DEF Rows
<1>3. QED
  BY <1>2, FS_EmptySet

LEMMA ElemsHeadTail ==
    ASSUME NEW s \in Seq(ChunkID), s # <<>>
    PROVE  Elems(s) = {Head(s)} \cup Elems(Tail(s))
<1>1. /\ Tail(s) \in Seq(ChunkID) /\ Len(Tail(s)) = Len(s) - 1
      /\ \A k \in 1..Len(Tail(s)) : Tail(s)[k] = s[k + 1]
  BY HeadTailProperties
<1>2. Len(s) \in Nat \ {0} /\ DOMAIN s = 1..Len(s) /\ DOMAIN Tail(s) = 1..Len(Tail(s))
  BY <1>1, EmptySeq, LenProperties
<1>3. Head(s) = s[1]
  OBVIOUS
<1>4. ASSUME NEW k \in DOMAIN s
      PROVE  s[k] \in {Head(s)} \cup Elems(Tail(s))
  <2>1. CASE k = 1
    BY <1>3, <2>1
  <2>2. CASE k # 1
    <3>1. k - 1 \in 1..Len(Tail(s)) /\ Tail(s)[k - 1] = s[k]
      BY <1>1, <1>2, <2>2
    <3>2. QED
      BY <1>2, <3>1 DEF Elems
  <2>3. QED
    BY <2>1, <2>2
<1>5. ASSUME NEW k \in DOMAIN Tail(s)
      PROVE  Tail(s)[k] \in Elems(s)
  <2>1. k + 1 \in DOMAIN s /\ Tail(s)[k] = s[k + 1]
    BY <1>1, <1>2
  <2>2. QED
    BY <2>1 DEF Elems
<1>6. Head(s) \in Elems(s)
  BY <1>2, <1>3 DEF Elems
<1>7. QED
  BY <1>4, <1>5, <1>6 DEF Elems

-----------------------------------------------------------------------------
(* Reference counts cover the rows *)

LEMMA SetFileChunksCovers ==
    ASSUME TypeInv, RefCountCovers, NEW i \in Ino, NEW new \in Seq(ChunkID),
           SetFileChunks(i, new)
    PROVE  RefCountCovers'
<1>1. fileChunks \in [Ino -> Seq(ChunkID)] /\ refCount \in [ChunkID -> Int]
  BY DEF TypeInv, TypeOK
<1>2. /\ fileChunks' = [fileChunks EXCEPT ![i] = new]
      /\ fileChunks' \in [Ino -> Seq(ChunkID)]
  BY <1>1 DEF SetFileChunks
<1>3. \A c \in ChunkID : Mapped(c)' => c \in records'
  BY <1>1, <1>2 DEF SetFileChunks, RefCountCovers, Mapped
<1>4. ASSUME NEW c \in ChunkID
      PROVE  refCount'[c] >= Cardinality(Rows(fileChunks', c))
  <2>1. refCount[c] >= Cardinality(Rows(fileChunks, c))
    BY DEF RefCountCovers, RefsTo, Rows, Places
  <2>2. CASE c \in records'
    <3>1. refCount'[c] = refCount[c] - Occ(fileChunks[i], c) + Occ(new, c)
      BY <2>2 DEF SetFileChunks
    <3>2. Occ(fileChunks[i], c) \in Nat /\ Occ(new, c) \in Nat /\ refCount[c] \in Int
      BY <1>1, OccType
    <3>3. /\ Cardinality(Rows(fileChunks, c)) \in Nat
          /\ Cardinality(Rows(fileChunks', c))
               = Cardinality(Rows(fileChunks, c)) - Occ(fileChunks[i], c) + Occ(new, c)
      <4>1. Cardinality(Rows([fileChunks EXCEPT ![i] = new], c))
              = Cardinality(Rows(fileChunks, c)) - Occ(fileChunks[i], c) + Occ(new, c)
        BY <1>1, RowsOfUpdate
      <4>2. Cardinality(Rows(fileChunks, c)) \in Nat
        BY <1>1, RowsOfUpdate
      <4>3. QED
        BY <1>2, <4>1, <4>2
    <3>4. QED
      BY <2>1, <3>1, <3>2, <3>3
  <2>3. CASE c \notin records'
    <3>1. refCount'[c] = 0
      BY <2>3 DEF SetFileChunks
    <3>2. \A j \in Ino : c \notin Elems(fileChunks'[j])
      BY <1>3, <2>3 DEF Mapped
    <3> DEFINE fd == [fileChunks EXCEPT ![i] = new]
    <3>3. fd \in [Ino -> Seq(ChunkID)] /\ \A j \in Ino : c \notin Elems(fd[j])
      BY <1>2, <3>2
    <3> HIDE DEF fd
    <3>4. Cardinality(Rows(fd, c)) = 0
      BY <3>3, UnmappedHasNoRows
    <3>5. QED
      BY <1>2, <3>1, <3>4 DEF fd
  <2>4. QED
    BY <2>2, <2>3
<1>5. QED
  BY <1>3, <1>4 DEF RefCountCovers, RefsTo, Rows, Places

\* Where an operation stands, in terms of the lists fc, the backend be and the
\* sizes sz.
Progress(o, fc, be, sz) ==
    /\ o.pc \in {"delOld", "truncDel"} => Elems(o.todo) \subseteq Elems(fc[o.ino])
    /\ o.pc = "put" => Elems(WriteFile(o.data)) \subseteq be \cup Elems(o.todo)
    /\ o.pc \in {"setChunks", "setSize", "gcList", "gcDel", "gcRec"} /\ o.data # <<>> =>
          Elems(WriteFile(o.data)) \subseteq be
    /\ o.pc \in {"setSize", "gcList", "gcDel", "gcRec"} /\ o.data # <<>> =>
          fc[o.ino] = WriteFile(o.data)
    /\ o.pc \in {"gcList", "gcDel", "gcRec"} /\ o.data # <<>> => sz[o.ino] = Len(o.data)
    /\ o.pc \in {"gcDel", "gcRec"} => \A i \in Ino : Elems(fc[i]) \cap o.gc = {}
    /\ o.pc = "gcRec" => Head(o.todo) \in o.gc

LEMMA PastLoopProgress ==
    ASSUME NEW o \in Operation, o.pc \in {"delOld", "put", "truncDel", "gcDel"},
           NEW fc, NEW be, NEW sz, Progress(o, fc, be, sz)
    PROVE  Progress(PastLoop(o), fc, be, sz)
<1>0. Elems(<<>>) = {}
  BY DEF Elems
<1>1. CASE o.pc \in {"delOld", "truncDel"} /\ o.todo = <<>> /\ o.data = <<>>
  <2>1. PastLoop(o) = [o EXCEPT !.pc = "setEmpty"]
    BY <1>1 DEF PastLoop
  <2>2. QED
    BY <2>1 DEF Progress, Operation
<1>2. CASE o.pc = "delOld" /\ o.todo = <<>> /\ o.data # <<>>
  <2>1. PastLoop(o) = [o EXCEPT !.pc = "put", !.todo = WriteFile(o.data)]
    BY <1>2 DEF PastLoop
  <2>2. QED
    BY <2>1 DEF Progress, Operation
<1>3. CASE o.pc = "put" /\ o.todo = <<>>
  <2>1. PastLoop(o) = [o EXCEPT !.pc = "setChunks"]
    BY <1>3 DEF PastLoop
  <2>2. QED
    BY <1>0, <1>3, <2>1 DEF Progress, Operation
<1>4. CASE o.pc = "gcDel" /\ o.gc = {}
  <2>1. PastLoop(o) = NoOp
    BY <1>4 DEF PastLoop
  <2>2. QED
    BY <2>1 DEF Progress, NoOp
<1>5. CASE ~ \/ o.pc \in {"delOld", "truncDel"} /\ o.todo = <<>> /\ o.data = <<>>
             \/ o.pc = "delOld" /\ o.todo = <<>> /\ o.data # <<>>
             \/ o.pc = "put" /\ o.todo = <<>>
             \/ o.pc = "gcDel" /\ o.gc = {}
  <2>1. PastLoop(o) = o
    BY <1>5 DEF PastLoop
  <2>2. QED
    BY <2>1
<1>6. QED
  BY <1>1, <1>2, <1>3, <1>4, <1>5

LEMMA WriteFileDataProgress ==
    ASSUME TypeInv, NEW i \in Ino, NEW data \in Seq(Byte), WriteFileData(i, data)
    PROVE  Progress(op', fileChunks, backend, size)
<1> DEFINE start == [NoOp EXCEPT !.pc = "delOld", !.ino = i, !.data = data]
           walk == [start EXCEPT !.todo = fileChunks[i]]
<1>1. fileChunks[i] \in Seq(ChunkID)
  BY DEF TypeInv, TypeOK
<1>2. /\ start \in Operation /\ start.pc = "delOld"
      /\ Progress(start, fileChunks, backend, size)
  <2>1. start \in Operation /\ start.pc = "delOld"
    BY NoOpType DEF Operation, NoOp
  <2>2. start.todo = <<>> /\ Elems(<<>>) = {}
    BY DEF NoOp, Elems
  <2> HIDE DEF start
  <2>3. QED
    BY <2>1, <2>2 DEF Progress
<1>3. /\ walk \in Operation /\ walk.pc = "delOld"
      /\ Progress(walk, fileChunks, backend, size)
  BY <1>1, <1>2 DEF Operation, NoOp, Progress
<1>4. op' = PastLoop(start) \/ op' = PastLoop(walk)
  BY DEF WriteFileData, Continue
<1> HIDE DEF start, walk
<1>5. QED
  BY <1>2, <1>3, <1>4, PastLoopProgress

\* The inductive invariant: counts cover the rows, and the operation under way has
\* put what it will map and collects only what nobody maps.
IInv ==
    /\ TypeInv
    /\ RefCountCovers
    /\ Progress(op, fileChunks, backend, size)

LEMMA Step == IInv /\ [Next]_vars => IInv'
<1> SUFFICES ASSUME IInv, [Next]_vars
             PROVE  RefCountCovers' /\ Progress(op', fileChunks', backend', size')
  BY TypeStep DEF IInv
<1> USE DEF meta
<1>0. /\ TypeInv /\ RefCountCovers /\ Progress(op, fileChunks, backend, size)
      /\ fileChunks \in [Ino -> Seq(ChunkID)] /\ records \subseteq ChunkID
      /\ refCount \in [ChunkID -> Int] /\ size \in [Ino -> Nat] /\ op \in Operation
      /\ Shape(op)
  BY DEF IInv, TypeInv, TypeOK
<1>1. ASSUME UNCHANGED <<fileChunks, records, refCount>>
      PROVE  RefCountCovers'
  <2>1. \A c \in ChunkID : Mapped(c)' = Mapped(c) /\ RefsTo(c)' = RefsTo(c)
    BY <1>1 DEF Mapped, RefsTo
  <2>2. QED
    BY <1>0, <1>1, <2>1 DEF RefCountCovers
<1>2. \A fc, be, sz : Progress(NoOp, fc, be, sz)
  BY DEF Progress, NoOp
<1>3. op.pc \in {"delOld", "put", "truncDel", "gcRec"} =>
         /\ Elems(op.todo) = {Head(op.todo)} \cup Elems(Tail(op.todo))
         /\ Head(op.todo) \in ChunkID /\ Tail(op.todo) \in Seq(ChunkID)
  BY <1>0, ElemsHeadTail, HeadTailProperties DEF Shape, Operation
<1>4. CASE UNCHANGED <<fileChunks, records, refCount, backend, size, op>>
  BY <1>0, <1>1, <1>4
<1>5. ASSUME NEW i \in Ino, TruncateToZero(i)
      PROVE  Progress(op', fileChunks', backend', size') /\ RefCountCovers'
  <2> DEFINE o == [NoOp EXCEPT !.pc = "truncDel", !.ino = i, !.todo = fileChunks[i]]
  <2>1. o \in Operation /\ o.pc = "truncDel" /\ o.ino = i /\ o.todo = fileChunks[i]
    BY <1>0, NoOpType DEF Operation, NoOp
  <2>2. op' = PastLoop(o)
    BY <1>5 DEF TruncateToZero, Continue
  <2> HIDE DEF o
  <2>3. Progress(o, fileChunks, backend, size)
    BY <2>1 DEF Progress
  <2>4. Progress(op', fileChunks, backend, size)
    BY <2>1, <2>2, <2>3, PastLoopProgress
  <2>5. QED
    BY <1>1, <1>5, <2>4 DEF TruncateToZero
<1>6. ASSUME NEW i \in Ino, TruncatePath(i)
      PROVE  Progress(op', fileChunks', backend', size') /\ RefCountCovers'
  <2>1. PICK n \in 1..MaxLen : WriteFileData(i, Resize(LoadFileData(i), n))
    BY <1>6 DEF TruncatePath
  <2>2. Resize(LoadFileData(i), n) \in Seq(Byte)
    BY <1>0, LoadFileDataType, ResizeType, BumFSAssumption
  <2>3. Progress(op', fileChunks, backend, size)
    BY <1>0, <2>1, <2>2, WriteFileDataProgress
  <2>4. QED
    BY <1>1, <1>6, <2>3 DEF TruncatePath
<1>7. ASSUME NEW i \in Ino, Unlink(i) \/ RenameOver(i)
      PROVE  Progress(op', fileChunks', backend', size') /\ RefCountCovers'
  <2>1. op'.pc = "rmChunks"
    BY <1>7 DEF Unlink, RenameOver, RemoveNode, NoOp
  <2>2. QED
    BY <1>1, <1>7, <2>1 DEF Unlink, RenameOver, Progress
<1>8. ASSUME NEW f \in Fh, Flush(f)
      PROVE  Progress(op', fileChunks', backend', size') /\ RefCountCovers'
  <2>1. handles[f].ino \in Ino /\ handles[f].buf \in Seq(Byte)
    BY <1>0, <1>8, BufferedType DEF Flush, Handle
  <2>2. Progress(op', fileChunks, backend, size)
    BY <1>0, <1>8, <2>1, WriteFileDataProgress DEF Flush
  <2>3. QED
    BY <1>1, <1>8, <2>2 DEF Flush
<1>9. ASSUME NEW f \in Fh, Release(f)
      PROVE  Progress(op', fileChunks', backend', size') /\ RefCountCovers'
  <2>1. handles[f].ino \in Ino /\ handles[f].buf \in Seq(Byte)
    BY <1>0, <1>9, BufferedType DEF Release, Handle
  <2>2. Progress(op', fileChunks, backend, size)
    BY <1>0, <1>9, <2>1, WriteFileDataProgress DEF Release
  <2>3. QED
    BY <1>1, <1>9, <2>2 DEF Release
<1>10. CASE DeleteOld \/ TruncateDelete
  <2> DEFINE o == [op EXCEPT !.todo = Tail(@)]
             stop == [op EXCEPT !.todo = <<>>]
  <2>1. op.pc \in {"delOld", "truncDel"}
    BY <1>10 DEF DeleteOld, TruncateDelete
  <2>2. o \in Operation /\ o.pc = op.pc /\ stop \in Operation /\ stop.pc = op.pc
    BY <1>0, <1>3, <2>1, EmptySeq DEF Operation
  <2>3. op' = PastLoop(o) \/ op' = PastLoop(stop)
    BY <1>10 DEF DeleteOld, TruncateDelete, Continue
  <2>4. Elems(o.todo) \subseteq Elems(fileChunks[o.ino]) /\ stop.todo = <<>>
    BY <1>0, <1>3, <2>1 DEF Progress, Operation
  <2>5. Elems(<<>>) = {}
    BY DEF Elems
  <2> HIDE DEF o, stop
  <2>6. /\ Progress(o, fileChunks, backend', size)
        /\ Progress(stop, fileChunks, backend', size)
    BY <2>1, <2>2, <2>4, <2>5 DEF Progress
  <2>7. Progress(op', fileChunks, backend', size)
    BY <2>1, <2>2, <2>3, <2>6, PastLoopProgress
  <2>8. QED
    BY <1>1, <1>10, <2>7 DEF DeleteOld, TruncateDelete
<1>11. CASE PutChunk
  <2> DEFINE o == [op EXCEPT !.todo = Tail(@)]
  <2>1. o \in Operation /\ o.pc = "put" /\ o.data = op.data /\ o.todo = Tail(op.todo)
    BY <1>0, <1>3, <1>11 DEF PutChunk, Operation
  <2>2. CASE op' = NoOp
    BY <1>1, <1>2, <1>11, <2>2 DEF PutChunk
  <2>3. CASE backend' = backend \cup {Head(op.todo)} /\ op' = PastLoop(o)
    <3>1. Elems(WriteFile(o.data)) \subseteq backend' \cup Elems(o.todo)
      BY <1>0, <1>3, <1>11, <2>1, <2>3 DEF PutChunk, Progress
    <3> HIDE DEF o
    <3>2. Progress(o, fileChunks, backend', size)
      BY <2>1, <3>1 DEF Progress
    <3>3. Progress(op', fileChunks, backend', size)
      BY <2>1, <2>3, <3>2, PastLoopProgress
    <3>4. QED
      BY <1>1, <1>11, <3>3 DEF PutChunk
  <2>4. QED
    BY <1>11, <2>2, <2>3 DEF PutChunk, Continue, Return
<1>12. CASE CommitChunks
  <2>1. op.ino \in Ino /\ op.data \in Seq(Byte) /\ op.data # <<>>
    BY <1>0, <1>12 DEF CommitChunks, Shape, Operation
  <2>2. CASE op' = NoOp /\ UNCHANGED <<fileChunks, records, refCount>>
    BY <1>1, <1>2, <2>2
  <2>3. CASE SetFileChunks(op.ino, WriteFile(op.data)) /\ Goto("setSize")
    <3>1. WriteFile(op.data) \in Seq(ChunkID)
      BY <2>1, WriteFileType
    <3>2. RefCountCovers'
      BY <1>0, <2>1, <2>3, <3>1, SetFileChunksCovers
    <3>3. fileChunks'[op.ino] = WriteFile(op.data)
      BY <1>0, <2>1, <2>3 DEF SetFileChunks
    <3>4. op'.pc = "setSize" /\ op'.data = op.data /\ op'.ino = op.ino
      BY <1>0, <2>3 DEF Goto, Operation
    <3>5. backend' = backend /\ op.pc = "setChunks"
      BY <1>12 DEF CommitChunks
    <3>6. Progress(op', fileChunks', backend', size')
      BY <1>0, <2>1, <3>3, <3>4, <3>5 DEF Progress
    <3>7. QED
      BY <3>2, <3>6
  <2>4. QED
    BY <1>12, <2>2, <2>3 DEF CommitChunks, Return
<1>13. CASE SetSize
  <2>1. op.ino \in Ino
    BY <1>0, <1>13 DEF SetSize, Shape
  <2>2. CASE op' = NoOp
    BY <1>1, <1>2, <1>13, <2>2 DEF SetSize
  <2>3. CASE size' = [size EXCEPT ![op.ino] = Len(op.data)] /\ Goto("gcList")
    <3>1. op'.pc = "gcList" /\ op'.data = op.data /\ op'.ino = op.ino
      BY <1>0, <2>3 DEF Goto, Operation
    <3>2. size'[op.ino] = Len(op.data)
      BY <1>0, <2>1, <2>3
    <3>3. Progress(op', fileChunks, backend, size')
      BY <1>0, <1>13, <3>1, <3>2 DEF SetSize, Progress
    <3>4. QED
      BY <1>1, <1>13, <3>3 DEF SetSize
  <2>4. QED
    BY <1>13, <2>2, <2>3 DEF SetSize, Return
<1>14. CASE SetEmpty
  <2>1. op.ino \in Ino /\ <<>> \in Seq(ChunkID)
    BY <1>0, <1>14, EmptySeq DEF SetEmpty, Shape
  <2>2. RefCountCovers'
    BY <1>0, <1>1, <1>14, <2>1, SetFileChunksCovers DEF SetEmpty
  <2>3. op'.pc = "sizeZero"
    BY <1>0, <1>14 DEF SetEmpty, Goto, Operation
  <2>4. QED
    BY <2>2, <2>3 DEF Progress
<1>15. CASE SizeZero
  BY <1>1, <1>2, <1>15 DEF SizeZero, Return
<1>16. CASE GetUnreferencedChunks
  <2> DEFINE G == {c \in records : refCount[c] <= 0}
             o == [op EXCEPT !.pc = "gcDel", !.gc = G]
  <2>1. CASE op' = NoOp
    BY <1>1, <1>2, <1>16, <2>1 DEF GetUnreferencedChunks
  <2>2. CASE op' = PastLoop(o)
    <3>1. /\ o \in Operation /\ o.pc = "gcDel" /\ o.gc = G
          /\ o.ino = op.ino /\ o.data = op.data
      BY <1>0 DEF Operation
    <3>2. ASSUME NEW c \in G
          PROVE  \A i \in Ino : c \notin Elems(fileChunks[i])
      <4>1. refCount[c] \in Int /\ refCount[c] <= 0 /\ c \in ChunkID
        BY <1>0
      <4>2. refCount[c] >= Cardinality(Rows(fileChunks, c))
        BY <1>0, <4>1 DEF RefCountCovers, RefsTo, Rows, Places
      <4>3. QED
        BY <1>0, <4>1, <4>2, NoRows
    <3> HIDE DEF o, G
    <3>3. Progress(o, fileChunks, backend, size)
      BY <1>0, <1>16, <3>1, <3>2 DEF GetUnreferencedChunks, Progress
    <3>4. Progress(op', fileChunks, backend, size)
      BY <2>2, <3>1, <3>3, PastLoopProgress
    <3>5. QED
      BY <1>1, <1>16, <3>4 DEF GetUnreferencedChunks
  <2>3. QED
    BY <1>16, <2>1, <2>2 DEF GetUnreferencedChunks, Continue, Return
<1>17. CASE CollectBlob
  <2>1. PICK c \in op.gc : /\ backend' \in {backend, backend \ {c}}
                           /\ op' = [op EXCEPT !.pc = "gcRec", !.todo = <<c>>]
    BY <1>17 DEF CollectBlob
  <2>2. /\ op'.pc = "gcRec" /\ Head(op'.todo) = c /\ op'.gc = op.gc
        /\ op'.data = op.data /\ op'.ino = op.ino
    BY <1>0, <2>1 DEF Operation
  <2>3. op.pc = "gcDel" /\ op.ino \in Ino
    BY <1>0, <1>17 DEF CollectBlob, Shape
  <2>4. \A i \in Ino : c \notin Elems(fileChunks[i])
    BY <1>0, <2>1, <2>3 DEF Progress
  <2>5. op.data # <<>> => Elems(WriteFile(op.data)) \subseteq backend'
    BY <1>0, <2>1, <2>3, <2>4 DEF Progress
  <2>6. Progress(op', fileChunks, backend', size)
    BY <1>0, <2>1, <2>2, <2>3, <2>5 DEF Progress
  <2>7. QED
    BY <1>1, <1>17, <2>6 DEF CollectBlob
<1>18. CASE CollectRecord
  <2> DEFINE c == Head(op.todo)
             o == [op EXCEPT !.pc = "gcDel", !.todo = <<>>, !.gc = @ \ {c}]
  <2>1. op.pc = "gcRec" /\ c \in op.gc /\ c \in ChunkID
    BY <1>0, <1>3, <1>18 DEF CollectRecord, Progress
  <2>2. /\ o \in Operation /\ o.pc = "gcDel" /\ o.gc = op.gc \ {c}
        /\ o.ino = op.ino /\ o.data = op.data
    BY <1>0, EmptySeq DEF Operation
  <2>3. op' = PastLoop(o)
    BY <1>18 DEF CollectRecord, Continue
  <2>4. \A i \in Ino : c \notin Elems(fileChunks[i])
    BY <1>0, <2>1 DEF Progress
  <2>5. \/ UNCHANGED <<records, refCount>>
        \/ records' = records \ {c} /\ refCount' = [refCount EXCEPT ![c] = 0]
    BY <1>18 DEF CollectRecord
  <2>6. fileChunks' = fileChunks /\ backend' = backend /\ size' = size
    BY <1>18 DEF CollectRecord
  <2> HIDE DEF o, c
  <2>7. Progress(o, fileChunks, backend, size)
    BY <1>0, <2>1, <2>2 DEF Progress
  <2>8. Progress(op', fileChunks, backend, size)
    BY <2>2, <2>3, <2>7, PastLoopProgress
  <2>9. RefCountCovers'
    <3>1. CASE UNCHANGED <<records, refCount>>
      BY <1>1, <2>6, <3>1
    <3>2. CASE records' = records \ {c} /\ refCount' = [refCount EXCEPT ![c] = 0]
      <4>1. ~Mapped(c) /\ Cardinality(RefsTo(c)) = 0
        BY <1>0, <2>4, UnmappedHasNoRows, RefsToRows DEF Mapped
      <4>2. \A d \in ChunkID : Mapped(d)' = Mapped(d) /\ RefsTo(d)' = RefsTo(d)
        BY <2>6 DEF Mapped, RefsTo
      <4>3. \A d \in ChunkID : refCount'[d] = IF d = c THEN 0 ELSE refCount[d]
        BY <1>0, <3>2
      <4>4. QED
        BY <1>0, <3>2, <4>1, <4>2, <4>3 DEF RefCountCovers
    <3>3. QED
      BY <2>5, <3>1, <3>2
  <2>10. QED
    BY <2>6, <2>8, <2>9
<1>19. CASE RemoveFileChunks
  <2>1. op.ino \in Ino
    BY <1>0, <1>19 DEF RemoveFileChunks, Shape
  <2>2. CASE op' = NoOp /\ UNCHANGED fileChunks
    BY <1>1, <1>2, <1>19, <2>2 DEF RemoveFileChunks
  <2>3. CASE fileChunks' = [fileChunks EXCEPT ![op.ino] = <<>>] /\ Goto("rmNode")
    <3>1. op'.pc = "rmNode"
      BY <1>0, <2>3 DEF Goto, Operation
    <3>2. <<>> \in Seq(ChunkID) /\ records' = records /\ refCount' = refCount
      BY <1>19, EmptySeq DEF RemoveFileChunks
    <3>3. ASSUME NEW c \in ChunkID
          PROVE  /\ refCount'[c] >= Cardinality(Rows(fileChunks', c))
                 /\ Mapped(c)' => c \in records'
      <4>1. Cardinality(Rows([fileChunks EXCEPT ![op.ino] = <<>>], c))
              = Cardinality(Rows(fileChunks, c)) - Occ(fileChunks[op.ino], c) + Occ(<<>>, c)
        BY <1>0, <2>1, <3>2, RowsOfUpdate
      <4>2. Cardinality(Rows(fileChunks, c)) \in Nat
        BY <1>0, <2>1, <3>2, RowsOfUpdate
      <4>3. Occ(<<>>, c) = 0
        <5>1. {k \in DOMAIN <<>> : <<>>[k] = c} = {}
          OBVIOUS
        <5>2. QED
          BY <5>1, FS_EmptySet DEF Occ
      <4>4. Occ(fileChunks[op.ino], c) \in Nat
        BY <1>0, <2>1, OccType
      <4>5. refCount[c] >= Cardinality(Rows(fileChunks, c)) /\ refCount[c] \in Int
        BY <1>0 DEF RefCountCovers, RefsTo, Rows, Places
      <4>6. refCount'[c] >= Cardinality(Rows(fileChunks', c))
        BY <2>3, <3>2, <4>1, <4>2, <4>3, <4>4, <4>5
      <4>7. Mapped(c)' => Mapped(c)
        BY <1>0, <2>1, <2>3 DEF Mapped, Elems
      <4>8. QED
        BY <1>0, <3>2, <4>6, <4>7 DEF RefCountCovers
    <3>4. RefCountCovers'
      BY <3>3 DEF RefCountCovers, RefsTo, Rows, Places
    <3>5. QED
      BY <3>1, <3>4 DEF Progress
  <2>4. QED
    BY <1>19, <2>2, <2>3 DEF RemoveFileChunks, Return
<1>20. CASE RemoveInode
  <2>1. CASE op' = NoOp
    BY <1>1, <1>2, <1>20, <2>1 DEF RemoveInode
  <2>2. CASE Goto(op.then) /\ op.then # "idle"
    <3>1. op.data = <<>> /\ op.then = "gcList"
      BY <1>0, <1>20, <2>2 DEF RemoveInode, Shape, Operation
    <3>2. op'.pc = "gcList" /\ op'.data = <<>>
      BY <1>0, <2>2, <3>1 DEF Goto, Operation
    <3>3. QED
      BY <1>1, <1>20, <3>2 DEF RemoveInode, Progress
  <2>3. QED
    BY <1>20, <2>1, <2>2 DEF RemoveInode, Return
<1>21. CASE Crash
  BY <1>1, <1>2, <1>21 DEF Crash, Return
<1>22. CASE \/ \E i \in Ino, f \in Fh : Open(i, f)
            \/ \E f \in Fh : Write(f) \/ TruncateHandle(f)
            \/ UNCHANGED vars
  BY <1>4, <1>22 DEF Open, Write, TruncateHandle, vars
<1>23. CASE \E i \in Ino : Mknod(i) \/ \E f \in Fh : Create(i, f)
  BY <1>4, <1>23 DEF Mknod, Create
<1>24. QED
  BY <1>5, <1>6, <1>7, <1>8, <1>9, <1>10, <1>11, <1>12, <1>13, <1>14, <1>15, <1>16,
     <1>17, <1>18, <1>19, <1>20, <1>21, <1>22, <1>23 DEF Next, Handlers, Steps

LEMMA InitInv == Init => IInv
<1> SUFFICES ASSUME Init PROVE IInv
  OBVIOUS
<1>1. <<>> \in Seq(ChunkID) /\ WellCut(<<>>) /\ Elems(<<>>) = {}
  BY EmptySeq DEF WellCut, Elems
<1>2. TypeInv
  BY InitType
<1>3. ASSUME NEW c \in ChunkID
      PROVE  ~Mapped(c) /\ Cardinality(RefsTo(c)) = 0
  <2>1. \A i \in Ino : c \notin Elems(fileChunks[i])
    BY <1>1 DEF Init
  <2>2. fileChunks \in [Ino -> Seq(ChunkID)]
    BY <1>2 DEF TypeInv, TypeOK
  <2>3. QED
    BY <2>1, <2>2, UnmappedHasNoRows, RefsToRows DEF Mapped
<1>4. RefCountCovers
  BY <1>3 DEF Init, RefCountCovers
<1>5. Progress(op, fileChunks, backend, size)
  BY DEF Init, Progress, NoOp
<1>6. QED
  BY <1>2, <1>4, <1>5 DEF IInv

LEMMA Invariance == Spec => []IInv
BY InitInv, Step, PTL DEF Spec

\* The reference counts never undercount, whatever fails and whenever it crashes.
THEOREM RefCountsCorrect == Spec => []RefCountCovers
<1>1. IInv => RefCountCovers
  BY DEF IInv
<1>2. QED
  BY <1>1, Invariance, PTL

\* A collection never deletes a chunk that a file maps.
THEOREM CollectionCorrect == Spec => CollectionSparesMapped
<1> DEFINE Spares == \A c \in backend \ backend' :
          Mapped(c) =>
             \/ op.pc \in {"delOld", "truncDel"} /\ c \in Elems(fileChunks[op.ino])
             \/ /\ op.pc = "put" /\ c = Head(op.todo)
                /\ faults' > faults \/ crashes' > crashes
<1>1. ASSUME IInv, [Next]_vars
      PROVE  Spares
  <2> USE DEF meta
  <2>1. op \in Operation /\ Shape(op) /\ Progress(op, fileChunks, backend, size)
    BY <1>1 DEF IInv, TypeInv, TypeOK
  <2>2. CASE DeleteOld \/ TruncateDelete
    <3>1. op.pc \in {"delOld", "truncDel"} /\ backend \ backend' \subseteq {Head(op.todo)}
      BY <2>2 DEF DeleteOld, TruncateDelete
    <3>2. Head(op.todo) \in Elems(fileChunks[op.ino])
      BY <2>1, <3>1, ElemsHeadTail DEF Shape, Progress, Operation
    <3>3. QED
      BY <3>1, <3>2
  <2>3. CASE CollectBlob
    <3>1. backend \ backend' \subseteq op.gc /\ op.pc = "gcDel"
      BY <2>3 DEF CollectBlob
    <3>2. QED
      BY <2>1, <3>1 DEF Progress, Mapped
  <2>4. CASE PutChunk \/ Crash
    <3>1. faults \in Nat /\ crashes \in Nat
      BY <1>1 DEF IInv, TypeInv, TypeOK
    <3>2. QED
      BY <2>4, <3>1 DEF PutChunk, Crash, Works, Fails
  <2>5. CASE UNCHANGED backend
    BY <2>5
  <2>6. \/ DeleteOld \/ TruncateDelete \/ CollectBlob \/ PutChunk \/ Crash
        \/ UNCHANGED backend
    BY <1>1 DEF Next, Handlers, Steps, Create, Mknod, Open, Write, TruncateHandle,
       TruncateToZero, TruncatePath, Flush, Release, Unlink, RenameOver, CommitChunks,
       SetSize, SetEmpty, SizeZero, GetUnreferencedChunks, CollectRecord,
       RemoveFileChunks, RemoveInode, vars
  <2>7. QED
    BY <2>2, <2>3, <2>4, <2>5, <2>6
<1>2. IInv /\ [Next]_vars => [Spares]_vars
  BY <1>1
<1>3. QED
  BY <1>2, Invariance, PTL DEF Spec, CollectionSparesMapped

\* From the moment a flush sets the size until it returns, the file is what was
\* flushed, and all of it can be read.
THEOREM FlushCorrect == Spec => []FlushedDataInPlace
<1>1. IInv => FlushedDataInPlace
  BY DEF IInv, Progress, FlushedDataInPlace
<1>2. QED
  BY <1>1, Invariance, PTL

\* And it reads back: loadFileData, called on the file of a flush that has set the size,
\* fails at no chunk and returns what was flushed, byte by byte.
THEOREM FlushReadsBack ==
    Spec => [](op.pc \in {"gcList", "gcDel", "gcRec"} /\ op.data # <<>> =>
                  /\ op.ino \in nodes => Loadable(op.ino)
                  /\ LoadFileData(op.ino) = op.data)
<1>1. ASSUME IInv, op.pc \in {"gcList", "gcDel", "gcRec"}, op.data # <<>>
      PROVE  /\ op.ino \in nodes => Loadable(op.ino)
             /\ LoadFileData(op.ino) = op.data
  <2>1. /\ fileChunks[op.ino] = WriteFile(op.data)
        /\ size[op.ino] = Len(op.data)
        /\ Elems(fileChunks[op.ino]) \subseteq backend
    BY <1>1 DEF IInv, Progress
  <2>2. op.data \in Seq(Byte)
    BY <1>1 DEF IInv, TypeInv, TypeOK, Operation
  <2>3. ReadFile(fileChunks[op.ino]) = op.data
    BY <2>1, <2>2, RoundTrip
  <2>4. ~(Len(op.data) > size[op.ino]) /\ size[op.ino] # 0
    BY <1>1, <2>1, <2>2, LenProperties, EmptySeq
  <2>5. QED
    BY <2>1, <2>3, <2>4 DEF Loadable, LoadFileData
<1>2. QED
  BY <1>1, Invariance, PTL

-----------------------------------------------------------------------------
(* Sizes *)

Between == {"setSize", "sizeZero", "rmNode"}

\* While nothing failed, a size and its list differ only between the two statements
\* that set them.
Sized(i) ==
    IF op.ino = i /\ op.pc \in Between
      THEN fileChunks[i] = IF op.pc = "setSize" THEN WriteFile(op.data) ELSE <<>>
      ELSE size[i] = Len(ReadFile(fileChunks[i]))

Quiet == faults = 0 /\ crashes = 0

SizeInv == TypeInv /\ (Quiet => \A i \in Ino : Sized(i))

LEMMA PastLoopPlain ==
    ASSUME NEW o \in Operation, o.pc \notin Between
    PROVE  PastLoop(o).pc \notin Between
<1>1. NoOp.pc \notin Between  BY DEF NoOp, Between
<1>2. CASE o.pc \in {"delOld", "truncDel"} /\ o.todo = <<>> /\ o.data = <<>>
  BY <1>2 DEF PastLoop, Operation, Between
<1>3. CASE o.pc = "delOld" /\ o.todo = <<>> /\ o.data # <<>>
  BY <1>3 DEF PastLoop, Operation, Between
<1>4. CASE o.pc = "put" /\ o.todo = <<>>
  BY <1>4 DEF PastLoop, Operation, Between
<1>5. CASE o.pc = "gcDel" /\ o.gc = {}
  BY <1>1, <1>5 DEF PastLoop
<1>6. CASE ~ \/ o.pc \in {"delOld", "truncDel"} /\ o.todo = <<>> /\ o.data = <<>>
             \/ o.pc = "delOld" /\ o.todo = <<>> /\ o.data # <<>>
             \/ o.pc = "put" /\ o.todo = <<>>
             \/ o.pc = "gcDel" /\ o.gc = {}
  <2>1. PastLoop(o) = o  BY <1>6 DEF PastLoop
  <2>2. QED  BY <2>1
<1>7. QED  BY <1>2, <1>3, <1>4, <1>5, <1>6

\* A step that is between no two statements and changes neither table.
LEMMA PlainStep ==
    ASSUME \A i \in Ino : Sized(i), UNCHANGED <<size, fileChunks>>,
           op.pc \notin Between, op'.pc \notin Between
    PROVE  \A i \in Ino : Sized(i)'
BY DEF Sized, Between

LEMMA WriteFileDataPlain ==
    ASSUME TypeInv, NEW i \in Ino, NEW data \in Seq(Byte), WriteFileData(i, data)
    PROVE  op'.pc \notin Between
<1> DEFINE start == [NoOp EXCEPT !.pc = "delOld", !.ino = i, !.data = data]
           walk == [start EXCEPT !.todo = fileChunks[i]]
<1>1. start \in Operation /\ start.pc = "delOld"
  BY NoOpType DEF Operation, NoOp
<1>2. walk \in Operation /\ walk.pc = "delOld"
  BY <1>1 DEF Operation, NoOp, TypeInv, TypeOK
<1>3. op' = PastLoop(start) \/ op' = PastLoop(walk)
  BY DEF WriteFileData, Continue
<1> HIDE DEF start, walk
<1>4. QED
  BY <1>1, <1>2, <1>3, PastLoopPlain DEF Between

\* The beginning of a handler is plain.
LEMMA HandlerPlain ==
    ASSUME TypeInv, Handlers
    PROVE  op.pc \notin Between /\ op'.pc \notin Between /\ UNCHANGED <<size, fileChunks>>
<1> USE DEF meta
<1>1. op.pc = "idle" /\ UNCHANGED <<size, fileChunks>>
  BY DEF Handlers, Create, Open, Mknod, TruncateToZero, TruncatePath, Unlink, RenameOver,
         Write, TruncateHandle, Flush, Release, Idle
<1>2. ASSUME UNCHANGED op PROVE op'.pc \notin Between
  BY <1>1, <1>2 DEF Between
<1>3. ASSUME NEW i \in Ino, NEW f \in Fh, Create(i, f) \/ Open(i, f)
      PROVE  op'.pc \notin Between
  BY <1>2, <1>3 DEF Create, Open
<1>4. ASSUME NEW i \in Ino, Mknod(i)
      PROVE  op'.pc \notin Between
  BY <1>2, <1>4 DEF Mknod
<1>5. ASSUME NEW i \in Ino, TruncateToZero(i)
      PROVE  op'.pc \notin Between
  <2> DEFINE o == [NoOp EXCEPT !.pc = "truncDel", !.ino = i, !.todo = fileChunks[i]]
  <2>1. o \in Operation /\ o.pc \notin Between
    BY NoOpType DEF Operation, NoOp, TypeInv, TypeOK, Between
  <2>2. op' = PastLoop(o)
    BY <1>5 DEF TruncateToZero, Continue
  <2> HIDE DEF o
  <2>3. QED
    BY <2>1, <2>2, PastLoopPlain
<1>6. ASSUME NEW i \in Ino, TruncatePath(i)
      PROVE  op'.pc \notin Between
  <2>1. PICK n \in 1..MaxLen : WriteFileData(i, Resize(LoadFileData(i), n))
    BY <1>6 DEF TruncatePath
  <2>2. Resize(LoadFileData(i), n) \in Seq(Byte)
    BY LoadFileDataType, ResizeType, BumFSAssumption
  <2>3. QED
    BY <2>1, <2>2, WriteFileDataPlain
<1>7. ASSUME NEW i \in Ino, Unlink(i) \/ RenameOver(i)
      PROVE  op'.pc \notin Between
  <2>1. PICK then \in {"idle", "gcList"} :
          op' = [NoOp EXCEPT !.pc = "rmChunks", !.ino = i, !.then = then]
    BY <1>7 DEF Unlink, RenameOver, RemoveNode
  <2>2. QED
    BY <2>1 DEF NoOp, Between
<1>8. ASSUME NEW f \in Fh, Write(f) \/ TruncateHandle(f)
      PROVE  op'.pc \notin Between
  BY <1>2, <1>8 DEF Write, TruncateHandle
<1>9. ASSUME NEW f \in Fh, Flush(f)
      PROVE  op'.pc \notin Between
  <2>1. handles[f].ino \in Ino /\ handles[f].buf \in Seq(Byte)
    BY <1>9, BufferedType DEF Flush, Handle
  <2>2. QED
    BY <1>9, <2>1, WriteFileDataPlain DEF Flush
<1>10. ASSUME NEW f \in Fh, Release(f)
       PROVE  op'.pc \notin Between
  <2>1. handles[f].ino \in Ino /\ handles[f].buf \in Seq(Byte)
    BY <1>10, BufferedType DEF Release, Handle
  <2>2. QED
    BY <1>2, <1>10, <2>1, WriteFileDataPlain DEF Release
<1>11. QED
  BY <1>1, <1>3, <1>4, <1>5, <1>6, <1>7, <1>8, <1>9, <1>10 DEF Handlers, Between

\* So are the steps that leave both tables alone.
LEMMA LoopPlain ==
    ASSUME TypeInv,
           \/ DeleteOld \/ PutChunk \/ GetUnreferencedChunks \/ CollectBlob
           \/ CollectRecord \/ TruncateDelete
    PROVE  op.pc \notin Between /\ op'.pc \notin Between /\ UNCHANGED <<size, fileChunks>>
<1> USE DEF meta
<1>1. op \in Operation /\ (op.todo # <<>> => Tail(op.todo) \in Seq(ChunkID))
  BY HeadTailProperties DEF TypeInv, TypeOK, Operation
<1>2. NoOp.pc \notin Between  BY DEF NoOp, Between
<1>3. CASE DeleteOld \/ PutChunk \/ TruncateDelete
  <2>1. op.todo # <<>>  BY <1>3 DEF TypeInv, Shape, DeleteOld, PutChunk, TruncateDelete
  <2> DEFINE o == [op EXCEPT !.todo = Tail(@)]
             e == [op EXCEPT !.todo = <<>>]
  <2>2. o \in Operation /\ o.pc \notin Between /\ e \in Operation /\ e.pc \notin Between
    BY <1>1, <1>3, <2>1, EmptySeq DEF Operation, DeleteOld, PutChunk, TruncateDelete, Between
  <2>3. op' \in {PastLoop(o), PastLoop(e), NoOp}
    BY <1>3 DEF DeleteOld, PutChunk, TruncateDelete, Continue, Return
  <2> HIDE DEF o, e
  <2>4. op'.pc \notin Between  BY <1>2, <2>2, <2>3, PastLoopPlain
  <2>5. QED
    BY <1>3, <2>4 DEF DeleteOld, PutChunk, TruncateDelete, Between
<1>4. CASE GetUnreferencedChunks
  <2> DEFINE o == [op EXCEPT !.pc = "gcDel", !.gc = {c \in records : refCount[c] <= 0}]
  <2>1. o \in Operation /\ o.pc \notin Between
    BY <1>1 DEF Operation, TypeInv, TypeOK, Between
  <2>2. op' \in {PastLoop(o), NoOp}
    BY <1>4 DEF GetUnreferencedChunks, Continue, Return
  <2> HIDE DEF o
  <2>3. op'.pc \notin Between  BY <1>2, <2>1, <2>2, PastLoopPlain
  <2>4. QED
    BY <1>4, <2>3 DEF GetUnreferencedChunks, Between
<1>5. CASE CollectBlob
  <2>1. op'.pc = "gcRec"  BY <1>1, <1>5 DEF CollectBlob, Operation
  <2>2. QED
    BY <1>5, <2>1 DEF CollectBlob, Between
<1>6. CASE CollectRecord
  <2> DEFINE o == [op EXCEPT !.pc = "gcDel", !.todo = <<>>, !.gc = @ \ {Head(op.todo)}]
  <2>1. o \in Operation /\ o.pc \notin Between
    BY <1>1, EmptySeq DEF Operation, Between
  <2>2. op' = PastLoop(o)
    BY <1>6 DEF CollectRecord, Continue
  <2> HIDE DEF o
  <2>3. op'.pc \notin Between  BY <2>1, <2>2, PastLoopPlain
  <2>4. QED
    BY <1>6, <2>3 DEF CollectRecord, Between
<1>7. QED
  BY <1>3, <1>4, <1>5, <1>6

LEMMA SizeStep == SizeInv /\ [Next]_vars => SizeInv'
<1> SUFFICES ASSUME SizeInv, [Next]_vars PROVE SizeInv'
  OBVIOUS
<1> USE DEF meta
<1>1. TypeInv'  BY TypeStep DEF SizeInv
<1>2. /\ op \in Operation /\ Shape(op) /\ TypeInv
      /\ fileChunks \in [Ino -> Seq(ChunkID)] /\ size \in [Ino -> Nat]
  BY DEF SizeInv, TypeInv, TypeOK
<1> SUFFICES ASSUME Quiet' PROVE \A i \in Ino : Sized(i)'
  BY <1>1 DEF SizeInv
<1>3. (Quiet /\ Works) \/ UNCHANGED vars
  <2>1. faults \in Nat /\ crashes \in Nat
    BY <1>2, BumFSAssumption DEF TypeInv, TypeOK
  <2>2. faults' = 0 /\ crashes' = 0  BY DEF Quiet
  <2>3. ~Crash /\ ~Fails  BY <2>1, <2>2 DEF Crash, Fails
  <2>4. CASE Handlers
    BY <2>1, <2>2, <2>3, <2>4
    DEF Handlers, Create, Open, Mknod, TruncateToZero, TruncatePath, Unlink, RenameOver,
        Write, TruncateHandle, Flush, Release, WriteFileData, Works, Quiet
  <2>5. CASE Steps
    BY <2>1, <2>2, <2>3, <2>5
    DEF Steps, DeleteOld, PutChunk, CommitChunks, SetSize, SetEmpty, SizeZero,
        GetUnreferencedChunks, CollectBlob, CollectRecord, TruncateDelete,
        RemoveFileChunks, RemoveInode, Works, Quiet
  <2>6. QED
    BY <2>3, <2>4, <2>5 DEF Next
<1>4. CASE UNCHANGED vars
  <2>1. Quiet  BY <1>4 DEF Quiet, vars
  <2>2. QED  BY <1>4, <2>1 DEF SizeInv, Sized, vars
<1>5. CASE Quiet /\ Next
  <2>0. \A i \in Ino : Sized(i)  BY <1>5 DEF SizeInv
  <2>1. ~Fails /\ ~Crash
    <3>1. faults \in Nat /\ crashes \in Nat /\ faults' = 0 /\ crashes' = 0
      BY <1>2, BumFSAssumption DEF TypeInv, TypeOK, Quiet
    <3>2. QED  BY <3>1 DEF Crash, Fails
  <2>2. CASE Handlers  BY <1>2, <2>0, <2>2, HandlerPlain, PlainStep
  <2>3. CASE \/ DeleteOld \/ PutChunk \/ GetUnreferencedChunks \/ CollectBlob
             \/ CollectRecord \/ TruncateDelete
    BY <1>2, <2>0, <2>3, LoopPlain, PlainStep
  <2>4. CASE CommitChunks
    <3>1. op.ino \in Ino  BY <1>2, <2>4 DEF CommitChunks, Shape
    <3>2. CASE SetFileChunks(op.ino, WriteFile(op.data)) /\ Goto("setSize")
      <4>1. op'.pc = "setSize" /\ op'.ino = op.ino /\ op'.data = op.data
        BY <1>2, <3>2 DEF Goto, Operation
      <4>2. \A i \in Ino : fileChunks'[i] = IF i = op.ino THEN WriteFile(op.data) ELSE fileChunks[i]
        BY <1>2, <3>2 DEF SetFileChunks
      <4>3. QED  BY <2>0, <2>4, <4>1, <4>2 DEF Sized, Between, CommitChunks
    <3>3. CASE UNCHANGED <<size, fileChunks>> /\ Return
      <4>1. op'.pc \notin Between /\ op.pc \notin Between
        BY <2>4, <3>3 DEF Return, NoOp, Between, CommitChunks
      <4>2. QED  BY <2>0, <3>3, <4>1, PlainStep
    <3>4. QED  BY <2>1, <2>4, <3>2, <3>3 DEF CommitChunks
  <2>5. CASE SetSize
    <3>1. op.ino \in Ino /\ op.data \in Seq(Byte) /\ op.pc = "setSize"
      BY <1>2, <2>5 DEF SetSize, Shape, Operation
    <3>2. ReadFile(fileChunks[op.ino]) = op.data
      BY <2>0, <3>1, RoundTrip DEF Sized, Between
    <3>3. /\ UNCHANGED fileChunks /\ op'.pc = "gcList"
          /\ \A i \in Ino : size'[i] = IF i = op.ino THEN Len(op.data) ELSE size[i]
      BY <1>2, <2>1, <2>5 DEF SetSize, Goto, Operation
    <3>4. QED  BY <2>0, <3>1, <3>2, <3>3 DEF Sized, Between
  <2>6. Len(ReadFile(<<>>)) = 0  BY EmptySeq DEF ReadFile
  <2>7. CASE SetEmpty
    <3>1. op'.pc = "sizeZero" /\ op'.ino = op.ino /\ UNCHANGED size
      BY <1>2, <2>7 DEF SetEmpty, Goto, Operation
    <3>2. \A i \in Ino : fileChunks'[i] = IF i = op.ino THEN <<>> ELSE fileChunks[i]
      BY <1>2, <2>1, <2>7 DEF SetEmpty, SetFileChunks
    <3>3. QED  BY <2>0, <2>7, <3>1, <3>2 DEF Sized, Between, SetEmpty
  <2>8. CASE SizeZero
    <3>1. /\ UNCHANGED fileChunks /\ op'.pc \notin Between /\ op.pc = "sizeZero"
          /\ \A i \in Ino : size'[i] = IF i = op.ino THEN 0 ELSE size[i]
      BY <1>2, <2>1, <2>8 DEF SizeZero, Return, NoOp, Between
    <3>2. QED  BY <2>0, <2>6, <3>1 DEF Sized, Between
  <2>9. CASE RemoveFileChunks
    <3>1. op'.pc = "rmNode" /\ op'.ino = op.ino /\ UNCHANGED size /\ op.pc = "rmChunks"
      BY <1>2, <2>1, <2>9 DEF RemoveFileChunks, Goto, Operation
    <3>2. \A i \in Ino : fileChunks'[i] = IF i = op.ino THEN <<>> ELSE fileChunks[i]
      BY <1>2, <2>1, <2>9 DEF RemoveFileChunks
    <3>3. QED  BY <2>0, <3>1, <3>2 DEF Sized, Between
  <2>10. CASE RemoveInode
    <3>1. /\ UNCHANGED fileChunks /\ op.pc = "rmNode"
          /\ \A i \in Ino : size'[i] = IF i = op.ino THEN 0 ELSE size[i]
      BY <1>2, <2>1, <2>10 DEF RemoveInode
    <3>2. op'.pc \notin Between
      BY <1>2, <2>1, <2>10 DEF RemoveInode, Return, Goto, NoOp, Between, Operation
    <3>3. QED  BY <2>0, <2>6, <3>1, <3>2 DEF Sized, Between
  <2>11. QED
    BY <1>5, <2>1, <2>2, <2>3, <2>4, <2>5, <2>7, <2>8, <2>9, <2>10 DEF Next, Steps
<1>6. QED
  BY <1>3, <1>4, <1>5

\* Between handlers, when nothing failed, what a file says of its size is what Read
\* returns, through whatever handles it is written and truncated and however their
\* flushes come.
THEOREM SizeCorrect == Spec => []SizeAgrees
<1>1. Init => SizeInv
  <2> SUFFICES ASSUME Init PROVE SizeInv
    OBVIOUS
  <2>1. TypeInv
    BY InitType
  <2>2. Len(ReadFile(<<>>)) = 0  BY EmptySeq DEF ReadFile
  <2>3. QED  BY <2>1, <2>2 DEF Init, SizeInv, Sized, NoOp, Between
<1>2. SizeInv => SizeAgrees
  <2> SUFFICES ASSUME SizeInv, Undisturbed PROVE SizeAgrees
    BY DEF SizeAgrees
  <2>1. \A i \in Ino : size[i] = Len(ReadFile(fileChunks[i]))
    BY DEF SizeInv, Sized, Undisturbed, Quiet, Idle, Between
  <2>2. nodes \subseteq Ino  BY DEF SizeInv, TypeInv, TypeOK
  <2>3. \A f \in Fh : handles[f] # Closed /\ handles[f].ino \in nodes =>
                         StatSize(handles[f]) = Len(ReadHandle(handles[f]))
    BY <2>1, <2>2, EmptySeq DEF StatSize, ReadHandle
  <2>4. QED  BY <2>1, <2>2, <2>3 DEF SizeAgrees
<1>3. QED
  BY <1>1, <1>2, SizeStep, PTL DEF Spec

=============================================================================
