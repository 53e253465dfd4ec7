-------------------------- MODULE ChunkLoop_proofs --------------------------
(* The loops of WriteFile and ReadFile compute the closed forms of Chunks, for *)
(* every file, every chunk size and every bound on the length.                 *)
EXTENDS ChunkLoop, Chunks_proofs

\* The end of the bytes that the first k chunks of n bytes hold.
LEMMA EndOfFirst ==
    ASSUME NEW n \in Nat, NEW k \in 0..NumChunks(n)
    PROVE  /\ ChunkEnd(n, k) \in 0..n
           /\ k < NumChunks(n) => ChunkEnd(n, k) = k * ChunkSize
           /\ k = NumChunks(n) => ChunkEnd(n, k) = n
           /\ k = 0 => ChunkEnd(n, k) = 0
<1>1. /\ NumChunks(n) \in Nat /\ n <= NumChunks(n) * ChunkSize
  BY NumChunksBounds
<1>2. k * ChunkSize \in Nat /\ NumChunks(n) * ChunkSize \in Nat
  BY <1>1, ChunkSizeAssumption
<1>3. ChunkEnd(n, k) \in 0..n
  BY <1>2 DEF ChunkEnd
<1>4. k = NumChunks(n) => ChunkEnd(n, k) = n
  BY <1>1, <1>2 DEF ChunkEnd
<1>5. k = 0 => ChunkEnd(n, k) = 0
  BY ChunkSizeAssumption DEF ChunkEnd
<1>6. CASE k # 0
  <2>1. k \in 1..NumChunks(n)  BY <1>1, <1>6
  <2> QED  BY <1>3, <1>4, <1>6, <2>1, ChunkBounds
<1>7. CASE k = 0
  <2>1. ChunkEnd(n, k) = k * ChunkSize  BY <1>5, <1>7, ChunkSizeAssumption
  <2> QED  BY <1>3, <1>4, <1>5, <2>1
<1> QED  BY <1>6, <1>7

\* The loop of WriteFile takes a further turn as long as chunks are missing.
LEMMA TurnsTaken ==
    ASSUME NEW n \in Nat, NEW k \in 0..NumChunks(n)
    PROVE  k * ChunkSize < n <=> k < NumChunks(n)
<1>1. /\ NumChunks(n) \in Nat /\ n <= NumChunks(n) * ChunkSize
      /\ NumChunks(n) * ChunkSize < n + ChunkSize
  BY NumChunksBounds
<1> PICK m \in Nat : m = NumChunks(n)  BY <1>1
<1>2. k = m => ~(k * ChunkSize < n)
  BY <1>1, ChunkSizeAssumption
<1>3. k < m => (k + 1) * ChunkSize <= m * ChunkSize
  BY ChunkSizeAssumption
<1>4. (k + 1) * ChunkSize = k * ChunkSize + ChunkSize /\ k * ChunkSize \in Nat
      /\ m * ChunkSize \in Nat
  BY ChunkSizeAssumption
<1> QED  BY <1>1, <1>2, <1>3, <1>4, ChunkSizeAssumption

-----------------------------------------------------------------------------

\* While WriteFile runs, the chunks so far are the first ones of the closed form
\* and i is where the next one starts.
Writing ==
    /\ Len(refs) \in 0..NumChunks(Len(data))
    /\ i = Len(refs) * ChunkSize
    /\ \A k \in 1..Len(refs) : refs[k] = WriteFile(data)[k]
    /\ next = 1 /\ out = <<>>

\* While ReadFile runs, out holds the bytes of the chunks before next.
Reading ==
    /\ refs = WriteFile(data)
    /\ next - 1 \in 0..NumChunks(Len(data))
    /\ out = SubSeq(data, 1, ChunkEnd(Len(data), next - 1))

LoopInv ==
    /\ TypeOK
    /\ pc = "write" => Writing
    /\ pc # "write" => Reading
    /\ pc = "done" => next = NumChunks(Len(data)) + 1

LEMMA InputType == \A d \in SeqUpTo(Byte, MaxLen) : d \in Seq(Byte)
<1> TAKE d \in SeqUpTo(Byte, MaxLen)
<1>1. PICK m \in 0..MaxLen : d \in [1..m -> Byte]  BY DEF SeqUpTo
<1> QED  BY <1>1, MaxLenAssumption

LEMMA StartsWriting ==
    ASSUME NEW d \in Seq(Byte), data = d, i = 0, refs = <<>>, next = 1, out = <<>>, pc = "write"
    PROVE  LoopInv
<1>1. NumChunks(Len(d)) \in Nat  BY NumChunksBounds, LenProperties
<1>2. <<>> \in Seq(ChunkID) /\ <<>> \in Seq(Byte) /\ Len(<<>>) = 0  BY EmptySeq
<1>3. 0 = 0 * ChunkSize  BY ChunkSizeAssumption
<1>4. TypeOK  BY <1>2 DEF TypeOK
<1>5. Writing  BY <1>1, <1>2, <1>3 DEF Writing
<1> QED  BY <1>4, <1>5 DEF LoopInv

LEMMA WriteTurn ==
    ASSUME LoopInv, WriteChunk
    PROVE  LoopInv'
<1> DEFINE n == Len(data)
           k == Len(refs) + 1
           end == IF i + ChunkSize > Len(data) THEN Len(data) ELSE i + ChunkSize
<1>0. /\ data \in Seq(Byte) /\ refs \in Seq(ChunkID) /\ i \in Nat /\ i < Len(data)
      /\ n \in Nat /\ Len(refs) \in Nat /\ Writing
  BY LenProperties DEF LoopInv, TypeOK, WriteChunk
<1>1. /\ refs' = Append(refs, SubSeq(data, i + 1, end)) /\ i' = i + ChunkSize
      /\ pc' = "write" /\ UNCHANGED <<data, next, out>>
  BY DEF WriteChunk
<1>2. NumChunks(n) \in Nat /\ Len(refs) < NumChunks(n)
  <2>1. NumChunks(n) \in Nat  BY <1>0, NumChunksBounds
  <2>2. Len(refs) \in 0..NumChunks(n) /\ Len(refs) * ChunkSize < n
    BY <1>0 DEF Writing
  <2> QED  BY <1>0, <2>1, <2>2, TurnsTaken
<1>3. k \in 1..NumChunks(n) /\ k - 1 = Len(refs)
  BY <1>0, <1>2
<1>4. i = (k - 1) * ChunkSize /\ i + ChunkSize = k * ChunkSize
  <2> PICK m \in Nat : m = Len(refs)  BY <1>0
  <2>1. i = m * ChunkSize  BY <1>0 DEF Writing
  <2>2. m * ChunkSize + ChunkSize = (m + 1) * ChunkSize  BY ChunkSizeAssumption
  <2> QED  BY <1>3, <2>1, <2>2
<1>5. end = ChunkEnd(n, k)
  BY <1>4 DEF ChunkEnd
<1>6. SubSeq(data, i + 1, end) = WriteFile(data)[k]
  BY <1>3, <1>4, <1>5 DEF WriteFile
<1>7. WriteFile(data)[k] \in ChunkID
  BY <1>0, <1>3, WriteFileType, ElementOfSeq
<1> PICK c \in ChunkID : c = WriteFile(data)[k]  BY <1>7
<1>8. /\ refs' \in Seq(ChunkID) /\ Len(refs') = k
      /\ \A m \in 1..Len(refs) : refs'[m] = refs[m]
      /\ refs'[k] = c
  <2>1. refs' = Append(refs, c)  BY <1>1, <1>6
  <2>2. refs \in Seq(ChunkID)  BY <1>0
  <2> QED  BY <2>1, <2>2, AppendProperties
<1>9. i' = k * ChunkSize /\ i' \in Nat
  BY <1>0, <1>1, <1>4, ChunkSizeAssumption
<1>10. \A m \in 1..k : refs'[m] = WriteFile(data)[m]
  <2> TAKE m \in 1..k
  <2>1. CASE m \in 1..Len(refs)  BY <1>0, <1>8, <2>1 DEF Writing
  <2>2. CASE m = k  BY <1>8, <2>2
  <2> QED  BY <1>0, <2>1, <2>2
<1>11. TypeOK'
  BY <1>1, <1>8, <1>9 DEF LoopInv, TypeOK
<1> HIDE DEF k, n
<1>12. Writing'
  BY <1>0, <1>1, <1>3, <1>8, <1>9, <1>10 DEF Writing, n
<1> QED  BY <1>1, <1>11, <1>12 DEF LoopInv

LEMMA WriteEnds ==
    ASSUME LoopInv, WriteReturns
    PROVE  LoopInv'
<1> DEFINE n == Len(data)
<1>0. /\ data \in Seq(Byte) /\ refs \in Seq(ChunkID) /\ i \in Nat /\ i >= n
      /\ n \in Nat /\ Len(refs) \in Nat /\ Writing
      /\ pc' = "read" /\ UNCHANGED <<data, i, refs, next, out>>
  BY LenProperties DEF LoopInv, TypeOK, WriteReturns
<1>1. NumChunks(n) \in Nat  BY <1>0, NumChunksBounds
<1>2. Len(refs) = NumChunks(n)
  <2>1. ~(Len(refs) * ChunkSize < n)  BY <1>0 DEF Writing
  <2>2. ~(Len(refs) < NumChunks(n))  BY <1>0, <2>1, TurnsTaken DEF Writing
  <2> QED  BY <1>0, <1>1, <2>2 DEF Writing
<1>3. refs = WriteFile(data)
  <2>1. /\ WriteFile(data) \in Seq(ChunkID) /\ Len(WriteFile(data)) = Len(refs)
        /\ \A k \in 1..Len(refs) : refs[k] = WriteFile(data)[k]
    BY <1>0, <1>2, WriteFileType DEF Writing
  <2> HIDE DEF n
  <2> QED  BY <1>0, <2>1, SeqEqual
<1>4. next = 1 /\ out = <<>>  BY <1>0 DEF Writing
<1>5. ChunkEnd(n, 0) = 0  BY <1>0, <1>1, EndOfFirst
<1>6. SubSeq(data, 1, 0) = <<>>  BY SubSeqEmpty
<1>7. Reading'
  BY <1>0, <1>1, <1>3, <1>4, <1>5, <1>6 DEF Reading
<1> QED  BY <1>0, <1>7 DEF LoopInv, TypeOK

LEMMA ReadTurn ==
    ASSUME LoopInv, ReadChunk
    PROVE  LoopInv'
<1> DEFINE n == Len(data)
<1>0. /\ data \in Seq(Byte) /\ refs \in Seq(ChunkID) /\ next \in Nat \ {0} /\ Reading
      /\ n \in Nat /\ next <= Len(refs) /\ Len(refs) = NumChunks(n) /\ NumChunks(n) \in Nat
      /\ out' = out \o refs[next] /\ next' = next + 1 /\ pc' = "read"
      /\ UNCHANGED <<data, i, refs>>
  BY LenProperties, WriteFileType, NumChunksBounds DEF LoopInv, TypeOK, ReadChunk, Reading
<1> PICK k \in 1..NumChunks(n) : k = next  BY <1>0
<1>1. /\ k - 1 \in 0..NumChunks(n) /\ k - 1 < NumChunks(n)  BY <1>0
<1>2. ChunkEnd(n, k - 1) = (k - 1) * ChunkSize /\ ChunkEnd(n, k - 1) \in 0..n
  BY <1>0, <1>1, EndOfFirst
<1>3. ChunkEnd(n, k) \in Nat /\ ChunkEnd(n, k) <= n /\ ChunkEnd(n, k - 1) < ChunkEnd(n, k)
  BY <1>0, <1>2, ChunkBounds
<1>4. refs[k] = SubSeq(data, ChunkEnd(n, k - 1) + 1, ChunkEnd(n, k))
  BY <1>0, <1>2 DEF Reading, WriteFile
<1> PICK a \in 0..n : a = ChunkEnd(n, k - 1)  BY <1>2
<1> PICK b \in a..n : b = ChunkEnd(n, k)  BY <1>0, <1>2, <1>3
<1>5. out' = SubSeq(data, 1, b)
  <2>1. out = SubSeq(data, 1, a)  BY <1>0 DEF Reading
  <2>2. 1 \in 1..(n + 1) /\ a \in (1 - 1)..n /\ b \in a..n  BY <1>0
  <2>3. SubSeq(data, 1, a) \o SubSeq(data, a + 1, b) = SubSeq(data, 1, b)
    BY <1>0, <2>2, ConcatAdjacentSubSeq
  <2> QED  BY <1>0, <1>4, <2>1, <2>3
<1>6. out' \in Seq(Byte)
  <2>1. \A m \in 1..b : data[m] \in Byte  BY <1>0, ElementOfSeq
  <2>2. 1 \in Int /\ b \in Int  BY <1>0
  <2> QED  BY <1>5, <2>1, <2>2, SubSeqProperties
<1>7. next' - 1 = k /\ next' \in Nat \ {0} /\ k \in 0..NumChunks(n)  BY <1>0
<1>8. Reading'
  BY <1>0, <1>5, <1>7 DEF Reading
<1> QED  BY <1>0, <1>6, <1>7, <1>8 DEF LoopInv, TypeOK

LEMMA LoopStep == LoopInv /\ [Next]_vars => LoopInv'
<1> SUFFICES ASSUME LoopInv, [Next]_vars PROVE LoopInv'
  OBVIOUS
<1>1. CASE WriteChunk  BY <1>1, WriteTurn
<1>2. CASE WriteReturns  BY <1>2, WriteEnds
<1>3. CASE ReadChunk  BY <1>3, ReadTurn
<1>4. CASE ReadReturns
  <2>1. /\ data \in Seq(Byte) /\ next \in Nat \ {0} /\ Reading
        /\ next > Len(refs) /\ pc' = "done" /\ UNCHANGED <<data, i, refs, next, out>>
    BY <1>4 DEF LoopInv, TypeOK, ReadReturns
  <2>2. Len(refs) = NumChunks(Len(data)) /\ NumChunks(Len(data)) \in Nat
    BY <2>1, WriteFileType, NumChunksBounds, LenProperties DEF Reading
  <2>3. next = NumChunks(Len(data)) + 1
    BY <2>1, <2>2 DEF Reading
  <2>4. Reading'  BY <2>1 DEF Reading
  <2> QED  BY <2>1, <2>3, <2>4 DEF LoopInv, TypeOK
<1>5. CASE Again
  <2>1. PICK d \in SeqUpTo(Byte, MaxLen) :
           data' = d /\ pc' = "write" /\ i' = 0 /\ refs' = <<>> /\ next' = 1 /\ out' = <<>>
    BY <1>5 DEF Again
  <2>2. d \in Seq(Byte)  BY InputType
  <2>3. NumChunks(Len(d)) \in Nat  BY <2>2, NumChunksBounds, LenProperties
  <2>4. <<>> \in Seq(ChunkID) /\ <<>> \in Seq(Byte) /\ Len(<<>>) = 0  BY EmptySeq
  <2>5. 0 = 0 * ChunkSize  BY ChunkSizeAssumption
  <2>6. TypeOK'  BY <2>1, <2>2, <2>4 DEF TypeOK
  <2>7. Writing'  BY <2>1, <2>3, <2>4, <2>5 DEF Writing
  <2> QED  BY <2>1, <2>6, <2>7 DEF LoopInv
<1>6. CASE UNCHANGED vars
  BY <1>6 DEF vars, LoopInv, TypeOK, Writing, Reading
<1> QED  BY <1>1, <1>2, <1>3, <1>4, <1>5, <1>6 DEF Next

LEMMA LoopInvariance == Spec => []LoopInv
<1>1. Init => LoopInv
  BY InputType, StartsWriting DEF Init
<1> QED  BY <1>1, LoopStep, PTL DEF Spec

-----------------------------------------------------------------------------

\* The variables of the two loops (chunk.go:48-97) keep their types, and every chunk
\* stored holds between one byte and ChunkSize bytes.
THEOREM LoopTypeCorrect == Spec => []TypeOK
<1>1. LoopInv => TypeOK  BY DEF LoopInv
<1> QED  BY <1>1, LoopInvariance, PTL

\* WriteFile's loop (chunk.go:50-79) returns the closed form that BumFS uses, for
\* files of any length and any chunk size.
THEOREM CutCorrect == Spec => []LoopCutsData
<1>1. LoopInv => LoopCutsData  BY DEF LoopInv, Reading, LoopCutsData
<1> QED  BY <1>1, LoopInvariance, PTL

\* What WriteFile cut, ReadFile's loop (chunk.go:83-97) puts together to the file, and
\* the closed form ReadFile that BumFS uses gives the same.
THEOREM ReadBackCorrect == Spec => []ReadsBackWhatWasWritten
<1>1. LoopInv => ReadsBackWhatWasWritten
  <2> SUFFICES ASSUME LoopInv, pc = "done" PROVE out = data /\ ReadFile(refs) = out
    BY DEF ReadsBackWhatWasWritten
  <2>1. data \in Seq(Byte) /\ Reading /\ next = NumChunks(Len(data)) + 1
    BY DEF LoopInv, TypeOK
  <2>2. Len(data) \in Nat /\ NumChunks(Len(data)) \in Nat
    BY <2>1, LenProperties, NumChunksBounds
  <2>3. ChunkEnd(Len(data), next - 1) = Len(data)
    <3>1. next - 1 = NumChunks(Len(data)) /\ next - 1 \in 0..NumChunks(Len(data))
      BY <2>1, <2>2
    <3> QED  BY <2>2, <3>1, EndOfFirst
  <2>4. out = data  BY <2>1, <2>3, SubSeqFull DEF Reading
  <2> QED  BY <2>1, <2>4, RoundTrip DEF Reading
<1> QED  BY <1>1, LoopInvariance, PTL

=============================================================================
