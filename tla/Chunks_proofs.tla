---------------------------- MODULE Chunks_proofs ---------------------------
(* What the closed forms of Chunks guarantee, for every chunk size. *)
EXTENDS Chunks, SequenceTheorems, TLAPS

LEMMA DivMod ==
    ASSUME NEW n \in Nat
    PROVE  /\ n \div ChunkSize \in Nat
           /\ n % ChunkSize \in 0..(ChunkSize - 1)
           /\ n = (n \div ChunkSize) * ChunkSize + (n % ChunkSize)
BY ChunkSizeAssumption, SMT

LEMMA DivUnique ==
    ASSUME NEW n \in Nat, NEW q \in Nat, NEW r \in 0..(ChunkSize - 1),
           n = q * ChunkSize + r
    PROVE  n \div ChunkSize = q /\ n % ChunkSize = r
BY ChunkSizeAssumption, SMT

\* The chunks cover n bytes, and all but the last are covered without the last.
LEMMA NumChunksBounds ==
    ASSUME NEW n \in Nat
    PROVE  /\ NumChunks(n) \in Nat
           /\ n <= NumChunks(n) * ChunkSize
           /\ NumChunks(n) * ChunkSize < n + ChunkSize
<1>1. n + ChunkSize - 1 \in Nat
  BY ChunkSizeAssumption
<1>2. QED
  BY <1>1, DivMod, ChunkSizeAssumption DEF NumChunks

LEMMA ChunkBounds ==
    ASSUME NEW n \in Nat, NEW k \in 1..NumChunks(n)
    PROVE  /\ (k - 1) * ChunkSize \in Nat
           /\ (k - 1) * ChunkSize < ChunkEnd(n, k)
           /\ ChunkEnd(n, k) \in Nat
           /\ ChunkEnd(n, k) <= n
           /\ ChunkEnd(n, k) <= k * ChunkSize
           /\ k < NumChunks(n) => ChunkEnd(n, k) = k * ChunkSize
<1> DEFINE N == NumChunks(n)
<1>1. N \in Nat /\ n <= N * ChunkSize /\ N * ChunkSize < n + ChunkSize
  BY NumChunksBounds
<1>2. k * ChunkSize = (k - 1) * ChunkSize + ChunkSize /\ (k - 1) * ChunkSize \in Nat
  BY <1>1, ChunkSizeAssumption
<1>3. k * ChunkSize <= N * ChunkSize
  BY <1>1, ChunkSizeAssumption
<1>4. k < N => (k + 1) * ChunkSize <= N * ChunkSize
  BY <1>1, ChunkSizeAssumption
<1>5. (k + 1) * ChunkSize = k * ChunkSize + ChunkSize /\ k * ChunkSize \in Nat
  BY <1>1, ChunkSizeAssumption
<1> HIDE DEF N
<1>6. QED
  BY <1>1, <1>2, <1>3, <1>4, <1>5, ChunkSizeAssumption DEF ChunkEnd, N

\* Every chunk but the last is full.
WellCut(ids) == \A k \in 1..(Len(ids) - 1) : Len(ids[k]) = ChunkSize

LEMMA ChunkIDLen ==
    ASSUME NEW c \in ChunkID
    PROVE  c \in Seq(Byte) /\ Len(c) \in 1..ChunkSize
<1>1. PICK m \in 0..ChunkSize : c \in [1..m -> Byte]
  BY DEF ChunkID, SeqUpTo
<1>2. c \in Seq(Byte) /\ Len(c) = m
  BY <1>1, ChunkSizeAssumption
<1>3. c # <<>>
  BY DEF ChunkID
<1>4. QED
  BY <1>2, <1>3, ChunkSizeAssumption, EmptySeq

LEMMA LenChunkID ==
    ASSUME NEW c \in Seq(Byte), Len(c) \in 1..ChunkSize
    PROVE  c \in ChunkID
<1>1. c \in [1..Len(c) -> Byte]
  BY LenProperties
<1>2. c # <<>>
  OBVIOUS
<1>3. Len(c) \in 0..ChunkSize
  BY ChunkSizeAssumption
<1>4. QED
  BY <1>1, <1>2, <1>3 DEF ChunkID, SeqUpTo

\* What WriteFile returns.
THEOREM WriteFileType ==
    ASSUME NEW d \in Seq(Byte)
    PROVE  /\ WriteFile(d) \in Seq(ChunkID)
           /\ Len(WriteFile(d)) = NumChunks(Len(d))
           /\ WellCut(WriteFile(d))
           /\ WriteFile(d) = <<>> <=> d = <<>>
<1> DEFINE n == Len(d)
           N == NumChunks(n)
           chunk(k) == SubSeq(d, (k - 1) * ChunkSize + 1, ChunkEnd(n, k))
<1>1. n \in Nat /\ N \in Nat
  BY NumChunksBounds, LenProperties
<1>2. ASSUME NEW k \in 1..N
      PROVE  /\ chunk(k) \in Seq(Byte)
             /\ Len(chunk(k)) = ChunkEnd(n, k) - (k - 1) * ChunkSize
  BY <1>1, <1>2, ChunkBounds, SubSeqProperties
<1>3. ASSUME NEW k \in 1..N
      PROVE  chunk(k) \in ChunkID /\ (k < N => Len(chunk(k)) = ChunkSize)
  <2>1. k * ChunkSize = (k - 1) * ChunkSize + ChunkSize
    BY <1>1, <1>3, ChunkSizeAssumption
  <2>2. Len(chunk(k)) \in 1..ChunkSize /\ (k < N => Len(chunk(k)) = ChunkSize)
    BY <1>1, <1>2, <1>3, <2>1, ChunkBounds, ChunkSizeAssumption
  <2>3. QED
    BY <1>2, <1>3, <2>2, LenChunkID
<1>4. WriteFile(d) = [k \in 1..N |-> chunk(k)]
  BY DEF WriteFile
<1> HIDE DEF chunk, N
<1>5. WriteFile(d) \in Seq(ChunkID) /\ Len(WriteFile(d)) = N
  BY <1>1, <1>3, <1>4
<1>6. WellCut(WriteFile(d))
  BY <1>1, <1>3, <1>4, <1>5 DEF WellCut
<1>7. N = 0 <=> n = 0
  <2>1. n <= N * ChunkSize /\ N * ChunkSize < n + ChunkSize
    BY <1>1, NumChunksBounds DEF N
  <2>2. N # 0 => ChunkSize <= N * ChunkSize
    BY <1>1, ChunkSizeAssumption
  <2>3. N = 0 => N * ChunkSize = 0
    BY ChunkSizeAssumption
  <2>4. N * ChunkSize \in Nat
    BY <1>1, ChunkSizeAssumption
  <2>5. QED
    BY <1>1, <2>1, <2>2, <2>3, <2>4, ChunkSizeAssumption
<1>8. QED
  BY <1>1, <1>5, <1>6, <1>7, EmptySeq DEF N

LEMMA ChunkBytes ==
    ASSUME NEW d \in Seq(Byte), NEW k \in 1..NumChunks(Len(d))
    PROVE  /\ Len(WriteFile(d)[k]) = ChunkEnd(Len(d), k) - (k - 1) * ChunkSize
           /\ \A j \in 1..Len(WriteFile(d)[k]) :
                 WriteFile(d)[k][j] = d[(k - 1) * ChunkSize + j]
<1> DEFINE a == (k - 1) * ChunkSize + 1
           b == ChunkEnd(Len(d), k)
<1>1. Len(d) \in Nat
  BY LenProperties
<1>2. a \in Int /\ b \in Int /\ a <= b /\ 1 <= a /\ b <= Len(d)
  BY <1>1, ChunkBounds
<1>3. WriteFile(d)[k] = SubSeq(d, a, b)
  BY DEF WriteFile
<1>4. \A m \in a..b : d[m] \in Byte
  BY <1>1, <1>2
<1> HIDE DEF a, b
<1>5. /\ Len(SubSeq(d, a, b)) = b - a + 1
      /\ \A j \in 1..(b - a + 1) : SubSeq(d, a, b)[j] = d[a + j - 1]
  BY <1>2, <1>4, SubSeqProperties, SMT
<1>6. (k - 1) * ChunkSize \in Nat
  BY <1>1, ChunkBounds
<1>7. QED
  BY <1>2, <1>3, <1>5, <1>6 DEF a, b

\* Where the n-th byte lies in a well cut list of chunks.
LEMMA BytePlace ==
    ASSUME NEW ids \in Seq(ChunkID), WellCut(ids), ids # <<>>,
           NEW n \in 1..((Len(ids) - 1) * ChunkSize + Len(ids[Len(ids)]))
    PROVE  /\ ((n - 1) \div ChunkSize) + 1 \in 1..Len(ids)
           /\ ((n - 1) % ChunkSize) + 1 \in 1..Len(ids[((n - 1) \div ChunkSize) + 1])
<1> DEFINE L == Len(ids)
           last == Len(ids[L])
           q == (n - 1) \div ChunkSize
           r == (n - 1) % ChunkSize
<1>1. L \in Nat \ {0} /\ last \in 1..ChunkSize
  BY EmptySeq, ElementOfSeq, ChunkIDLen
<1>2. (L - 1) * ChunkSize \in Nat /\ (L - 1) * ChunkSize + ChunkSize = L * ChunkSize
  BY <1>1, ChunkSizeAssumption
<1>3. n - 1 \in Nat /\ n - 1 < (L - 1) * ChunkSize + last
  BY <1>1, <1>2
<1>4. q \in Nat /\ r \in 0..(ChunkSize - 1) /\ n - 1 = q * ChunkSize + r
  BY <1>3, DivMod
<1> HIDE DEF q, r, L, last
<1>5. q < L
  <2>1. q >= L => q * ChunkSize >= L * ChunkSize
    BY <1>1, <1>4, ChunkSizeAssumption
  <2>2. q * ChunkSize \in Nat /\ L * ChunkSize \in Nat
    BY <1>1, <1>4, ChunkSizeAssumption
  <2>3. QED
    BY <1>1, <1>2, <1>3, <1>4, <2>1, <2>2, ChunkSizeAssumption
<1>6. CASE q + 1 < L
  <2>1. Len(ids[q + 1]) = ChunkSize
    BY <1>1, <1>4, <1>6 DEF WellCut, L
  <2>2. QED
    BY <1>1, <1>4, <1>6, <2>1, ChunkSizeAssumption DEF q, r, L
<1>7. CASE q + 1 = L
  <2>1. q = L - 1
    BY <1>1, <1>4, <1>7
  <2>2. r < last
    BY <1>1, <1>2, <1>3, <1>4, <2>1, ChunkSizeAssumption
  <2>3. q + 1 \in 1..L /\ r + 1 \in 1..last
    BY <1>1, <1>4, <1>7, <2>2, ChunkSizeAssumption
  <2>4. ids[q + 1] = ids[L]
    BY <1>7
  <2>5. QED
    BY <2>3, <2>4 DEF q, r, L, last
<1>8. QED
  BY <1>1, <1>4, <1>5, <1>6, <1>7

\* ReadFile of a well cut list of chunks is a file of bytes.
THEOREM ReadFileType ==
    ASSUME NEW ids \in Seq(ChunkID), WellCut(ids)
    PROVE  ReadFile(ids) \in Seq(Byte)
<1>1. CASE ids = <<>>
  BY <1>1, EmptySeq DEF ReadFile
<1>2. CASE ids # <<>>
  <2> DEFINE total == (Len(ids) - 1) * ChunkSize + Len(ids[Len(ids)])
             byte(n) == ids[((n - 1) \div ChunkSize) + 1][((n - 1) % ChunkSize) + 1]
  <2>1. total \in Nat
    <3>1. Len(ids) \in Nat \ {0}
      BY <1>2, EmptySeq
    <3>2. Len(ids[Len(ids)]) \in Nat
      BY <3>1, ElementOfSeq, ChunkIDLen
    <3>3. (Len(ids) - 1) * ChunkSize \in Nat
      BY <3>1, ChunkSizeAssumption
    <3>4. QED
      BY <3>2, <3>3
  <2>2. ASSUME NEW n \in 1..total
        PROVE  byte(n) \in Byte
    <3> DEFINE k == ((n - 1) \div ChunkSize) + 1
               j == ((n - 1) % ChunkSize) + 1
    <3>1. k \in 1..Len(ids) /\ j \in 1..Len(ids[k])
      BY <1>2, <2>2, BytePlace
    <3>2. ids[k] \in Seq(Byte)
      BY <3>1, ElementOfSeq, ChunkIDLen
    <3> HIDE DEF k, j
    <3>3. ids[k][j] \in Byte
      BY <3>1, <3>2, ElementOfSeq
    <3>4. QED
      BY <3>3 DEF k, j
  <2>3. ReadFile(ids) = [n \in 1..total |-> byte(n)]
    BY <1>2 DEF ReadFile
  <2> HIDE DEF total, byte
  <2>4. QED
    BY <2>1, <2>2, <2>3
<1>3. QED
  BY <1>1, <1>2

\* Reading the chunks of a file gives the file (chunk.go:48-97): the chunks are in
\* order and neither overlap nor leave a gap, for every chunk size and every file.
THEOREM RoundTrip ==
    ASSUME NEW d \in Seq(Byte)
    PROVE  ReadFile(WriteFile(d)) = d
<1> DEFINE ids == WriteFile(d)
           n == Len(d)
           N == NumChunks(n)
<1>1. CASE d = <<>>
  BY <1>1, WriteFileType DEF ReadFile
<1>2. CASE d # <<>>
  <2>1. ids \in Seq(ChunkID) /\ Len(ids) = N /\ WellCut(ids) /\ ids # <<>>
    BY <1>2, WriteFileType
  <2>2. n \in Nat \ {0} /\ N \in Nat \ {0}
    BY <1>2, <2>1, EmptySeq
  <2>3. ChunkEnd(n, N) = n
    <3>1. n <= N * ChunkSize /\ N * ChunkSize \in Nat
      <4>1. n <= N * ChunkSize
        BY <2>2, NumChunksBounds
      <4> HIDE DEF n, N
      <4>2. QED
        BY <2>2, <4>1, ChunkSizeAssumption
    <3> HIDE DEF n, N
    <3>2. QED
      BY <2>2, <3>1 DEF ChunkEnd
  <2>4. (N - 1) * ChunkSize \in Nat
    BY <2>2, ChunkSizeAssumption
  <2>5. (Len(ids) - 1) * ChunkSize + Len(ids[Len(ids)]) = n
    <3>1. N \in 1..N
      BY <2>2
    <3>2. Len(ids[N]) = n - (N - 1) * ChunkSize
      BY <2>3, <3>1, ChunkBytes
    <3> HIDE DEF n, N, ids
    <3>3. QED
      BY <2>1, <2>2, <2>4, <3>2
  <2>6. ASSUME NEW m \in 1..n
        PROVE  ids[((m - 1) \div ChunkSize) + 1][((m - 1) % ChunkSize) + 1] = d[m]
    <3> DEFINE q == (m - 1) \div ChunkSize
               r == (m - 1) % ChunkSize
               k == q + 1
               j == r + 1
    <3>1. k \in 1..N /\ j \in 1..Len(ids[k])
      BY <2>1, <2>5, <2>6, BytePlace
    <3>2. m - 1 \in Nat
      BY <2>2, <2>6
    <3>3. q \in Nat /\ r \in 0..(ChunkSize - 1) /\ m - 1 = q * ChunkSize + r
      BY <3>2, DivMod
    <3> HIDE DEF q, r
    <3>4. (k - 1) * ChunkSize + j = m
      BY <2>2, <3>3, ChunkSizeAssumption
    <3> HIDE DEF k, j
    <3>5. ids[k][j] = d[(k - 1) * ChunkSize + j]
      BY <3>1, ChunkBytes
    <3>6. QED
      BY <3>4, <3>5 DEF k, j, q, r
  <2>7. ReadFile(ids) = [m \in 1..n |-> d[m]]
    BY <2>1, <2>5, <2>6 DEF ReadFile
  <2>8. QED
    BY <2>2, <2>7, LenProperties
<1>3. QED
  BY <1>1, <1>2

=============================================================================
