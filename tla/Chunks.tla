------------------------------- MODULE Chunks -------------------------------
(***************************************************************************)
(* How internal/chunk cuts a file into chunks and puts it together again.  *)
(*                                                                         *)
(* A chunk is named by the SHA-256 of its plaintext (chunk.go:58).  The    *)
(* hash is taken to be injective, so a chunk id IS the plaintext here, and *)
(* storing a chunk under its id fixes what a later read decrypts to.       *)
(***************************************************************************)
EXTENDS Integers, Sequences

CONSTANTS
    Byte,        \* the values a byte of a file can take
    ChunkSize    \* bumfs.chunk_size of the configuration

\* NewManager replaces a size of 0 or less by its default (chunk.go:31-33).
ASSUME ChunkSizeAssumption == ChunkSize \in Nat \ {0}

\* Sequences over S of at most n elements.
SeqUpTo(S, n) == UNION {[1..m -> S] : m \in 0..n}

\* The plaintexts a chunk can hold: 1 to ChunkSize bytes.
ChunkID == SeqUpTo(Byte, ChunkSize) \ {<<>>}

\* The end of the k-th chunk of n bytes, cut short by the end of the data.
ChunkEnd(n, k) == IF k * ChunkSize > n THEN n ELSE k * ChunkSize

\* Mutant of NumChunks: an empty last chunk when the length is a multiple of ChunkSize.
NumChunksOver(n) == n \div ChunkSize + 1

NumChunks(n) == (n + ChunkSize - 1) \div ChunkSize

\* The ids Manager.WriteFile returns for data, in file order.
WriteFile(data) ==
    [k \in 1..NumChunks(Len(data)) |->
        SubSeq(data, (k - 1) * ChunkSize + 1, ChunkEnd(Len(data), k))]

\* What Manager.ReadFile appends up to when every chunk but the last is full,
\* as in every list WriteFile returns (ChunkLoop checks that they are).
ReadFile(ids) ==
    IF ids = <<>>
      THEN <<>>
      ELSE [n \in 1..((Len(ids) - 1) * ChunkSize + Len(ids[Len(ids)])) |->
              ids[((n - 1) \div ChunkSize) + 1][((n - 1) % ChunkSize) + 1]]

=============================================================================
