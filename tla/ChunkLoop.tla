----------------------------- MODULE ChunkLoop ------------------------------
(***************************************************************************)
(* The loops of Manager.WriteFile and Manager.ReadFile (chunk.go:48-97) as *)
(* they run: data is cut chunk by chunk, then the chunks are read back and *)
(* appended.  Chunks!WriteFile and Chunks!ReadFile, which the file system  *)
(* model uses, are the closed forms these loops are held against.          *)
(***************************************************************************)
EXTENDS Chunks

CONSTANT MaxLen      \* bound: the longest file

ASSUME MaxLenAssumption == MaxLen \in Nat

VARIABLES
    pc,       \* "write", "read" or "done"
    data,     \* the argument of WriteFile
    i,        \* WriteFile's offset of the next chunk
    refs,     \* the chunks stored so far
    next,     \* ReadFile's position in refs
    out       \* what ReadFile has appended

vars == <<pc, data, i, refs, next, out>>

Init ==
    /\ pc = "write"
    /\ data \in SeqUpTo(Byte, MaxLen)
    /\ i = 0
    /\ refs = <<>>
    /\ next = 1
    /\ out = <<>>

\* Mutant of WriteChunk: one turn too many when the length is a multiple of ChunkSize.
WriteChunkToo ==
    /\ pc = "write"
    /\ i <= Len(data)
    /\ LET end == IF i + ChunkSize > Len(data) THEN Len(data) ELSE i + ChunkSize
       IN  refs' = Append(refs, SubSeq(data, i + 1, end))
    /\ i' = i + ChunkSize
    /\ UNCHANGED <<pc, data, next, out>>

\* Mutant of WriteChunk: the end of a full chunk is taken to be inclusive.
WriteChunkShort ==
    /\ pc = "write"
    /\ i < Len(data)
    /\ LET end == IF i + ChunkSize > Len(data) THEN Len(data) ELSE i + ChunkSize - 1
       IN  refs' = Append(refs, SubSeq(data, i + 1, end))
    /\ i' = i + ChunkSize
    /\ UNCHANGED <<pc, data, next, out>>

\* One turn of WriteFile's loop: data[i:end] becomes the next chunk.
WriteChunk ==
    /\ pc = "write"
    /\ i < Len(data)
    /\ LET end == IF i + ChunkSize > Len(data) THEN Len(data) ELSE i + ChunkSize
       IN  refs' = Append(refs, SubSeq(data, i + 1, end))
    /\ i' = i + ChunkSize
    /\ UNCHANGED <<pc, data, next, out>>

WriteReturns ==
    /\ pc = "write"
    /\ i >= Len(data)
    /\ pc' = "read"
    /\ UNCHANGED <<data, i, refs, next, out>>

\* Mutant of ReadChunk: chunks come back in the other order.
ReadChunkBefore ==
    /\ pc = "read"
    /\ next <= Len(refs)
    /\ out' = refs[next] \o out
    /\ next' = next + 1
    /\ UNCHANGED <<pc, data, i, refs>>

\* One turn of ReadFile's loop.
ReadChunk ==
    /\ pc = "read"
    /\ next <= Len(refs)
    /\ out' = out \o refs[next]
    /\ next' = next + 1
    /\ UNCHANGED <<pc, data, i, refs>>

ReadReturns ==
    /\ pc = "read"
    /\ next > Len(refs)
    /\ pc' = "done"
    /\ UNCHANGED <<data, i, refs, next, out>>

\* A further file is written.
Again ==
    /\ pc = "done"
    /\ \E d \in SeqUpTo(Byte, MaxLen) : data' = d
    /\ pc' = "write" /\ i' = 0 /\ refs' = <<>> /\ next' = 1 /\ out' = <<>>

Next == WriteChunk \/ WriteReturns \/ ReadChunk \/ ReadReturns \/ Again

Spec == Init /\ [][Next]_vars

-----------------------------------------------------------------------------

TypeOK ==
    /\ pc \in {"write", "read", "done"}
    /\ data \in Seq(Byte)
    /\ i \in Nat
    /\ refs \in Seq(ChunkID)
    /\ next \in Nat \ {0}
    /\ out \in Seq(Byte)

\* WriteFile's loop (chunk.go:50) returns the chunks of the closed form: none
\* is empty or too long, none is missing at the end, none overlaps another.
LoopCutsData == pc # "write" => refs = WriteFile(data)

\* What ReadFile (chunk.go:83) appends over the chunks WriteFile returned is
\* the file that was written, and the closed form agrees with the loop.
ReadsBackWhatWasWritten ==
    pc = "done" => out = data /\ ReadFile(refs) = out

=============================================================================
