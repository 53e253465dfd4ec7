---------------------------- MODULE Cache_proofs ----------------------------
(***************************************************************************)
(* What the write-behind cache keeps for every set of chunks, every size   *)
(* and every bound: it is well typed, a chunk that was accepted can be     *)
(* read at any moment, Close drains what was accepted, usedBytes is right, *)
(* no Write sleeps with nobody to wake it, and to its caller it is a       *)
(* ChunkStore.                                                             *)
(***************************************************************************)
EXTENDS Cache, FiniteSetTheorems, TLAPS

-----------------------------------------------------------------------------
\* Facts about the queue.

LEMMA AppendItem ==
    ASSUME NEW q \in Seq(Item), NEW e \in Item
    PROVE  /\ Append(q, e) \in Seq(Item)
           /\ Len(Append(q, e)) = Len(q) + 1
           /\ DOMAIN Append(q, e) = DOMAIN q \cup {Len(q) + 1}
           /\ \A k \in DOMAIN q : Append(q, e)[k] = q[k]
           /\ Append(q, e)[Len(q) + 1] = e
OBVIOUS

LEMMA TakeItem ==
    ASSUME NEW q \in Seq(Item), q # <<>>
    PROVE  /\ Head(q) \in Item /\ Tail(q) \in Seq(Item)
           /\ Len(Tail(q)) <= Len(q)
           /\ \A k \in DOMAIN Tail(q) : k + 1 \in DOMAIN q /\ Tail(q)[k] = q[k + 1]
           /\ \A k \in DOMAIN q : k = 1 \/ k - 1 \in DOMAIN Tail(q)
           /\ 1 \in DOMAIN q /\ Head(q) = q[1]
OBVIOUS

\* An item of c is in the queue q.
In(q, c) == \E k \in DOMAIN q : q[k].id = c

LEMMA InAppend ==
    ASSUME NEW q \in Seq(Item), NEW e \in Item, NEW c
    PROVE  In(Append(q, e), c) <=> In(q, c) \/ e.id = c
BY AppendItem DEF In

LEMMA InTake ==
    ASSUME NEW q \in Seq(Item), q # <<>>, NEW c
    PROVE  In(q, c) <=> Head(q).id = c \/ In(Tail(q), c)
<1>1. In(q, c) => Head(q).id = c \/ In(Tail(q), c)
  <2> SUFFICES ASSUME NEW k \in DOMAIN q, q[k].id = c
               PROVE  Head(q).id = c \/ In(Tail(q), c)
    BY DEF In
  <2>1. CASE k = 1
    BY <2>1, TakeItem
  <2>2. CASE k # 1
    <3>1. k - 1 \in DOMAIN Tail(q) /\ k \in Int
      BY <2>2, TakeItem
    <3>2. Tail(q)[k - 1] = q[(k - 1) + 1] /\ (k - 1) + 1 = k
      BY <3>1, TakeItem
    <3>3. QED
      BY <3>1, <3>2 DEF In
  <2>3. QED
    BY <2>1, <2>2
<1>2. Head(q).id = c \/ In(Tail(q), c) => In(q, c)
  BY TakeItem DEF In
<1>3. QED
  BY <1>1, <1>2

\* The items of c in q carry the whole chunk.
WholeIn(q, c) == \A k \in DOMAIN q : q[k].id = c => q[k].data = "whole"

LEMMA WholeAppend ==
    ASSUME NEW q \in Seq(Item), NEW e \in Item, NEW c
    PROVE  WholeIn(Append(q, e), c) <=> WholeIn(q, c) /\ (e.id = c => e.data = "whole")
BY AppendItem DEF WholeIn

LEMMA WholeTake ==
    ASSUME NEW q \in Seq(Item), q # <<>>, NEW c, WholeIn(q, c)
    PROVE  /\ WholeIn(Tail(q), c)
           /\ Head(q).id = c => Head(q).data = "whole"
<1>1. ASSUME NEW k \in DOMAIN Tail(q), Tail(q)[k].id = c
      PROVE  Tail(q)[k].data = "whole"
  BY <1>1, TakeItem DEF WholeIn
<1>2. QED
  BY <1>1, TakeItem DEF WholeIn

\* No two items of c are in q.
OneIn(q, c) == \A j \in DOMAIN q, k \in DOMAIN q : q[j].id = c /\ q[k].id = c => j = k

LEMMA OneAppend ==
    ASSUME NEW q \in Seq(Item), NEW e \in Item, NEW c, OneIn(q, c), e.id = c => ~In(q, c)
    PROVE  OneIn(Append(q, e), c)
BY AppendItem DEF OneIn, In

LEMMA OneTake ==
    ASSUME NEW q \in Seq(Item), q # <<>>, NEW c, OneIn(q, c)
    PROVE  OneIn(Tail(q), c) /\ (Head(q).id = c => ~In(Tail(q), c))
<1>1. ASSUME NEW j \in DOMAIN Tail(q), NEW k \in DOMAIN Tail(q),
             Tail(q)[j].id = c, Tail(q)[k].id = c
      PROVE  j = k
  <2>1. j + 1 = k + 1
    BY <1>1, TakeItem DEF OneIn
  <2>2. j \in Int /\ k \in Int
    BY TakeItem
  <2>3. QED
    BY <2>1, <2>2
<1>2. ASSUME Head(q).id = c, NEW k \in DOMAIN Tail(q), Tail(q)[k].id = c
      PROVE  FALSE
  <2>1. 1 = k + 1
    BY <1>2, TakeItem DEF OneIn
  <2>2. k \in Nat \ {0}
    BY TakeItem
  <2>3. QED
    BY <2>1, <2>2
<1>3. QED
  BY <1>1, <1>2 DEF OneIn, In

-----------------------------------------------------------------------------
\* Types, and which component is active in which phase.

Shape ==
    /\ TypeOK
    /\ client.pc # "idle" => client.id \in Chunk /\ phase = "up"
    /\ drain.pc # "idle" => /\ drain.id \in Chunk /\ drain.data # "none"
                            /\ phase \in {"up", "closing"}
    /\ phase = "down" => queue = <<>>
    /\ rec # NoChunk => phase = "recovering" /\ files[rec] # "none"
    /\ left \subseteq Cached /\ (left # {} => phase = "recovering")

LEMMA Idleness == NoDrain \in Drain /\ NoCall \in Call
BY CacheAssumption DEF NoDrain, NoCall, Drain, Call, Content

\* Moving the caller or the drain on changes its pc only.
LEMMA CallGoto ==
    ASSUME client \in Call,
           NEW pc \in {"idle", "reserve", "asleep", "create", "fill", "unreserve", "send",
                       "delFile", "delUsed", "delInner", "readInner"},
           ClientGoto(pc)
    PROVE  client' \in Call /\ client'.pc = pc /\ client'.id = client.id
           /\ client'.size = client.size
BY DEF ClientGoto, Call

LEMMA DrainMove ==
    ASSUME drain \in Drain,
           NEW pc \in {"idle", "write", "stat", "remove", "used", "broadcast"},
           DrainGoto(pc)
    PROVE  /\ drain' \in Drain /\ drain'.pc = pc /\ drain'.id = drain.id
           /\ drain'.data = drain.data /\ drain'.attempt = drain.attempt
           /\ drain'.size = drain.size
BY DEF DrainGoto, Drain

LEMMA DrainRetry ==
    ASSUME drain \in Drain, drain.attempt + 1 < 3,
           drain' = [drain EXCEPT !.attempt = @ + 1]
    PROVE  /\ drain' \in Drain /\ drain'.pc = drain.pc /\ drain'.id = drain.id
           /\ drain'.data = drain.data /\ drain'.attempt = drain.attempt + 1
<1>1. drain.attempt \in 0..2
  BY DEF Drain
<1>2. drain.attempt + 1 \in 0..2
  BY <1>1
<1>3. QED
  BY <1>2 DEF Drain

LEMMA DrainNext ==
    ASSUME NEW e \in Item,
           drain' = [pc |-> "write", id |-> e.id, data |-> e.data, attempt |-> 0, size |-> 0]
    PROVE  /\ drain' \in Drain /\ drain'.pc = "write"
           /\ drain'.id = e.id /\ drain'.id \in Chunk
           /\ drain'.data = e.data /\ drain'.data # "none" /\ drain'.attempt = 0
<1>1. e.id \in Chunk /\ e.data \in Content /\ e.data # "none"
  BY DEF Item
<1>2. ASSUME NEW i \in Chunk, NEW t \in Content
      PROVE  [pc |-> "write", id |-> i, data |-> t, attempt |-> 0, size |-> 0] \in Drain
  BY CacheAssumption DEF Drain
<1>3. drain' \in Drain
  BY <1>1, <1>2
<1>4. QED
  BY <1>1, <1>3

\* What the broadcast does to the caller.
LEMMA Wake ==
    ASSUME client \in Call, DrainBroadcast
    PROVE  /\ client' \in Call /\ client'.id = client.id /\ client'.size = client.size
           /\ client'.pc = IF client.pc = "asleep" THEN "reserve" ELSE client.pc
BY DEF DrainBroadcast, Call

LEMMA Sizes ==
    /\ \A k \in Call : k.size \in 0..MaxBytes /\ k.size \in Int
    /\ \A d \in Drain : d.size \in 0..MaxBytes /\ d.size \in Int /\ d.data \in Content
    /\ MaxBytes \in Nat
BY CacheAssumption DEF Call, Drain

LEMMA FileSizes ==
    ASSUME TypeOK, NEW c \in Chunk
    PROVE  /\ \A n \in FileSize(c) : n \in 0..MaxBytes /\ n \in Int
           /\ Size[c] \in 0..MaxBytes
<1>1. Size[c] \in 1..MaxBytes /\ files[c] \in Content
  BY CacheAssumption DEF TypeOK
<1>2. QED
  BY <1>1, CacheAssumption DEF FileSize, Content

\* A write of the inner backend that does not finish touches the chunk of the drain only.
LEMMA UnfinishedType ==
    ASSUME inner \in [Chunk -> Content], drain \in Drain, NEW f \in Unfinished
    PROVE  /\ f \in [Chunk -> Content]
           /\ \A c \in Chunk : c # drain.id => f[c] = inner[c]
<1>1. PICK d \in {inner[drain.id], "none", "short", drain.data} :
          f = [inner EXCEPT ![drain.id] = d]
  BY DEF Unfinished
<1>2. CASE drain.id \in Chunk
  BY <1>1, <1>2 DEF Drain, Content
<1>3. CASE drain.id \notin Chunk
  BY <1>1, <1>3
<1>4. QED
  BY <1>2, <1>3

LEMMA ShapeInit == Init => Shape
<1> SUFFICES ASSUME Init PROVE Shape
  OBVIOUS
<1>1. <<>> \in Seq(Item) /\ Len(<<>>) = 0
  OBVIOUS
<1>2. TypeOK
  BY <1>1, Idleness, CacheAssumption DEF Init, TypeOK, Content
<1>3. QED
  BY <1>2, CacheAssumption DEF Init, Shape, NoDrain, NoCall

\* A process that starts has the shape, whatever is in the directory.
LEMMA ShapeStartUp ==
    ASSUME Shape, StartUp, inner' \in [Chunk -> Content], exposed' \subseteq Chunk,
           crashes' \in 0..MaxCrashes
    PROVE  Shape'
<1>1. <<>> \in Seq(Item) /\ Len(<<>>) = 0 /\ Len(<<>>) <= QueueCap
  BY CacheAssumption
<1>2. /\ NoDrain.pc = "idle" /\ NoCall.pc = "idle" /\ Cached \subseteq Chunk
      /\ Cached' = Cached
  BY DEF NoDrain, NoCall, Cached, StartUp
<1>3. TypeOK'
  BY <1>1, <1>2, Idleness DEF Shape, TypeOK, StartUp
<1>4. QED
  BY <1>2, <1>3 DEF Shape, StartUp

LEMMA ShapeStep == Shape /\ [Next]_vars => Shape'
<1> SUFFICES ASSUME Shape, [Next]_vars
             PROVE  Shape'
  OBVIOUS
<1>0. /\ files \in [Chunk -> Content] /\ inner \in [Chunk -> Content] /\ used \in Int
      /\ queue \in Seq(Item) /\ Len(queue) <= QueueCap /\ drain \in Drain /\ client \in Call
      /\ phase \in {"up", "closing", "down", "recovering"}
      /\ left \subseteq Chunk /\ rec \in Chunk \cup {NoChunk}
      /\ accepted \subseteq Chunk /\ exposed \subseteq Chunk
      /\ result \in {"none", "ok", "failed"}
      /\ faults \in 0..MaxFaults /\ crashes \in 0..MaxCrashes
  BY DEF Shape, TypeOK
<1>1. /\ client.pc # "idle" => client.id \in Chunk /\ phase = "up"
      /\ drain.pc # "idle" => /\ drain.id \in Chunk /\ drain.data # "none"
                              /\ phase \in {"up", "closing"}
      /\ phase = "down" => queue = <<>>
      /\ rec # NoChunk => phase = "recovering" /\ files[rec] # "none"
      /\ left \subseteq Cached /\ (left # {} => phase = "recovering")
  BY DEF Shape
<1>2. \A c \in Chunk : /\ \A n \in FileSize(c) : n \in 0..MaxBytes /\ n \in Int
                       /\ Size[c] \in 0..MaxBytes
  BY FileSizes DEF Shape
<1>3. Works \/ Fails => faults' \in 0..MaxFaults
  BY <1>0, CacheAssumption DEF Works, Fails
<1>4. ASSUME NEW c \in Chunk, BeginWrite(c)
      PROVE  Shape'
  BY <1>0, <1>1, <1>2, <1>3, Sizes, <1>4
     DEF BeginWrite, AtClient, Expose, Call, Shape, TypeOK, Content, Cached
<1>5. CASE Reserve
  <2>1. /\ client' \in Call /\ client'.pc \in {"asleep", "create"}
        /\ client'.id = client.id /\ client'.size = client.size
    BY <1>0, <1>5, CallGoto DEF Reserve
  <2>2. TypeOK'
    BY <1>0, <1>1, <1>2, <1>3, Sizes, <1>5, <2>1 DEF Reserve, TypeOK
  <2>3. QED
    BY <1>0, <1>1, <1>2, <1>3, Sizes, <1>5, <2>1, <2>2
       DEF Reserve, AtClient, Shape, Cached
<1>6. CASE CreateFile
  <2>1. /\ client' \in Call /\ client'.pc \in {"fill", "unreserve"}
        /\ client'.id = client.id /\ client'.size = client.size
    BY <1>0, <1>6, CallGoto DEF CreateFile
  <2>2. TypeOK'
    BY <1>0, <1>1, <1>2, <1>3, Sizes, <1>6, <2>1 DEF CreateFile, TypeOK, AtClient, Content
  <2>3. QED
    BY <1>0, <1>1, <1>2, <1>3, Sizes, <1>6, <2>1, <2>2
       DEF CreateFile, AtClient, Shape, Cached
<1>7. CASE FillFile
  <2>1. /\ client' \in Call /\ client'.pc \in {"send", "unreserve"}
        /\ client'.id = client.id /\ client'.size = client.size
    BY <1>0, <1>7, CallGoto DEF FillFile
  <2>2. TypeOK'
    BY <1>0, <1>1, <1>2, <1>3, Sizes, <1>7, <2>1
       DEF FillFile, TypeOK, AtClient, Expose, Content
  <2>3. QED
    BY <1>0, <1>1, <1>2, <1>3, Sizes, <1>7, <2>1, <2>2
       DEF FillFile, AtClient, Shape, Cached
<1>8. CASE Unreserve
  <2>1. TypeOK'
    BY <1>0, <1>1, <1>2, <1>3, Sizes, <1>8, Idleness
       DEF Unreserve, AtClient, NoCall, TypeOK
  <2>2. QED
    BY <1>0, <1>1, <1>2, <1>3, Sizes, <1>8, <2>1, Idleness
       DEF Unreserve, AtClient, NoCall, Shape, Cached
<1>9. CASE Send
  <2>1. [id |-> client.id, data |-> "whole"] \in Item
    BY <1>1, <1>9 DEF Send, AtClient, Item, Content
  <2>2. queue' \in Seq(Item) /\ Len(queue') <= QueueCap
    BY <1>0, <1>9, <2>1, AppendItem, CacheAssumption DEF Send
  <2>3. TypeOK'
    BY <1>0, <1>1, <1>9, <2>2, Idleness DEF Send, AtClient, TypeOK
  <2>4. QED
    BY <1>0, <1>1, <1>9, <2>3 DEF Send, AtClient, NoCall, Shape, Cached
<1>10. ASSUME NEW c \in Chunk, DeleteStat(c)
      PROVE  Shape'
  <2>1. PICK n \in FileSize(c) :
            client' = [pc |-> IF files[c] = "none" THEN "delInner" ELSE "delFile",
                       id |-> c, size |-> n]
    BY <1>10 DEF DeleteStat
  <2>2. client' \in Call /\ client'.pc # "idle" /\ client'.id = c
    BY <1>2, <2>1 DEF Call
  <2>3. TypeOK'
    BY <1>0, <1>10, <2>2 DEF DeleteStat, Expose, TypeOK
  <2>4. QED
    BY <1>0, <1>1, <1>10, <2>2, <2>3 DEF DeleteStat, AtClient, Shape, Cached
<1>11. CASE DeleteFile
  <2>1. /\ client' \in Call /\ client'.pc \in {"delUsed"}
        /\ client'.id = client.id /\ client'.size = client.size
    BY <1>0, <1>11, CallGoto DEF DeleteFile
  <2>2. TypeOK'
    BY <1>0, <1>1, <1>2, <1>3, Sizes, <1>11, <2>1
       DEF DeleteFile, TypeOK, AtClient, Content
  <2>3. QED
    BY <1>0, <1>1, <1>2, <1>3, Sizes, <1>11, <2>1, <2>2
       DEF DeleteFile, AtClient, Shape, Cached
<1>12. CASE DeleteUsed
  <2>1. /\ client' \in Call /\ client'.pc \in {"delInner"}
        /\ client'.id = client.id /\ client'.size = client.size
    BY <1>0, <1>12, CallGoto DEF DeleteUsed
  <2>2. TypeOK'
    BY <1>0, <1>1, <1>2, <1>3, Sizes, <1>12, <2>1 DEF DeleteUsed, TypeOK
  <2>3. QED
    BY <1>0, <1>1, <1>2, <1>3, Sizes, <1>12, <2>1, <2>2
       DEF DeleteUsed, AtClient, Shape, Cached
<1>13. CASE DeleteInner
  <2>1. TypeOK'
    BY <1>0, <1>1, <1>2, <1>3, Sizes, <1>13, Idleness
       DEF DeleteInner, AtClient, NoCall, Content, TypeOK
  <2>2. QED
    BY <1>0, <1>1, <1>2, <1>3, Sizes, <1>13, <2>1, Idleness
       DEF DeleteInner, AtClient, NoCall, Content, Shape, Cached
<1>14. ASSUME NEW c \in Chunk, ReadMiss(c)
      PROVE  Shape'
  <2>1. client' \in Call /\ client'.pc = "readInner" /\ client'.id = c
    BY <1>14, Sizes DEF ReadMiss, Call
  <2>2. TypeOK'
    BY <1>0, <1>1, <1>14, <2>1 DEF ReadMiss, TypeOK
  <2>3. QED
    BY <1>0, <1>1, <1>14, <2>1, <2>2 DEF ReadMiss, AtClient, Shape, Cached
<1>15. CASE ReadInner
  <2>1. TypeOK'
    BY <1>0, <1>1, <1>2, <1>3, Sizes, <1>15, Idleness
       DEF ReadInner, AtClient, NoCall, TypeOK
  <2>2. QED
    BY <1>0, <1>1, <1>2, <1>3, Sizes, <1>15, <2>1, Idleness
       DEF ReadInner, AtClient, NoCall, Shape, Cached
<1>16. CASE DrainTake
  <2>1. Head(queue) \in Item /\ Tail(queue) \in Seq(Item) /\ Len(Tail(queue)) <= QueueCap
    BY <1>0, <1>16, TakeItem, CacheAssumption DEF DrainTake
  <2>2. /\ drain' \in Drain /\ drain'.pc = "write" /\ drain'.id \in Chunk
        /\ drain'.data # "none"
    <3>1. drain' = [pc |-> "write", id |-> Head(queue).id, data |-> Head(queue).data,
                   attempt |-> 0, size |-> 0]
      BY <1>16 DEF DrainTake, NoDrain
    <3>2. QED
      BY <2>1, <3>1, DrainNext
  <2>3. TypeOK'
    BY <1>0, <1>16, <2>1, <2>2 DEF DrainTake, TypeOK
  <2>4. QED
    BY <1>0, <1>1, <1>16, <2>2, <2>3 DEF DrainTake, Draining, Shape, Cached
<1>17. CASE DrainWrite
  <2>1. inner' \in [Chunk -> Content]
    BY <1>0, <1>1, <1>17, Sizes, UnfinishedType DEF DrainWrite
  <2>2. /\ drain' \in Drain
        /\ drain'.pc # "idle" => drain'.id = drain.id /\ drain'.data = drain.data
    <3>1. \/ DrainGoto("stat")
          \/ drain.attempt + 1 < 3 /\ drain' = [drain EXCEPT !.attempt = @ + 1]
          \/ drain' = NoDrain
      BY <1>17 DEF DrainWrite
    <3>2. CASE DrainGoto("stat")
      BY <1>0, <3>2, DrainMove
    <3>3. CASE drain.attempt + 1 < 3 /\ drain' = [drain EXCEPT !.attempt = @ + 1]
      BY <1>0, <3>3, DrainRetry
    <3>4. CASE drain' = NoDrain
      BY <3>4, Idleness DEF NoDrain
    <3>5. QED
      BY <3>1, <3>2, <3>3, <3>4
  <2>3. TypeOK'
    BY <1>0, <1>3, <1>17, <2>1, <2>2 DEF DrainWrite, TypeOK
  <2>4. QED
    BY <1>0, <1>1, <1>17, <2>2, <2>3 DEF DrainWrite, Draining, Shape, Cached
<1>18. CASE DrainStat
  <2>1. PICK n \in FileSize(drain.id) : drain' = [drain EXCEPT !.pc = "remove", !.size = n]
    BY <1>18 DEF DrainStat
  <2>2. /\ drain' \in Drain /\ drain'.pc # "idle" /\ drain'.id = drain.id
        /\ drain'.data = drain.data
    BY <1>0, <1>1, <1>2, <1>18, <2>1 DEF DrainStat, Drain
  <2>3. TypeOK'
    BY <1>0, <1>18, <2>2 DEF DrainStat, TypeOK
  <2>4. QED
    BY <1>0, <1>1, <1>18, <2>2, <2>3 DEF DrainStat, Draining, Shape, Cached
<1>19. CASE DrainRemove
  <2>1. /\ drain' \in Drain /\ drain'.pc \in {"used"}
        /\ drain'.id = drain.id /\ drain'.data = drain.data
        /\ drain'.size = drain.size
    BY <1>0, <1>19, DrainMove DEF DrainRemove
  <2>2. TypeOK'
    BY <1>0, <1>1, <1>2, <1>3, Sizes, <1>19, <2>1 DEF DrainRemove, TypeOK, Content
  <2>3. QED
    BY <1>0, <1>1, <1>2, <1>3, Sizes, <1>19, <2>1, <2>2
       DEF DrainRemove, Draining, Shape, Cached
<1>20. CASE DrainUsed
  <2>1. /\ drain' \in Drain /\ drain'.pc \in {"broadcast"}
        /\ drain'.id = drain.id /\ drain'.data = drain.data
        /\ drain'.size = drain.size
    BY <1>0, <1>20, DrainMove DEF DrainUsed
  <2>2. TypeOK'
    BY <1>0, <1>1, <1>2, <1>3, Sizes, <1>20, <2>1 DEF DrainUsed, TypeOK
  <2>3. QED
    BY <1>0, <1>1, <1>2, <1>3, Sizes, <1>20, <2>1, <2>2
       DEF DrainUsed, Draining, Shape, Cached
<1>21. CASE DrainBroadcast
  <2>1. TypeOK'
    BY <1>0, <1>21, Idleness, Wake DEF DrainBroadcast, TypeOK
  <2>2. QED
    BY <1>0, <1>1, <1>21, <2>1, Wake DEF DrainBroadcast, NoDrain, Shape, Cached
<1>22. CASE RecoverFile
  BY <1>0, <1>1, <1>2, <1>3, Sizes, <1>22
     DEF RecoverFile, Expose, Shape, TypeOK, Content, Cached
<1>23. CASE RecoverSend
  <2>1. [id |-> rec, data |-> files[rec]] \in Item
    BY <1>0, <1>1, <1>23 DEF RecoverSend, Item, Content
  <2>2. queue' \in Seq(Item) /\ Len(queue') <= QueueCap
    BY <1>0, <1>23, <2>1, AppendItem, CacheAssumption DEF RecoverSend
  <2>3. TypeOK'
    BY <1>0, <1>23, <2>2 DEF RecoverSend, TypeOK
  <2>4. QED
    BY <1>0, <1>1, <1>23, <2>3 DEF RecoverSend, Shape, Cached
<1>24. CASE RecoverDone
  BY <1>0, <1>1, <1>2, <1>3, Sizes, <1>24 DEF RecoverDone, Shape, TypeOK, Content, Cached
<1>25. CASE Close
  BY <1>0, <1>1, <1>2, <1>3, Sizes, <1>25
     DEF Close, AtClient, Shape, TypeOK, Content, Cached
<1>26. CASE DrainExit
  BY <1>0, <1>1, <1>2, <1>3, Sizes, <1>26 DEF DrainExit, Shape, TypeOK, Content, Cached
<1>27. CASE Restart
  <2>1. inner' \in [Chunk -> Content] /\ exposed' \subseteq Chunk /\ crashes' \in 0..MaxCrashes
    BY <1>0, <1>27 DEF Restart
  <2>2. QED
    BY <1>27, <2>1, ShapeStartUp DEF Restart
<1>28. CASE Crash
  <2>1. exposed' \subseteq Chunk
    BY <1>0, <1>1, <1>28 DEF Crash, Expose
  <2>2. crashes' \in 0..MaxCrashes
    BY <1>0, <1>28, CacheAssumption DEF Crash
  <2>3. inner' \in [Chunk -> Content]
    BY <1>0, <1>1, <1>28, UnfinishedType DEF Crash
  <2>4. QED
    BY <1>28, <2>1, <2>2, <2>3, ShapeStartUp DEF Crash
<1>29. CASE UNCHANGED vars
  BY <1>0, <1>1, <1>29 DEF Shape, TypeOK, Cached, vars
<1>30. QED
  BY <1>4, <1>5, <1>6, <1>7, <1>8, <1>9, <1>10, <1>11, <1>12, <1>13, <1>14, <1>15, <1>16,
     <1>17, <1>18, <1>19, <1>20, <1>21, <1>22, <1>23, <1>24, <1>25, <1>26, <1>27, <1>28,
     <1>29
     DEF Next, Calls, ClientStep, DrainStep, RecoverStep

\* The cache is well typed, and the queue never holds more than the channel.
THEOREM CacheTypeCorrect == Spec => []TypeOK
<1>1. Shape => TypeOK
  BY DEF Shape
<1>2. QED
  BY <1>1, ShapeInit, ShapeStep, PTL DEF Spec

-----------------------------------------------------------------------------
\* Where the copies of a chunk are, while it has not been exposed.

At(c, pcs) == client.id = c /\ client.pc \in pcs
InDrain(c, pcs) == drain.id = c /\ drain.pc \in pcs

Writing == {"reserve", "asleep", "create", "fill", "unreserve", "send"}
Deleting == {"delFile", "delUsed", "delInner"}

\* No file and no item is cut short, but the file that is being written.
NothingShort(c) ==
    /\ files[c] = "short" => At(c, {"fill"})
    /\ WholeIn(queue, c)
    /\ InDrain(c, {"write"}) => drain.data = "whole"

\* The file is what the call has made of it; a call and the drain do not meet.
CallAlone(c) ==
    /\ At(c, {"reserve", "asleep", "create", "unreserve"}) => files[c] = "none"
    /\ At(c, {"fill"}) => files[c] = "short"
    /\ At(c, {"send"}) => files[c] = "whole"
    /\ At(c, Writing \cup Deleting) => ~Pending(c)
    /\ At(c, Deleting) => c \notin accepted
    /\ At(c, {"readInner"}) => ~Pending(c)

\* There is a copy, and the drain removes the file once the inner backend has one.
CopyKept(c) ==
    /\ c \in accepted => \/ files[c] = "whole"
                         \/ At(c, {"fill"})
                         \/ files[c] = "none" /\ inner[c] = "whole"
    /\ InDrain(c, {"stat", "remove"}) => inner[c] = "whole"
    /\ At(c, {"readInner"}) /\ c \in accepted => inner[c] = "whole"

\* With less than three failures no attempt is the last one: what is not in the inner
\* backend is on its way there.
OnItsWay(c) ==
    faults < 3 /\ c \in accepted =>
        \/ inner[c] = "whole"
        \/ Pending(c)
        \/ phase = "recovering" /\ (c \in left \/ c = rec)

Safe(c) == NothingShort(c) /\ CallAlone(c) /\ CopyKept(c) /\ OnItsWay(c)

\* At most one item of c is on its way to the drain, and as long as it is its file is there:
\* what the drain does to c cannot be seen.
Single(c) ==
    /\ Pending(c) => files[c] = "whole"
    /\ OneIn(queue, c)
    /\ InDrain(c, {"write", "stat", "remove"}) => ~In(queue, c)
    /\ c \in left \/ c = rec => ~Pending(c)
    /\ c = rec => c \notin left
    /\ At(c, {"delUsed", "delInner"}) => files[c] = "none"

CacheInv ==
    /\ Shape
    /\ drain.attempt <= faults
    /\ \A c \in Chunk \ exposed : Safe(c) /\ Single(c)

LEMMA PendingSame ==
    ASSUME NEW c, UNCHANGED <<queue, drain>>
    PROVE  Pending(c)' <=> Pending(c)
BY DEF Pending

LEMMA PendingIn ==
    ASSUME NEW c
    PROVE  /\ Pending(c) <=> InDrain(c, {"write", "stat", "remove"}) \/ In(queue, c)
           /\ Pending(c)' <=> InDrain(c, {"write", "stat", "remove"})' \/ In(queue', c)
BY DEF Pending, InDrain, In

LEMMA NothingIn == ASSUME NEW c PROVE ~In(<<>>, c) /\ WholeIn(<<>>, c)
BY DEF In, WholeIn

\* When the process ends, by itself or by a crash, the copies are in the directory and in
\* the inner backend.
LEMMA SafeStartUp ==
    ASSUME Shape, StartUp, NEW c \in Chunk, Safe(c), Single(c), ~At(c, {"fill"}),
           inner'[c] = inner[c] \/ InDrain(c, {"write"})
    PROVE  Safe(c)'
<1>1. /\ queue' = <<>> /\ drain'.pc = "idle" /\ client'.pc = "idle"
      /\ phase' = "recovering" /\ left' = Cached
      /\ UNCHANGED <<files, accepted, faults>>
  BY DEF StartUp, NoDrain, NoCall
<1>0. files[c] = "whole" \/ inner'[c] = inner[c]
  BY PendingIn DEF Single, InDrain
<1>2. NothingShort(c)'
  BY <1>1, NothingIn DEF Safe, NothingShort, InDrain, At
<1>3. CallAlone(c)'
  BY <1>1 DEF CallAlone, At, Writing, Deleting
<1>4. CopyKept(c)'
  BY <1>0, <1>1 DEF Safe, CopyKept, At, InDrain
<1>5. OnItsWay(c)'
  BY <1>0, <1>1 DEF Safe, CopyKept, NothingShort, OnItsWay, Cached, At
<1>6. QED
  BY <1>2, <1>3, <1>4, <1>5 DEF Safe

\* No step takes a chunk out of the exposed ones.
LEMMA ExposedGrows == [Next]_vars => exposed \subseteq exposed'
BY DEF Next, Calls, ClientStep, DrainStep, RecoverStep, BeginWrite, Reserve,
     CreateFile, FillFile, Unreserve, Send, DeleteStat, DeleteFile, DeleteUsed,
     DeleteInner, ReadMiss, ReadInner, DrainTake, DrainWrite, DrainStat, DrainRemove,
     DrainUsed, DrainBroadcast, RecoverFile, RecoverSend, RecoverDone, Close, DrainExit,
     Restart, Crash, Expose, vars

LEMMA SafeStep ==
    ASSUME CacheInv, [Next]_vars, NEW c \in Chunk \ exposed'
    PROVE  Safe(c)'
<1>0. /\ files \in [Chunk -> Content] /\ inner \in [Chunk -> Content]
      /\ queue \in Seq(Item) /\ drain \in Drain /\ client \in Call
      /\ faults \in Nat /\ accepted \subseteq Chunk /\ left \subseteq Chunk
  BY CacheAssumption DEF CacheInv, Shape, TypeOK
<1>1. /\ client.pc # "idle" => client.id \in Chunk /\ phase = "up"
      /\ drain.pc # "idle" => drain.id \in Chunk /\ phase \in {"up", "closing"}
      /\ rec # NoChunk => phase = "recovering" /\ files[rec] # "none" /\ rec \in Chunk
      /\ left \subseteq Cached /\ (left # {} => phase = "recovering")
      /\ drain.attempt <= faults
  BY DEF CacheInv, Shape, TypeOK
<1>2. exposed \subseteq exposed'
  BY ExposedGrows
<1>3. NothingShort(c) /\ CallAlone(c) /\ CopyKept(c) /\ OnItsWay(c) /\ Single(c)
  BY <1>2 DEF CacheInv, Safe
<1>4. ASSUME NEW b \in Chunk, BeginWrite(b)
      PROVE  Safe(c)'
  <2>1. Pending(c)' <=> Pending(c)
    BY <1>4, PendingSame DEF BeginWrite
  <2>2. NothingShort(c)'
    BY <1>3, <1>4, <2>1 DEF BeginWrite, AtClient, Expose, NothingShort, At, InDrain
  <2>3. CallAlone(c)'
    BY <1>3, <1>4, <2>1 DEF BeginWrite, AtClient, Expose, CallAlone, At, Deleting
  <2>4. CopyKept(c)'
    BY <1>3, <1>4, <2>1 DEF BeginWrite, AtClient, Expose, CopyKept, At, InDrain
  <2>5. OnItsWay(c)'
    BY <1>3, <1>4, <2>1 DEF BeginWrite, AtClient, Expose, OnItsWay
  <2>6. QED
    BY <2>2, <2>3, <2>4, <2>5 DEF Safe
<1>5. CASE Reserve
  <2>1. /\ client'.pc \in {"asleep", "create"} /\ client'.id = client.id
        /\ Pending(c)' <=> Pending(c)
    BY <1>0, <1>5, CallGoto, PendingSame DEF Reserve
  <2>2. NothingShort(c)'
    BY <1>3, <1>5, <2>1 DEF Reserve, AtClient, NothingShort, At, InDrain
  <2>3. CallAlone(c)'
    BY <1>3, <1>5, <2>1 DEF Reserve, AtClient, CallAlone, At, Writing, Deleting
  <2>4. CopyKept(c)'
    BY <1>3, <1>5, <2>1 DEF Reserve, AtClient, CopyKept, At, InDrain
  <2>5. OnItsWay(c)'
    BY <1>3, <1>5, <2>1 DEF Reserve, AtClient, OnItsWay
  <2>6. QED
    BY <2>2, <2>3, <2>4, <2>5 DEF Safe
<1>6. CASE CreateFile
  <2>1. /\ client'.id = client.id
        /\ \/ client'.pc = "fill" /\ faults' = faults
              /\ files' = [files EXCEPT ![client.id] = "short"]
           \/ client'.pc = "unreserve" /\ faults' = faults + 1 /\ files' = files
        /\ Pending(c)' <=> Pending(c)
    BY <1>0, <1>6, CallGoto, PendingSame DEF CreateFile, Works, Fails
  <2>2. NothingShort(c)'
    BY <1>0, <1>3, <1>6, <2>1 DEF CreateFile, AtClient, NothingShort, At, InDrain
  <2>3. CallAlone(c)'
    BY <1>0, <1>3, <1>6, <2>1 DEF CreateFile, AtClient, CallAlone, At, Writing, Deleting
  <2>4. CopyKept(c)'
    BY <1>0, <1>3, <1>6, <2>1 DEF CreateFile, AtClient, CopyKept, At, InDrain
  <2>5. OnItsWay(c)'
    BY <1>0, <1>3, <1>6, <2>1 DEF CreateFile, AtClient, OnItsWay
  <2>6. QED
    BY <2>2, <2>3, <2>4, <2>5 DEF Safe
<1>7. CASE FillFile
  <2>1. /\ client'.id = client.id
        /\ \/ client'.pc = "send" /\ faults' = faults
              /\ files' = [files EXCEPT ![client.id] = IF @ = "none" THEN @ ELSE "whole"]
           \/ /\ client'.pc = "unreserve" /\ faults' = faults + 1 /\ files' = files
              /\ client.id # c
        /\ Pending(c)' <=> Pending(c)
    BY <1>0, <1>7, CallGoto, PendingSame DEF FillFile, Works, Fails, Expose
  <2>2. NothingShort(c)'
    BY <1>0, <1>3, <1>7, <2>1 DEF FillFile, AtClient, NothingShort, At, InDrain
  <2>3. CallAlone(c)'
    BY <1>0, <1>3, <1>7, <2>1 DEF FillFile, AtClient, CallAlone, At, Writing, Deleting
  <2>4. CopyKept(c)'
    BY <1>0, <1>3, <1>7, <2>1
       DEF FillFile, AtClient, CallAlone, CopyKept, At, InDrain, Writing, Deleting
  <2>5. OnItsWay(c)'
    BY <1>0, <1>3, <1>7, <2>1 DEF FillFile, AtClient, OnItsWay
  <2>6. QED
    BY <2>2, <2>3, <2>4, <2>5 DEF Safe
<1>8. CASE Unreserve
  <2>1. client'.pc = "idle" /\ (Pending(c)' <=> Pending(c))
    BY <1>8, PendingSame DEF Unreserve, NoCall
  <2>2. NothingShort(c)'
    BY <1>3, <1>8, <2>1 DEF Unreserve, AtClient, NothingShort, At, InDrain
  <2>3. CallAlone(c)'
    BY <1>3, <1>8, <2>1 DEF Unreserve, AtClient, CallAlone, At, Writing, Deleting
  <2>4. CopyKept(c)'
    BY <1>3, <1>8, <2>1 DEF Unreserve, AtClient, CopyKept, At, InDrain
  <2>5. OnItsWay(c)'
    BY <1>3, <1>8, <2>1 DEF Unreserve, AtClient, OnItsWay
  <2>6. QED
    BY <2>2, <2>3, <2>4, <2>5 DEF Safe
<1>9. CASE Send
  <2>1. /\ client'.pc = "idle"
        /\ Pending(c)' <=> Pending(c) \/ client.id = c
        /\ WholeIn(queue, c) => WholeIn(queue', c)
    <3>1. [id |-> client.id, data |-> "whole"] \in Item
      BY <1>1, <1>9 DEF Send, AtClient, Item, Content
    <3>2. QED
      BY <1>0, <1>9, <3>1, InAppend, WholeAppend, PendingIn DEF Send, NoCall, InDrain
  <2>2. NothingShort(c)'
    BY <1>3, <1>9, <2>1 DEF Send, AtClient, NothingShort, At, InDrain
  <2>3. CallAlone(c)'
    BY <1>3, <1>9, <2>1 DEF Send, AtClient, CallAlone, At, Writing, Deleting
  <2>4. CopyKept(c)'
    BY <1>3, <1>9, <2>1
       DEF Send, AtClient, CallAlone, CopyKept, At, InDrain, Writing, Deleting
  <2>5. OnItsWay(c)'
    BY <1>3, <1>9, <2>1 DEF Send, AtClient, OnItsWay
  <2>6. QED
    BY <2>2, <2>3, <2>4, <2>5 DEF Safe
<1>10. ASSUME NEW b \in Chunk, DeleteStat(b)
      PROVE  Safe(c)'
  <2>1. Pending(c)' <=> Pending(c)
    BY <1>10, PendingSame DEF DeleteStat
  <2>2. NothingShort(c)'
    BY <1>3, <1>10, <2>1 DEF DeleteStat, AtClient, Expose, NothingShort, At, InDrain
  <2>3. CallAlone(c)'
    BY <1>3, <1>10, <2>1 DEF DeleteStat, AtClient, Expose, CallAlone, At, Deleting
  <2>4. CopyKept(c)'
    BY <1>3, <1>10, <2>1 DEF DeleteStat, AtClient, Expose, CopyKept, At, InDrain
  <2>5. OnItsWay(c)'
    BY <1>3, <1>10, <2>1 DEF DeleteStat, AtClient, Expose, OnItsWay
  <2>6. QED
    BY <2>2, <2>3, <2>4, <2>5 DEF Safe
<1>11. CASE DeleteFile
  <2>1. /\ client'.pc \in {"delUsed"} /\ client'.id = client.id
        /\ Pending(c)' <=> Pending(c)
    BY <1>0, <1>11, CallGoto, PendingSame DEF DeleteFile
  <2>2. NothingShort(c)'
    BY <1>3, <1>11, <2>1 DEF DeleteFile, AtClient, NothingShort, At, InDrain
  <2>3. CallAlone(c)'
    BY <1>3, <1>11, <2>1 DEF DeleteFile, AtClient, CallAlone, At, Deleting
  <2>4. CopyKept(c)'
    BY <1>3, <1>11, <2>1
       DEF DeleteFile, AtClient, CallAlone, CopyKept, At, InDrain, Writing, Deleting
  <2>5. OnItsWay(c)'
    BY <1>3, <1>11, <2>1 DEF DeleteFile, AtClient, OnItsWay
  <2>6. QED
    BY <2>2, <2>3, <2>4, <2>5 DEF Safe
<1>12. CASE DeleteUsed
  <2>1. /\ client'.pc \in {"delInner"} /\ client'.id = client.id
        /\ Pending(c)' <=> Pending(c)
    BY <1>0, <1>12, CallGoto, PendingSame DEF DeleteUsed
  <2>2. NothingShort(c)'
    BY <1>3, <1>12, <2>1 DEF DeleteUsed, AtClient, NothingShort, At, InDrain
  <2>3. CallAlone(c)'
    BY <1>3, <1>12, <2>1 DEF DeleteUsed, AtClient, CallAlone, At, Deleting
  <2>4. CopyKept(c)'
    BY <1>3, <1>12, <2>1 DEF DeleteUsed, AtClient, CopyKept, At, InDrain
  <2>5. OnItsWay(c)'
    BY <1>3, <1>12, <2>1 DEF DeleteUsed, AtClient, OnItsWay
  <2>6. QED
    BY <2>2, <2>3, <2>4, <2>5 DEF Safe
<1>13. CASE DeleteInner
  <2>1. client'.pc = "idle" /\ (Pending(c)' <=> Pending(c))
    BY <1>13, PendingSame DEF DeleteInner, NoCall
  <2>2. NothingShort(c)'
    BY <1>0, <1>3, <1>13, <2>1
       DEF DeleteInner, AtClient, Works, Fails, NothingShort, At, InDrain
  <2>3. CallAlone(c)'
    BY <1>3, <1>13, <2>1
       DEF DeleteInner, AtClient, Works, Fails, CallAlone, At, Writing, Deleting
  <2>4. CopyKept(c)'
    BY <1>0, <1>3, <1>13, <2>1, PendingIn
       DEF DeleteInner, AtClient, Works, Fails, CallAlone, CopyKept, At, InDrain,
       Writing, Deleting
  <2>5. OnItsWay(c)'
    BY <1>0, <1>3, <1>13, <2>1
       DEF DeleteInner, AtClient, Works, Fails, CallAlone, OnItsWay, At, Writing, Deleting
  <2>6. QED
    BY <2>2, <2>3, <2>4, <2>5 DEF Safe
<1>14. ASSUME NEW b \in Chunk, ReadMiss(b)
      PROVE  Safe(c)'
  <2>1. Pending(c)' <=> Pending(c)
    BY <1>14, PendingSame DEF ReadMiss
  <2>2. NothingShort(c)'
    BY <1>3, <1>14, <2>1 DEF ReadMiss, AtClient, NothingShort, At, InDrain
  <2>3. CallAlone(c)'
    BY <1>3, <1>14, <2>1 DEF ReadMiss, AtClient, CallAlone, At, Writing, Deleting, Single
  <2>4. CopyKept(c)'
    BY <1>3, <1>14, <2>1 DEF ReadMiss, AtClient, CopyKept, At, InDrain
  <2>5. OnItsWay(c)'
    BY <1>3, <1>14, <2>1 DEF ReadMiss, AtClient, OnItsWay
  <2>6. QED
    BY <2>2, <2>3, <2>4, <2>5 DEF Safe
<1>15. CASE ReadInner
  <2>1. client'.pc = "idle" /\ (Pending(c)' <=> Pending(c))
    BY <1>15, PendingSame DEF ReadInner, NoCall
  <2>2. NothingShort(c)'
    BY <1>3, <1>15, <2>1 DEF ReadInner, AtClient, NothingShort, At, InDrain
  <2>3. CallAlone(c)'
    BY <1>3, <1>15, <2>1 DEF ReadInner, AtClient, CallAlone, At, Writing, Deleting
  <2>4. CopyKept(c)'
    BY <1>3, <1>15, <2>1 DEF ReadInner, AtClient, CopyKept, At, InDrain
  <2>5. OnItsWay(c)'
    BY <1>3, <1>15, <2>1 DEF ReadInner, AtClient, OnItsWay
  <2>6. QED
    BY <2>2, <2>3, <2>4, <2>5 DEF Safe
<1>16. CASE DrainTake
  <2>1. /\ drain'.pc = "write" /\ drain'.id = Head(queue).id
        /\ drain'.data = Head(queue).data
        /\ Pending(c)' <=> Pending(c)
        /\ WholeIn(queue', c)
        /\ Head(queue).id = c => Head(queue).data = "whole"
    <3>1. /\ drain'.pc = "write" /\ drain'.id = Head(queue).id
          /\ drain'.data = Head(queue).data
      BY <1>16 DEF DrainTake, NoDrain
    <3>2. Pending(c)' <=> Pending(c)
      BY <1>0, <1>16, <3>1, InTake, PendingIn DEF DrainTake, InDrain
    <3>3. WholeIn(queue', c) /\ (Head(queue).id = c => Head(queue).data = "whole")
      BY <1>0, <1>3, <1>16, WholeTake DEF DrainTake, NothingShort
    <3>4. QED
      BY <3>1, <3>2, <3>3
  <2>2. NothingShort(c)'
    BY <1>3, <1>16, <2>1 DEF DrainTake, NothingShort, At, InDrain
  <2>3. CallAlone(c)'
    BY <1>3, <1>16, <2>1 DEF DrainTake, CallAlone, At, Deleting
  <2>4. CopyKept(c)'
    BY <1>3, <1>16, <2>1 DEF DrainTake, CopyKept, At, InDrain
  <2>5. OnItsWay(c)'
    BY <1>3, <1>16, <2>1 DEF DrainTake, OnItsWay
  <2>6. QED
    BY <2>2, <2>3, <2>4, <2>5 DEF Safe
<1>17. CASE DrainWrite
  <2>1. \/ /\ inner' = [inner EXCEPT ![drain.id] = drain.data] /\ faults' = faults
           /\ drain'.pc = "stat" /\ drain'.id = drain.id /\ drain'.data = drain.data
           /\ Pending(c)' <=> Pending(c)
        \/ /\ inner' \in Unfinished /\ faults' = faults + 1
           /\ \/ /\ drain'.pc = "write" /\ drain'.id = drain.id /\ drain'.data = drain.data
                 /\ Pending(c)' <=> Pending(c)
              \/ /\ drain'.pc = "idle" /\ drain.attempt + 1 >= 3
                 /\ Pending(c)' <=> In(queue, c)
    <3>1. drain.attempt + 1 \in Int /\ drain.id \in Chunk
      BY <1>0, <1>1, <1>17 DEF Drain, DrainWrite
    <3>2. CASE Works /\ inner' = [inner EXCEPT ![drain.id] = drain.data] /\ DrainGoto("stat")
      <4>1. /\ drain'.pc = "stat" /\ drain'.id = drain.id /\ drain'.data = drain.data
        BY <1>0, <3>2, DrainMove
      <4>2. Pending(c)' <=> Pending(c)
        BY <1>17, <4>1, PendingIn DEF InDrain, DrainWrite
      <4>3. QED
        BY <3>2, <4>1, <4>2 DEF Works
    <3>3. CASE /\ Fails /\ inner' \in Unfinished
               /\ drain.attempt + 1 < 3 /\ drain' = [drain EXCEPT !.attempt = @ + 1]
      <4>1. /\ drain'.pc = "write" /\ drain'.id = drain.id /\ drain'.data = drain.data
        BY <1>0, <3>3, <1>17, DrainRetry DEF DrainWrite
      <4>2. Pending(c)' <=> Pending(c)
        BY <1>17, <4>1, PendingIn DEF InDrain, DrainWrite
      <4>3. QED
        BY <3>3, <4>1, <4>2 DEF Fails
    <3>4. CASE /\ Fails /\ inner' \in Unfinished
               /\ ~(drain.attempt + 1 < 3) /\ drain' = NoDrain
      <4>1. drain'.pc = "idle"
        BY <3>4 DEF NoDrain
      <4>2. Pending(c)' <=> In(queue, c)
        BY <1>17, <4>1, PendingIn DEF InDrain, DrainWrite
      <4>3. QED
        BY <3>1, <3>4, <4>1, <4>2 DEF Fails
    <3>5. QED
      BY <1>17, <3>2, <3>3, <3>4 DEF DrainWrite
  <2>0. drain.pc = "write" /\ drain.id \in Chunk /\ drain.attempt \in Nat
    BY <1>0, <1>1, <1>17 DEF DrainWrite, Drain
  <2>2. NothingShort(c)'
    BY <1>0, <1>3, <1>17, <2>1, <2>0, PendingIn DEF DrainWrite, NothingShort, At, InDrain
  <2>3. CallAlone(c)'
    BY <1>3, <1>17, <2>1, <2>0, PendingIn DEF DrainWrite, CallAlone, At, Deleting
  <2>a. \/ inner' = [inner EXCEPT ![drain.id] = drain.data]
        \/ drain'.pc # "stat" /\ (drain.id # c => inner'[c] = inner[c])
    BY <1>0, <2>1, UnfinishedType
  <2>b. drain.id = c => files[c] = "whole" /\ ~At(c, {"readInner"})
    BY <1>3, <2>0, PendingIn DEF Single, CallAlone, InDrain
  <2>4. CopyKept(c)'
    <3>1. UNCHANGED <<files, client, accepted>>
      BY <1>17 DEF DrainWrite
    <3>2. CASE drain.id = c
      BY <1>0, <1>3, <2>0, <2>1, <2>a, <2>b, <3>1, <3>2
         DEF NothingShort, CopyKept, At, InDrain
    <3>3. CASE drain.id # c
      <4>1. inner'[c] = inner[c]
        BY <1>0, <2>0, <2>a, <3>3
      <4>2. drain'.pc = "idle" \/ drain'.id = drain.id
        BY <2>1
      <4>3. QED
        BY <1>3, <3>1, <3>3, <4>1, <4>2 DEF CopyKept, At, InDrain
    <3>4. QED
      BY <3>2, <3>3
  <2>5. OnItsWay(c)'
    <3>1. UNCHANGED <<phase, left, rec, accepted, queue>> /\ drain.attempt <= faults
      BY <1>1, <1>17 DEF DrainWrite
    <3>2. CASE drain.id = c
      <4>1. (drain'.pc \in {"stat", "write"} /\ drain'.id = c) \/ ~(faults' < 3)
        BY <1>0, <2>0, <2>1, <3>1, <3>2
      <4>2. QED
        BY <4>1, PendingIn DEF OnItsWay, InDrain
    <3>3. CASE drain.id # c
      <4>1. inner'[c] = inner[c] /\ (faults' < 3 => faults < 3)
        BY <1>0, <2>0, <2>1, <2>a, <3>3
      <4>2. Pending(c) => Pending(c)'
        BY <2>0, <2>1, <3>3, PendingIn DEF InDrain
      <4>3. QED
        BY <1>3, <3>1, <4>1, <4>2 DEF OnItsWay
    <3>4. QED
      BY <3>2, <3>3
  <2>6. QED
    BY <2>2, <2>3, <2>4, <2>5 DEF Safe
<1>18. CASE DrainStat
  <2>1. /\ drain'.pc = "remove" /\ drain'.id = drain.id
        /\ Pending(c)' <=> Pending(c)
    <3>1. drain'.pc = "remove" /\ drain'.id = drain.id
      BY <1>0, <1>18 DEF DrainStat, Drain
    <3>2. QED
      BY <1>18, <3>1, PendingIn DEF DrainStat, InDrain
  <2>2. NothingShort(c)'
    BY <1>3, <1>18, <2>1 DEF DrainStat, NothingShort, At, InDrain
  <2>3. CallAlone(c)'
    BY <1>3, <1>18, <2>1 DEF DrainStat, CallAlone, At, Deleting
  <2>4. CopyKept(c)'
    BY <1>3, <1>18, <2>1 DEF DrainStat, CopyKept, At, InDrain
  <2>5. OnItsWay(c)'
    BY <1>3, <1>18, <2>1 DEF DrainStat, OnItsWay
  <2>6. QED
    BY <2>2, <2>3, <2>4, <2>5 DEF Safe
<1>19. CASE DrainRemove
  <2>1. /\ drain'.pc = "used" /\ drain'.id = drain.id
        /\ Pending(c)' => Pending(c)
        /\ drain.id # c => (Pending(c)' <=> Pending(c))
        /\ drain.id = c => Pending(c)
    <3>1. drain'.pc = "used" /\ drain'.id = drain.id
      BY <1>0, <1>19, DrainMove DEF DrainRemove
    <3>2. QED
      BY <1>19, <3>1, PendingIn DEF DrainRemove, InDrain
  <2>2. NothingShort(c)'
    BY <1>3, <1>19, <2>1 DEF DrainRemove, NothingShort, At, InDrain
  <2>3. CallAlone(c)'
    BY <1>3, <1>19, <2>1 DEF DrainRemove, CallAlone, At, Writing, Deleting
  <2>4. CopyKept(c)'
    BY <1>3, <1>19, <2>1 DEF DrainRemove, CopyKept, At, InDrain
  <2>5. OnItsWay(c)'
    BY <1>3, <1>19, <2>1 DEF DrainRemove, CopyKept, OnItsWay, At, InDrain
  <2>6. QED
    BY <2>2, <2>3, <2>4, <2>5 DEF Safe
<1>20. CASE DrainUsed
  <2>1. /\ drain'.pc = "broadcast" /\ drain'.id = drain.id
        /\ Pending(c)' <=> Pending(c)
    <3>1. drain'.pc = "broadcast" /\ drain'.id = drain.id
      BY <1>0, <1>20, DrainMove DEF DrainUsed
    <3>2. QED
      BY <1>20, <3>1, PendingIn DEF DrainUsed, InDrain
  <2>2. NothingShort(c)'
    BY <1>3, <1>20, <2>1 DEF DrainUsed, NothingShort, At, InDrain
  <2>3. CallAlone(c)'
    BY <1>3, <1>20, <2>1 DEF DrainUsed, CallAlone, At, Deleting
  <2>4. CopyKept(c)'
    BY <1>3, <1>20, <2>1 DEF DrainUsed, CopyKept, At, InDrain
  <2>5. OnItsWay(c)'
    BY <1>3, <1>20, <2>1 DEF DrainUsed, OnItsWay
  <2>6. QED
    BY <2>2, <2>3, <2>4, <2>5 DEF Safe
<1>21. CASE DrainBroadcast
  <2>1. /\ drain'.pc = "idle" /\ client'.id = client.id
        /\ client'.pc = IF client.pc = "asleep" THEN "reserve" ELSE client.pc
        /\ Pending(c)' <=> Pending(c)
    <3>1. drain'.pc = "idle"
      BY <1>21 DEF DrainBroadcast, NoDrain
    <3>2. QED
      BY <1>0, <1>21, <3>1, Wake, PendingIn DEF DrainBroadcast, InDrain
  <2>2. NothingShort(c)'
    BY <1>3, <1>21, <2>1 DEF DrainBroadcast, NothingShort, At, InDrain
  <2>3. CallAlone(c)'
    BY <1>3, <1>21, <2>1 DEF DrainBroadcast, CallAlone, At, Writing, Deleting
  <2>4. CopyKept(c)'
    BY <1>3, <1>21, <2>1 DEF DrainBroadcast, CopyKept, At, InDrain
  <2>5. OnItsWay(c)'
    BY <1>3, <1>21, <2>1 DEF DrainBroadcast, OnItsWay
  <2>6. QED
    BY <2>2, <2>3, <2>4, <2>5 DEF Safe
<1>22. CASE RecoverFile
  <2>1. Pending(c)' <=> Pending(c)
    BY <1>22, PendingSame DEF RecoverFile
  <2>2. NothingShort(c)'
    BY <1>3, <1>22, <2>1 DEF RecoverFile, Expose, Works, Fails, NothingShort, At, InDrain
  <2>3. CallAlone(c)'
    BY <1>3, <1>22, <2>1 DEF RecoverFile, Expose, Works, Fails, CallAlone, At, Deleting
  <2>4. CopyKept(c)'
    BY <1>3, <1>22, <2>1 DEF RecoverFile, Expose, Works, Fails, CopyKept, At, InDrain
  <2>5. OnItsWay(c)'
    BY <1>0, <1>3, <1>22, <2>1, CacheAssumption
       DEF RecoverFile, Expose, Works, Fails, OnItsWay
  <2>6. QED
    BY <2>2, <2>3, <2>4, <2>5 DEF Safe
<1>23. CASE RecoverSend
  <2>1. /\ Pending(c)' <=> Pending(c) \/ rec = c
        /\ WholeIn(queue', c)
    <3>1. [id |-> rec, data |-> files[rec]] \in Item
      BY <1>0, <1>1, <1>23 DEF RecoverSend, Item
    <3>2. rec = c => files[rec] = "whole"
      BY <1>0, <1>1, <1>3, <1>23 DEF RecoverSend, NothingShort, At, Content
    <3>3. WholeIn(queue', c)
      BY <1>0, <1>3, <1>23, <3>1, <3>2, WholeAppend DEF RecoverSend, NothingShort
    <3>4. QED
      BY <1>0, <1>23, <3>1, <3>3, InAppend, PendingIn DEF RecoverSend, InDrain
  <2>2. NothingShort(c)'
    BY <1>3, <1>23, <2>1 DEF RecoverSend, NothingShort, At, InDrain
  <2>3. CallAlone(c)'
    BY <1>1, <1>3, <1>23, <2>1 DEF RecoverSend, CallAlone, At, Writing, Deleting
  <2>4. CopyKept(c)'
    BY <1>3, <1>23, <2>1 DEF RecoverSend, CopyKept, At, InDrain
  <2>5. OnItsWay(c)'
    BY <1>3, <1>23, <2>1, CacheAssumption DEF RecoverSend, OnItsWay
  <2>6. QED
    BY <2>2, <2>3, <2>4, <2>5 DEF Safe
<1>24. CASE RecoverDone
  <2>1. Pending(c)' <=> Pending(c)
    BY <1>24, PendingSame DEF RecoverDone
  <2>2. NothingShort(c)'
    BY <1>3, <1>24, <2>1 DEF RecoverDone, NothingShort, At, InDrain
  <2>3. CallAlone(c)'
    BY <1>3, <1>24, <2>1 DEF RecoverDone, CallAlone, At, Deleting
  <2>4. CopyKept(c)'
    BY <1>3, <1>24, <2>1 DEF RecoverDone, CopyKept, At, InDrain
  <2>5. OnItsWay(c)'
    BY <1>3, <1>24, <2>1, CacheAssumption DEF RecoverDone, OnItsWay
  <2>6. QED
    BY <2>2, <2>3, <2>4, <2>5 DEF Safe
<1>25. CASE Close
  <2>1. Pending(c)' <=> Pending(c)
    BY <1>25, PendingSame DEF Close
  <2>2. NothingShort(c)'
    BY <1>3, <1>25, <2>1 DEF Close, AtClient, NothingShort, At, InDrain
  <2>3. CallAlone(c)'
    BY <1>3, <1>25, <2>1 DEF Close, AtClient, CallAlone, At, Deleting
  <2>4. CopyKept(c)'
    BY <1>3, <1>25, <2>1 DEF Close, AtClient, CopyKept, At, InDrain
  <2>5. OnItsWay(c)'
    BY <1>3, <1>25, <2>1 DEF Close, AtClient, OnItsWay
  <2>6. QED
    BY <2>2, <2>3, <2>4, <2>5 DEF Safe
<1>26. CASE DrainExit
  <2>1. Pending(c)' <=> Pending(c)
    BY <1>26, PendingSame DEF DrainExit
  <2>2. NothingShort(c)'
    BY <1>3, <1>26, <2>1 DEF DrainExit, NothingShort, At, InDrain
  <2>3. CallAlone(c)'
    BY <1>3, <1>26, <2>1 DEF DrainExit, CallAlone, At, Deleting
  <2>4. CopyKept(c)'
    BY <1>3, <1>26, <2>1 DEF DrainExit, CopyKept, At, InDrain
  <2>5. OnItsWay(c)'
    BY <1>3, <1>26, <2>1 DEF DrainExit, OnItsWay
  <2>6. QED
    BY <2>2, <2>3, <2>4, <2>5 DEF Safe
<1>27. CASE Restart
  <2>1. ~At(c, {"fill"})
    BY <1>1, <1>27 DEF Restart, At
  <2>2. inner'[c] = inner[c] /\ Safe(c) /\ Single(c) /\ Shape
    BY <1>3, <1>27 DEF Restart, CacheInv, Safe
  <2>3. QED
    BY <1>27, <2>1, <2>2, SafeStartUp DEF Restart
<1>28. CASE Crash
  <2>1. ~At(c, {"fill"})
    BY <1>28 DEF Crash, Expose, At
  <2>2. inner'[c] = inner[c] \/ InDrain(c, {"write"})
    BY <1>0, <1>28, UnfinishedType DEF Crash, InDrain
  <2>3. Safe(c) /\ Single(c) /\ Shape
    BY <1>3 DEF CacheInv, Safe
  <2>4. QED
    BY <1>28, <2>1, <2>2, <2>3, SafeStartUp DEF Crash
<1>29. CASE UNCHANGED vars
  <2>1. Pending(c)' <=> Pending(c)
    BY <1>29, PendingSame DEF vars
  <2>2. NothingShort(c)'
    BY <1>3, <1>29, <2>1 DEF vars, NothingShort, At, InDrain
  <2>3. CallAlone(c)'
    BY <1>3, <1>29, <2>1 DEF vars, CallAlone, At, Deleting
  <2>4. CopyKept(c)'
    BY <1>3, <1>29, <2>1 DEF vars, CopyKept, At, InDrain
  <2>5. OnItsWay(c)'
    BY <1>3, <1>29, <2>1 DEF vars, OnItsWay
  <2>6. QED
    BY <2>2, <2>3, <2>4, <2>5 DEF Safe
<1>30. QED
  BY <1>4, <1>5, <1>6, <1>7, <1>8, <1>9, <1>10, <1>11, <1>12, <1>13, <1>14, <1>15, <1>16,
     <1>17, <1>18, <1>19, <1>20, <1>21, <1>22, <1>23, <1>24, <1>25, <1>26, <1>27, <1>28,
     <1>29
     DEF Next, Calls, ClientStep, DrainStep, RecoverStep

\* Nothing takes a failure back.
LEMMA FaultsGrow == Shape /\ [Next]_vars => faults <= faults' /\ faults \in Nat /\ faults' \in Nat
<1> SUFFICES ASSUME Shape, [Next]_vars
             PROVE  faults <= faults' /\ faults \in Nat /\ faults' \in Nat
  OBVIOUS
<1>1. faults \in Nat
  BY CacheAssumption DEF Shape, TypeOK
<1>2. faults' = faults \/ Fails
  BY DEF Next, Calls, ClientStep, DrainStep, RecoverStep, BeginWrite, Reserve,
     CreateFile, FillFile, Unreserve, Send, DeleteStat, DeleteFile, DeleteUsed,
     DeleteInner, ReadMiss, ReadInner, DrainTake, DrainWrite, DrainStat, DrainRemove,
     DrainUsed, DrainBroadcast, RecoverFile, RecoverSend, RecoverDone, Close,
     DrainExit, Restart, Crash, StartUp, Works, vars
<1>3. QED
  BY <1>1, <1>2 DEF Fails

\* The drain has failed at least as often as it has tried in vain.
LEMMA AttemptsStep ==
    ASSUME Shape, drain.attempt <= faults, [Next]_vars
    PROVE  drain'.attempt <= faults'
<1>1. /\ drain \in Drain /\ client \in Call /\ queue \in Seq(Item)
      /\ faults \in Nat /\ drain.attempt \in Int
  BY CacheAssumption DEF Shape, TypeOK, Drain
<1>2. faults <= faults' /\ faults' \in Nat
  BY FaultsGrow
<1>3. CASE DrainWrite
  <2>1. CASE drain' = [drain EXCEPT !.attempt = @ + 1] /\ Fails /\ drain.attempt + 1 < 3
    BY <1>1, <2>1, DrainRetry DEF Fails
  <2>2. CASE DrainGoto("stat")
    BY <1>1, <1>2, <2>2, DrainMove
  <2>3. CASE drain' = NoDrain
    BY <1>2, <2>3 DEF NoDrain
  <2>4. QED
    BY <1>3, <2>1, <2>2, <2>3 DEF DrainWrite
<1>4. CASE DrainTake \/ DrainBroadcast \/ Restart \/ Crash
  <2>1. drain'.attempt = 0
    <3>1. drain' = NoDrain \/ DrainTake
      BY <1>4 DEF DrainBroadcast, Restart, Crash, StartUp
    <3>2. NoDrain.attempt = 0
      BY DEF NoDrain
    <3>3. CASE DrainTake
      BY <3>3 DEF DrainTake, NoDrain
    <3>4. QED
      BY <3>1, <3>2, <3>3
  <2>2. QED
    BY <1>2, <2>1
<1>5. CASE DrainStat \/ DrainRemove \/ DrainUsed
  <2>1. drain'.attempt = drain.attempt
    BY <1>1, <1>5, DrainMove DEF DrainStat, DrainRemove, DrainUsed, Drain
  <2>2. QED
    BY <1>1, <1>2, <2>1
<1>6. CASE UNCHANGED drain
  BY <1>1, <1>2, <1>6
<1>7. \/ DrainWrite \/ DrainTake \/ DrainBroadcast \/ Restart \/ Crash
      \/ DrainStat \/ DrainRemove \/ DrainUsed \/ UNCHANGED drain
  BY DEF Next, Calls, ClientStep, DrainStep, RecoverStep, BeginWrite, Reserve,
     CreateFile, FillFile, Unreserve, Send, DeleteStat, DeleteFile, DeleteUsed,
     DeleteInner, ReadMiss, ReadInner, RecoverFile, RecoverSend, RecoverDone, Close,
     DrainExit, vars
<1>8. QED
  BY <1>3, <1>4, <1>5, <1>6, <1>7

\* A step that leaves the item and the file of c where they are.
LEMMA SingleKept ==
    ASSUME NEW c, Single(c), UNCHANGED <<queue, left, rec>>, files'[c] = files[c],
           InDrain(c, {"write", "stat", "remove"})' => InDrain(c, {"write", "stat", "remove"}),
           At(c, {"delUsed", "delInner"})' => files[c] = "none"
    PROVE  Single(c)'
BY PendingIn DEF Single

LEMMA SingleStep ==
    ASSUME CacheInv, [Next]_vars, NEW c \in Chunk \ exposed'
    PROVE  Single(c)'
<1> SUFFICES ASSUME Single(c) PROVE Single(c)'
  BY ExposedGrows DEF CacheInv
<1>0. /\ files \in [Chunk -> Content] /\ queue \in Seq(Item)
      /\ drain \in Drain /\ client \in Call
      /\ client.pc # "idle" => client.id \in Chunk /\ phase = "up"
      /\ drain.pc # "idle" => drain.id \in Chunk /\ phase \in {"up", "closing"}
      /\ rec # NoChunk => phase = "recovering" /\ files[rec] # "none" /\ rec \in Chunk
      /\ left # {} => phase = "recovering"
  BY DEF CacheInv, Shape, TypeOK
<1>1. NothingShort(c) /\ CallAlone(c)
  BY ExposedGrows DEF CacheInv, Safe
<1>2. c # NoChunk
  BY CacheAssumption
<1>3. ASSUME \/ \E b \in Chunk : BeginWrite(b) \/ ReadMiss(b)
             \/ Reserve \/ Unreserve \/ DeleteInner \/ ReadInner
      PROVE  Single(c)'
  <2>1. UNCHANGED <<queue, drain, left, rec, files>>
    BY <1>3 DEF BeginWrite, ReadMiss, Reserve, Unreserve, DeleteInner, ReadInner
  <2>2. client'.pc \notin {"delUsed", "delInner"}
    BY <1>0, <1>3, CallGoto
       DEF BeginWrite, ReadMiss, Reserve, Unreserve, DeleteInner, ReadInner, NoCall
  <2>3. QED
    BY <2>1, <2>2, SingleKept DEF InDrain, At
<1>4. ASSUME NEW b \in Chunk, DeleteStat(b)
      PROVE  Single(c)'
  <2>1. /\ UNCHANGED <<queue, drain, left, rec, files>>
        /\ client'.id = b /\ client'.pc \in {"delInner", "delFile"}
        /\ client'.pc = "delInner" => files[b] = "none"
    BY <1>4 DEF DeleteStat
  <2>2. QED
    BY <2>1, SingleKept DEF InDrain, At
\* The caller at the file of its own chunk, which has no item.
<1>5. CASE CreateFile \/ FillFile \/ DeleteFile
  <2>1. /\ client.pc \in {"create", "fill", "delFile"} /\ client'.id = client.id
        /\ client'.pc \in {"fill", "send", "unreserve", "delUsed"}
        /\ client'.pc = "delUsed" => files' = [files EXCEPT ![client.id] = "none"]
        /\ UNCHANGED <<queue, drain, left, rec>>
    BY <1>0, <1>5, CallGoto DEF CreateFile, FillFile, DeleteFile, AtClient
  <2>2. client.id # c => files'[c] = files[c]
    BY <1>0, <1>5 DEF CreateFile, FillFile, DeleteFile
  <2>3. CASE client.id = c
    <3>1. ~Pending(c) /\ ~Pending(c)'
      BY <1>1, <2>1, <2>3, PendingSame DEF CallAlone, At, Writing, Deleting
    <3>2. client'.pc = "delUsed" => files'[c] = "none"
      BY <1>0, <2>1, <2>3
    <3>3. QED
      BY <2>1, <3>1, <3>2 DEF Single, InDrain, At
  <2>4. CASE client.id # c
    BY <2>1, <2>2, <2>4, SingleKept DEF InDrain, At
  <2>5. QED
    BY <2>3, <2>4
<1>6. CASE Send
  <2>1. [id |-> client.id, data |-> "whole"] \in Item
    BY <1>0, <1>6 DEF Send, AtClient, Item, Content
  <2>2. /\ client.pc = "send" /\ client'.pc = "idle"
        /\ queue' = Append(queue, [id |-> client.id, data |-> "whole"])
        /\ UNCHANGED <<files, drain, left, rec>> /\ left = {} /\ rec = NoChunk
    BY <1>0, <1>6 DEF Send, AtClient, NoCall
  <2>3. client.id = c => files[c] = "whole" /\ ~Pending(c)
    BY <1>1, <2>2 DEF CallAlone, At, Writing
  <2>4. In(queue', c) <=> In(queue, c) \/ client.id = c
    BY <1>0, <2>1, <2>2, InAppend
  <2>5. OneIn(queue', c)
    BY <1>0, <2>1, <2>2, <2>3, OneAppend, PendingIn DEF Single
  <2>6. Pending(c)' <=> Pending(c) \/ client.id = c
    BY <2>2, <2>4, PendingIn DEF InDrain
  <2>7. QED
    BY <1>2, <2>2, <2>3, <2>4, <2>5, <2>6, PendingIn DEF Single, InDrain, At
<1>7. CASE DeleteUsed
  <2>1. /\ client.pc = "delUsed" /\ client'.pc = "delInner" /\ client'.id = client.id
        /\ UNCHANGED <<queue, drain, left, rec, files>>
    BY <1>0, <1>7, CallGoto DEF DeleteUsed, AtClient
  <2>2. QED
    BY <2>1, SingleKept DEF InDrain, At, Single
<1>8. CASE DrainTake
  <2>1. /\ drain.pc = "idle" /\ drain'.pc = "write" /\ drain'.id = Head(queue).id
        /\ queue # <<>> /\ queue' = Tail(queue)
        /\ UNCHANGED <<files, client, left, rec>>
    BY <1>8 DEF DrainTake, NoDrain
  <2>2. Pending(c)' <=> Pending(c)
    BY <1>0, <2>1, InTake, PendingIn DEF InDrain
  <2>3. OneIn(queue', c) /\ (Head(queue).id = c => ~In(queue', c))
    BY <1>0, <2>1, OneTake DEF Single
  <2>4. QED
    BY <2>1, <2>2, <2>3 DEF Single, InDrain, At
<1>9. CASE DrainWrite
  <2>1. drain.pc = "write" /\ UNCHANGED <<files, queue, client, left, rec>>
    BY <1>9 DEF DrainWrite
  <2>2. drain'.pc = "idle" \/ drain'.id = drain.id
    <3>1. \/ DrainGoto("stat")
          \/ drain.attempt + 1 < 3 /\ drain' = [drain EXCEPT !.attempt = @ + 1]
          \/ drain' = NoDrain
      BY <1>9 DEF DrainWrite
    <3>2. QED
      BY <1>0, <3>1, DrainMove, DrainRetry DEF NoDrain
  <2>3. QED
    BY <2>1, <2>2, SingleKept DEF InDrain, At, Single
<1>10. CASE DrainStat \/ DrainUsed \/ DrainBroadcast
  <2>1. /\ UNCHANGED <<files, queue, left, rec>> /\ client'.id = client.id
        /\ client'.pc \in {"delUsed", "delInner"} => client'.pc = client.pc
    BY <1>0, <1>10, Wake DEF DrainStat, DrainUsed, DrainBroadcast
  <2>2. \/ drain.pc = "stat" /\ drain'.id = drain.id
        \/ drain'.pc \in {"broadcast", "idle"}
    <3>1. CASE DrainStat
      BY <1>0, <3>1 DEF DrainStat, Drain
    <3>2. CASE DrainUsed
      BY <1>0, <3>2, DrainMove DEF DrainUsed
    <3>3. CASE DrainBroadcast
      BY <3>3 DEF DrainBroadcast, NoDrain
    <3>4. QED
      BY <1>10, <3>1, <3>2, <3>3
  <2>3. QED
    BY <2>1, <2>2, SingleKept DEF InDrain, At, Single
<1>11. CASE DrainRemove
  <2>1. /\ drain.pc = "remove" /\ drain'.pc = "used" /\ drain'.id = drain.id
        /\ files' = [files EXCEPT ![drain.id] = "none"]
        /\ UNCHANGED <<queue, client, left, rec>>
    BY <1>0, <1>11, DrainMove DEF DrainRemove
  <2>2. CASE drain.id = c
    <3>1. ~In(queue, c) /\ files'[c] = "none"
      BY <1>0, <2>1, <2>2 DEF Single, InDrain
    <3>2. ~Pending(c)'
      BY <2>1, <3>1, PendingIn DEF InDrain
    <3>3. QED
      BY <2>1, <3>1, <3>2 DEF Single, InDrain, At
  <2>3. CASE drain.id # c
    BY <1>0, <2>1, <2>3, SingleKept DEF InDrain, At, Single
  <2>4. QED
    BY <2>2, <2>3
<1>12. CASE RecoverFile
  <2>1. PICK b \in left : left' = left \ {b} /\ rec' \in {b, rec}
    BY <1>12 DEF RecoverFile
  <2>2. rec = NoChunk /\ UNCHANGED <<files, queue, drain, client>>
    BY <1>12 DEF RecoverFile
  <2>3. Pending(c)' <=> Pending(c)
    BY <2>2, PendingSame
  <2>4. QED
    BY <1>2, <2>1, <2>2, <2>3 DEF Single, InDrain, At
<1>13. CASE RecoverSend
  <2>1. [id |-> rec, data |-> files[rec]] \in Item
    BY <1>0, <1>13 DEF RecoverSend, Item
  <2>2. /\ queue' = Append(queue, [id |-> rec, data |-> files[rec]]) /\ rec' = NoChunk
        /\ UNCHANGED <<files, drain, client, left>> /\ rec \in Chunk
        /\ client.pc = "idle" /\ drain.pc = "idle"
    BY <1>0, <1>13 DEF RecoverSend
  <2>3. rec = c => files[c] = "whole" /\ ~Pending(c) /\ c \notin left
    BY <1>0, <1>1, <1>2, <2>2 DEF NothingShort, Single, At, Content
  <2>4. In(queue', c) <=> In(queue, c) \/ rec = c
    BY <1>0, <2>1, <2>2, InAppend
  <2>5. OneIn(queue', c)
    BY <1>0, <2>1, <2>2, <2>3, OneAppend, PendingIn DEF Single
  <2>6. Pending(c)' <=> Pending(c) \/ rec = c
    BY <2>2, <2>4, PendingIn DEF InDrain
  <2>7. QED
    BY <1>2, <2>2, <2>3, <2>4, <2>5, <2>6 DEF Single, InDrain, At
<1>14. CASE RecoverDone \/ Close \/ DrainExit \/ UNCHANGED vars
  <2>1. UNCHANGED <<files, queue, drain, client, left, rec>>
    BY <1>14 DEF RecoverDone, Close, DrainExit, vars
  <2>2. QED
    BY <2>1, SingleKept DEF InDrain, At, Single
<1>15. CASE Restart \/ Crash
  <2>1. /\ queue' = <<>> /\ drain'.pc = "idle" /\ client'.pc = "idle" /\ rec' = NoChunk
    BY <1>15 DEF Restart, Crash, StartUp, NoDrain, NoCall
  <2>2. ~Pending(c)'
    BY <2>1, NothingIn, PendingIn DEF InDrain
  <2>3. OneIn(queue', c)
    BY <2>1 DEF OneIn
  <2>4. QED
    BY <1>2, <2>1, <2>2, <2>3 DEF Single, InDrain, At
<1>16. QED
  BY <1>3, <1>4, <1>5, <1>6, <1>7, <1>8, <1>9, <1>10, <1>11, <1>12, <1>13, <1>14, <1>15
     DEF Next, Calls, ClientStep, DrainStep, RecoverStep

LEMMA CacheInvInit == Init => CacheInv
<1> SUFFICES ASSUME Init PROVE CacheInv
  OBVIOUS
<1>1. /\ queue = <<>> /\ drain = NoDrain /\ client = NoCall /\ accepted = {} /\ faults = 0
      /\ files = [c \in Chunk |-> "none"] /\ inner = [c \in Chunk |-> "none"]
  BY DEF Init
<1>2. /\ drain.pc = "idle" /\ client.pc = "idle" /\ drain.attempt = 0
      /\ left = {} /\ rec = NoChunk
  BY <1>1 DEF Init, NoDrain, NoCall
<1>3. ASSUME NEW c \in Chunk PROVE Safe(c)
  BY <1>1, <1>2, NothingIn
     DEF Safe, NothingShort, CallAlone, CopyKept, OnItsWay, At, InDrain, Writing, Deleting
<1>4. ASSUME NEW c \in Chunk PROVE Single(c)
  BY <1>1, <1>2, NothingIn, PendingIn, CacheAssumption DEF Single, OneIn, InDrain, At
<1>5. QED
  BY <1>1, <1>2, <1>3, <1>4, ShapeInit DEF CacheInv

LEMMA CacheInvariance == Spec => []CacheInv
<1>1. CacheInv /\ [Next]_vars => CacheInv'
  BY ShapeStep, AttemptsStep, SafeStep, SingleStep DEF CacheInv
<1>2. QED
  BY <1>1, CacheInvInit, PTL DEF Spec

\* A chunk whose Write returned can be read back at every step of its drain, through
\* failures, crashes and restarts, unless it was exposed.
THEOREM ReadableCorrect == Spec => []ReadableUnlessExposed
<1>1. CacheInv => ReadableUnlessExposed
  <2> SUFFICES ASSUME CacheInv, NEW c \in accepted \ exposed
               PROVE  /\ ReadBack(c) = "whole" \/ (client.pc = "fill" /\ client.id = c)
                      /\ client.pc = "readInner" /\ client.id = c => inner[c] = "whole"
    BY DEF ReadableUnlessExposed
  <2>1. c \in Chunk /\ Safe(c)
    BY DEF CacheInv, Shape, TypeOK
  <2>2. QED
    BY <2>1 DEF Safe, CopyKept, At, ReadBack
<1>2. QED
  BY <1>1, CacheInvariance, PTL

\* When Close has returned, the inner backend has every chunk that was accepted and not
\* exposed, as long as there were less than three failures: no drain has given up.
THEOREM DrainCorrect == Spec => []CloseDrains
<1>1. CacheInv => CloseDrains
  <2> SUFFICES ASSUME CacheInv, faults < 3, phase = "down", NEW c \in accepted \ exposed
               PROVE  inner[c] = "whole"
    BY DEF CloseDrains
  <2>1. c \in Chunk /\ Safe(c)
    BY DEF CacheInv, Shape, TypeOK
  <2>2. queue = <<>> /\ drain.pc = "idle"
    BY DEF CacheInv, Shape
  <2>3. ~Pending(c)
    BY <2>2, NothingIn, PendingIn DEF InDrain
  <2>4. QED
    BY <2>1, <2>3 DEF Safe, OnItsWay
<1>2. QED
  BY <1>1, CacheInvariance, PTL

-----------------------------------------------------------------------------
\* Sums of sizes.

Bytes(S) == {b \in S \X (1..MaxBytes) : b[2] <= Size[b[1]]}

LEMMA BytesFinite ==
    ASSUME NEW S \in SUBSET Chunk
    PROVE  IsFiniteSet(Bytes(S)) /\ TotalSize(S) = Cardinality(Bytes(S))
           /\ TotalSize(S) \in Nat
<1>1. IsFiniteSet(S) /\ IsFiniteSet(1..MaxBytes)
  BY FS_Subset, FS_Interval, CacheAssumption
<1>2. IsFiniteSet(S \X (1..MaxBytes))
  BY <1>1, FS_Product
<1>3. Bytes(S) \in SUBSET (S \X (1..MaxBytes))
  BY DEF Bytes
<1>4. IsFiniteSet(Bytes(S))
  BY <1>2, <1>3, FS_Subset
<1>5. TotalSize(S) = Cardinality(Bytes(S))
  BY DEF TotalSize, Bytes
<1>6. QED
  BY <1>4, <1>5, FS_CardinalityType

\* Nothing has no bytes.
LEMMA TotalNone == TotalSize({}) = 0
<1>1. Bytes({}) = {}
  BY DEF Bytes
<1>2. QED
  BY <1>1, BytesFinite, FS_EmptySet

\* One more chunk adds its bytes.
LEMMA TotalAdd ==
    ASSUME NEW S \in SUBSET Chunk, NEW c \in Chunk, c \notin S
    PROVE  TotalSize(S \cup {c}) = TotalSize(S) + Size[c]
<1>1. Size[c] \in 1..MaxBytes /\ MaxBytes \in Nat
  BY CacheAssumption
<1> DEFINE C == {c} \X (1..Size[c])
<1>2. IsFiniteSet(C) /\ Cardinality(C) = Size[c]
  <2>1. IsFiniteSet({c}) /\ Cardinality({c}) = 1
    BY FS_Singleton
  <2>2. IsFiniteSet(1..Size[c]) /\ Cardinality(1..Size[c]) = Size[c]
    <3>1. Size[c] \in Int /\ 1 \in Int /\ ~(1 > Size[c]) /\ Size[c] - 1 + 1 = Size[c]
      BY <1>1
    <3>2. QED
      BY <3>1, FS_Interval
  <2>3. IsFiniteSet(C) /\ Cardinality(C) = 1 * Size[c]
    BY <2>1, <2>2, FS_Product
  <2>4. QED
    BY <1>1, <2>3
<1>3. Bytes(S \cup {c}) = Bytes(S) \cup C
  <2>1. ASSUME NEW d \in S \cup {c}, NEW n \in 1..MaxBytes
        PROVE  n <= Size[d] <=> (d \in S /\ n <= Size[d]) \/ (d = c /\ n \in 1..Size[c])
    BY <1>1
  <2>2. ASSUME NEW d, NEW n
        PROVE  <<d, n>> \in Bytes(S \cup {c}) <=> <<d, n>> \in Bytes(S) \cup C
    BY <1>1, <2>1 DEF Bytes
  <2>3. \A b \in Bytes(S \cup {c}) \cup Bytes(S) \cup C : b = <<b[1], b[2]>>
    BY DEF Bytes
  <2>4. ASSUME NEW b
        PROVE  b \in Bytes(S \cup {c}) <=> b \in Bytes(S) \cup C
    <3> HIDE DEF C
    <3>1. CASE b = <<b[1], b[2]>>
      BY <2>2, <3>1
    <3>2. CASE b # <<b[1], b[2]>>
      BY <2>3, <3>2
    <3>3. QED
      BY <3>1, <3>2
  <2>5. QED
    BY <2>4
<1>4. Bytes(S) \cap C = {}
  BY DEF Bytes
<1>5. IsFiniteSet(Bytes(S)) /\ TotalSize(S) = Cardinality(Bytes(S)) /\ TotalSize(S) \in Nat
  BY BytesFinite
<1>6. TotalSize(S \cup {c}) = Cardinality(Bytes(S \cup {c}))
  BY BytesFinite
<1> HIDE DEF C
<1>7. Cardinality(Bytes(S) \cup C) = Cardinality(Bytes(S)) + Cardinality(C) - 0
  BY <1>2, <1>4, <1>5, FS_Union, FS_EmptySet
<1>8. TotalSize(S \cup {c}) = TotalSize(S) + Size[c] - 0
  BY <1>2, <1>3, <1>5, <1>6, <1>7
<1>9. QED
  BY <1>1, <1>5, <1>8

LEMMA TotalRemove ==
    ASSUME NEW S \in SUBSET Chunk, NEW c \in S
    PROVE  TotalSize(S \ {c}) = TotalSize(S) - Size[c]
<1>1. (S \ {c}) \cup {c} = S /\ c \in Chunk /\ S \ {c} \in SUBSET Chunk
  OBVIOUS
<1>2. TotalSize(S) = TotalSize(S \ {c}) + Size[c]
  BY <1>1, TotalAdd
<1>3. TotalSize(S \ {c}) \in Int /\ Size[c] \in Int
  BY <1>1, BytesFinite, CacheAssumption
<1>4. QED
  BY <1>2, <1>3

LEMMA TotalMonotone ==
    ASSUME NEW T \in SUBSET Chunk, NEW S \in SUBSET T
    PROVE  TotalSize(S) <= TotalSize(T)
<1>1. Bytes(S) \in SUBSET Bytes(T)
  BY DEF Bytes
<1>2. QED
  BY <1>1, BytesFinite, FS_Subset

-----------------------------------------------------------------------------
\* The accounts, while no chunk was exposed.

\* What the caller and the drain hold is the size of the chunk they are at.
SizesRead ==
    /\ client.pc \in Writing => client.size = Size[client.id]
    /\ client.pc = "delFile" => client.size \in FileSize(client.id)
    /\ drain.pc = "remove" => drain.size \in FileSize(drain.id)

\* The whole files that usedBytes counts: recovery comes to those of left later.
Counted == Whole \ left

CallFloats == IF client.pc \in {"create", "fill", "unreserve", "delUsed"} THEN client.size ELSE 0
DrainFloats == IF drain.pc = "used" THEN drain.size ELSE 0

Accounts ==
    /\ SizesRead
    /\ used = TotalSize(Counted) + CallFloats + DrainFloats
    /\ used <= MaxBytes
    /\ TotalSize(Whole) <= MaxBytes

AccountsInv == CacheInv /\ (exposed = {} => Accounts)

LEMMA WholeSets ==
    ASSUME Shape
    PROVE  /\ Whole \in SUBSET Chunk /\ Counted \in SUBSET Whole
           /\ Counted \in SUBSET Chunk
           /\ phase # "recovering" => Counted = Whole
           /\ TotalSize(Whole) \in Nat /\ TotalSize(Counted) \in Nat
<1>1. Whole \in SUBSET Chunk /\ Counted \in SUBSET Whole /\ Counted \in SUBSET Chunk
  BY DEF Whole, Counted
<1>2. phase # "recovering" => Counted = Whole
  BY DEF Shape, Counted
<1>3. QED
  BY <1>1, <1>2, BytesFinite

\* A removed file takes its bytes from the directory.
LEMMA WholeRemoved ==
    ASSUME Shape, NEW c \in Chunk, files[c] # "short", files' = [files EXCEPT ![c] = "none"],
           NEW n \in FileSize(c)
    PROVE  Whole' = Whole \ {c} /\ TotalSize(Whole') = TotalSize(Whole) - n
<1>1. Whole' = Whole \ {c}
  BY DEF Shape, TypeOK, Whole
<1>2. CASE c \in Whole
  <2>1. n = Size[c]
    BY <1>2 DEF FileSize, Whole
  <2>2. QED
    BY <1>1, <1>2, <2>1, WholeSets, TotalRemove
<1>3. CASE c \notin Whole
  <2>1. files[c] = "none"
    BY <1>3 DEF Whole, Shape, TypeOK, Content
  <2>2. Whole' = Whole
    BY <1>1, <1>3
  <2>3. n = 0
    BY <2>1 DEF FileSize
  <2>4. TotalSize(Whole') = TotalSize(Whole)
    BY <2>2
  <2>5. TotalSize(Whole) \in Nat
    BY WholeSets
  <2>6. QED
    BY <1>1, <2>3, <2>4, <2>5
<1>4. QED
  BY <1>2, <1>3

\* A step that leaves the directory alone and moves no bytes.
LEMMA AccountsKept ==
    ASSUME Accounts, SizesRead', UNCHANGED <<files, left, used>>,
           CallFloats' = CallFloats, DrainFloats' = DrainFloats
    PROVE  Accounts'
<1>1. Counted' = Counted /\ Whole' = Whole
  BY DEF Counted, Whole
<1>2. QED
  BY <1>1 DEF Accounts

\* A process that starts has counted nothing.
LEMMA AccountsStartUp ==
    ASSUME Shape, StartUp, Accounts
    PROVE  Accounts'
<1>1. Whole' = Whole /\ left' = Cached /\ Whole \ Cached = {} /\ used' = 0
  BY DEF StartUp, Whole, Cached
<1>2. client'.pc = "idle" /\ drain'.pc = "idle"
  BY DEF StartUp, NoCall, NoDrain
<1>3. SizesRead' /\ CallFloats' = 0 /\ DrainFloats' = 0
  BY <1>2 DEF SizesRead, CallFloats, DrainFloats, Writing
<1>4. Counted' = {}
  BY <1>1 DEF Counted
<1>5. QED
  BY <1>1, <1>3, <1>4, TotalNone, CacheAssumption DEF Accounts

LEMMA AccountsStep ==
    ASSUME CacheInv, exposed = {} => Accounts, [Next]_vars, exposed' = {}
    PROVE  Accounts'
<1>0. /\ files \in [Chunk -> Content] /\ used \in Int
      /\ drain \in Drain /\ client \in Call /\ queue \in Seq(Item)
      /\ client.pc # "idle" => client.id \in Chunk /\ phase = "up"
      /\ drain.pc # "idle" => drain.id \in Chunk /\ phase \in {"up", "closing"}
      /\ left # {} => phase = "recovering"
      /\ client.size \in Nat /\ drain.size \in Nat /\ left \subseteq Chunk
  BY Sizes DEF CacheInv, Shape, TypeOK
<1>1. exposed = {}
  BY ExposedGrows
<1>2. /\ Accounts /\ SizesRead
      /\ used = TotalSize(Counted) + CallFloats + DrainFloats
      /\ used <= MaxBytes /\ TotalSize(Whole) <= MaxBytes /\ MaxBytes \in Nat
      /\ CallFloats \in Nat /\ DrainFloats \in Nat
      /\ used \in Int /\ client.size \in Nat /\ drain.size \in Nat
  BY <1>0, <1>1, CacheAssumption DEF Accounts, CallFloats, DrainFloats
<1>3. Shape /\ \A c \in Chunk : Safe(c) /\ Single(c)
  BY <1>1 DEF CacheInv
<1>4. /\ Whole \in SUBSET Chunk /\ Counted \in SUBSET Whole
      /\ phase # "recovering" => Counted = Whole
      /\ TotalSize(Whole) \in Nat /\ TotalSize(Counted) \in Nat
  BY <1>3, WholeSets
\* A call and the drain are not at the same chunk.
<1>5. drain.id # client.id \/ client.pc \notin Writing \cup Deleting
      \/ drain.pc \notin {"write", "stat", "remove"}
  <2> SUFFICES ASSUME drain.id = client.id, client.pc \in Writing \cup Deleting
               PROVE  drain.pc \notin {"write", "stat", "remove"}
    OBVIOUS
  <2>1. client.id \in Chunk
    BY <1>0 DEF Writing, Deleting
  <2>2. ~Pending(client.id)
    BY <1>3, <2>1 DEF Safe, CallAlone, At
  <2>3. QED
    BY <2>2 DEF Pending
<1>6. ASSUME NEW c \in Chunk, BeginWrite(c)
      PROVE  Accounts'
  BY <1>2, <1>6, AccountsKept
     DEF BeginWrite, AtClient, SizesRead, FileSize, CallFloats, DrainFloats, Writing
<1>7. CASE Reserve
  <2>1. /\ client'.id = client.id /\ client'.size = client.size
        /\ client.pc = "reserve" /\ client'.pc \in {"asleep", "create"}
    BY <1>0, <1>7, CallGoto DEF Reserve, AtClient
  <2>2. SizesRead' /\ Whole' = Whole /\ Counted' = Counted
    BY <1>2, <1>7, <2>1 DEF Reserve, SizesRead, FileSize, Writing, Whole, Counted
  <2>3. DrainFloats' = DrainFloats /\ CallFloats = 0
    BY <1>7, <2>1 DEF Reserve, DrainFloats, CallFloats
  <2>4. used' - used = CallFloats' - CallFloats /\ used' <= MaxBytes
    BY <1>0, <1>2, <1>7, <2>1, <2>3, CallGoto DEF Reserve, CallFloats
  <2>5. CallFloats' \in Nat /\ used' \in Int
    BY <1>0, <1>2, <1>7, <2>1 DEF Reserve, CallFloats
  <2>6. used' = TotalSize(Counted') + CallFloats' + DrainFloats'
    BY <1>2, <1>4, <2>2, <2>3, <2>4, <2>5
  <2>7. QED
    BY <1>2, <2>2, <2>4, <2>6 DEF Accounts
<1>8. CASE CreateFile
  <2>1. /\ client'.id = client.id /\ client'.size = client.size
        /\ client.pc = "create" /\ client'.pc \in {"fill", "unreserve"}
        /\ drain' = drain /\ client.id \in Chunk /\ left' = left /\ used' = used
    BY <1>0, <1>8, CallGoto DEF CreateFile, AtClient
  <2>2. files[client.id] = "none"
    BY <1>3, <2>1 DEF Safe, CallAlone, At
  <2>3. Whole' = Whole
    BY <1>0, <1>8, <2>2 DEF CreateFile, Whole
  <2>4. drain.pc = "remove" => drain.id # client.id
    BY <1>5, <2>1 DEF Writing
  <2>5. SizesRead'
    <3>1. drain.pc = "remove" => files'[drain.id] = files[drain.id]
      BY <1>0, <1>8, <2>4 DEF CreateFile
    <3>2. QED
      BY <1>2, <2>1, <3>1 DEF SizesRead, FileSize, Writing
  <2>6. CallFloats' = CallFloats /\ DrainFloats' = DrainFloats
    BY <2>1 DEF CallFloats, DrainFloats
  <2>7. QED
    BY <1>2, <2>1, <2>3, <2>5, <2>6 DEF Accounts, Counted
<1>9. CASE FillFile
  <2>1. /\ client'.id = client.id /\ client'.size = client.size /\ client.pc = "fill"
        /\ drain' = drain /\ client.id \in Chunk /\ left' = left /\ used' = used
        /\ files' = [files EXCEPT ![client.id] = IF @ = "none" THEN @ ELSE "whole"]
        /\ client'.pc = "send"
    BY <1>0, <1>9, CallGoto DEF FillFile, AtClient, Expose
  <2>2. files[client.id] = "short"
    BY <1>3, <2>1 DEF Safe, CallAlone, At
  <2>3. Whole' = Whole \cup {client.id} /\ client.id \notin Whole /\ left = {}
    BY <1>0, <2>1, <2>2 DEF Whole
  <2>4. TotalSize(Whole') = TotalSize(Whole) + client.size
    BY <1>2, <1>4, <2>1, <2>3, TotalAdd DEF SizesRead, Writing
  <2>5. CallFloats' = 0 /\ CallFloats = client.size /\ DrainFloats' = DrainFloats
    BY <2>1 DEF CallFloats, DrainFloats
  <2>6. Counted = Whole /\ Counted' = Whole'
    BY <2>1, <2>3 DEF Counted
  <2>7. drain.pc = "remove" => drain.id # client.id
    BY <1>5, <2>1 DEF Writing
  <2>8. SizesRead'
    BY <1>0, <1>2, <2>1, <2>7 DEF SizesRead, FileSize, Writing
  <2>9. used' = TotalSize(Counted') + CallFloats' + DrainFloats'
    BY <1>0, <1>2, <1>4, <2>1, <2>4, <2>5, <2>6
  <2>10. TotalSize(Whole') <= MaxBytes
    BY <1>0, <1>2, <1>4, <2>4, <2>5, <2>6
  <2>11. QED
    BY <1>2, <2>1, <2>8, <2>9, <2>10 DEF Accounts
<1>10. CASE Unreserve
  <2>1. /\ client.pc = "unreserve" /\ client'.pc = "idle" /\ used' = used - client.size
        /\ UNCHANGED <<files, left, drain>>
    BY <1>10 DEF Unreserve, AtClient, NoCall
  <2>2. CallFloats = client.size /\ CallFloats' = 0 /\ DrainFloats' = DrainFloats
    BY <2>1 DEF CallFloats, DrainFloats
  <2>3. SizesRead' /\ Whole' = Whole /\ Counted' = Counted
    BY <1>2, <2>1 DEF SizesRead, FileSize, Writing, Whole, Counted
  <2>4. used' = TotalSize(Counted') + CallFloats' + DrainFloats' /\ used' <= MaxBytes
    <3>1. used' <= MaxBytes
      BY <1>2, <2>1
    <3>2. TotalSize(Counted') = TotalSize(Counted)
      BY <2>3
    <3>3. QED
      BY <1>2, <1>4, <2>1, <2>2, <3>1, <3>2
  <2>5. QED
    BY <1>2, <2>3, <2>4 DEF Accounts
<1>11. CASE Send
  BY <1>2, <1>11, AccountsKept
     DEF Send, AtClient, NoCall, SizesRead, FileSize, CallFloats, DrainFloats, Writing
<1>12. ASSUME NEW c \in Chunk, DeleteStat(c)
       PROVE  Accounts'
  <2>1. /\ client'.size \in FileSize(c) /\ client'.id = c
        /\ client.pc = "idle" /\ client'.pc \in {"delInner", "delFile"}
        /\ UNCHANGED <<files, left, used, drain>>
    BY <1>12 DEF DeleteStat, AtClient
  <2>2. QED
    BY <1>2, <2>1, AccountsKept DEF SizesRead, FileSize, CallFloats, DrainFloats, Writing
<1>13. CASE DeleteFile
  <2>1. /\ client'.id = client.id /\ client'.size = client.size /\ client.pc = "delFile"
        /\ client'.pc = "delUsed" /\ client.id \in Chunk
        /\ files' = [files EXCEPT ![client.id] = "none"]
        /\ UNCHANGED <<left, drain, used>> /\ left = {}
    BY <1>0, <1>13, CallGoto DEF DeleteFile, AtClient
  <2>a. files[client.id] # "short"
    BY <1>3, <2>1 DEF Safe, NothingShort, At
  <2>2. TotalSize(Whole') = TotalSize(Whole) - client.size
    BY <1>2, <1>3, <2>1, <2>a, WholeRemoved DEF SizesRead
  <2>3. Counted = Whole /\ Counted' = Whole'
    BY <2>1 DEF Counted
  <2>4. CallFloats = 0 /\ CallFloats' = client.size /\ DrainFloats' = DrainFloats
    BY <2>1 DEF CallFloats, DrainFloats
  <2>5. drain.pc = "remove" => drain.id # client.id
    BY <1>5, <2>1 DEF Deleting
  <2>6. SizesRead'
    BY <1>0, <1>2, <2>1, <2>5 DEF SizesRead, FileSize, Writing
  <2>7. /\ used' = TotalSize(Counted') + CallFloats' + DrainFloats'
        /\ TotalSize(Whole') <= MaxBytes
    BY <1>0, <1>2, <1>4, <2>1, <2>2, <2>3, <2>4
  <2>8. QED
    BY <1>2, <2>1, <2>6, <2>7 DEF Accounts
<1>14. CASE DeleteUsed
  <2>1. /\ client.pc = "delUsed" /\ client'.pc = "delInner" /\ used' = used - client.size
        /\ UNCHANGED <<files, left, drain>>
    BY <1>0, <1>14, CallGoto DEF DeleteUsed, AtClient
  <2>2. CallFloats = client.size /\ CallFloats' = 0 /\ DrainFloats' = DrainFloats
    BY <2>1 DEF CallFloats, DrainFloats
  <2>3. SizesRead' /\ Whole' = Whole /\ Counted' = Counted
    BY <1>2, <2>1 DEF SizesRead, FileSize, Writing, Whole, Counted
  <2>4. used' = TotalSize(Counted') + CallFloats' + DrainFloats' /\ used' <= MaxBytes
    <3>1. used' <= MaxBytes
      BY <1>2, <2>1
    <3>2. TotalSize(Counted') = TotalSize(Counted)
      BY <2>3
    <3>3. QED
      BY <1>2, <1>4, <2>1, <2>2, <3>1, <3>2
  <2>5. QED
    BY <1>2, <2>3, <2>4 DEF Accounts
<1>15. CASE DeleteInner \/ ReadInner
  <2>1. /\ client.pc \in {"delInner", "readInner"} /\ client'.pc = "idle"
        /\ UNCHANGED <<files, left, used, drain>>
    BY <1>15 DEF DeleteInner, ReadInner, AtClient, NoCall
  <2>2. QED
    BY <1>2, <2>1, AccountsKept DEF SizesRead, FileSize, CallFloats, DrainFloats, Writing
<1>16. ASSUME NEW c \in Chunk, ReadMiss(c)
       PROVE  Accounts'
  BY <1>2, <1>16, AccountsKept
     DEF ReadMiss, AtClient, SizesRead, FileSize, CallFloats, DrainFloats, Writing
<1>17. CASE DrainTake \/ DrainWrite
  <2>1. /\ drain.pc \in {"idle", "write"} /\ drain'.pc \in {"idle", "write", "stat"}
        /\ UNCHANGED <<files, left, used, client>>
    <3>1. CASE DrainTake
      BY <3>1 DEF DrainTake, NoDrain
    <3>2. CASE DrainWrite
      <4>1. drain' = NoDrain \/ DrainGoto("stat") \/ drain' = [drain EXCEPT !.attempt = @ + 1]
        BY <3>2 DEF DrainWrite
      <4>2. QED
        BY <1>0, <3>2, <4>1, DrainMove DEF DrainWrite, NoDrain, Drain
    <3>3. QED
      BY <1>17, <3>1, <3>2
  <2>2. QED
    BY <1>2, <2>1, AccountsKept DEF SizesRead, FileSize, CallFloats, DrainFloats
<1>18. CASE DrainStat
  <2>1. /\ drain.pc = "stat" /\ drain'.pc = "remove" /\ drain'.id = drain.id
        /\ drain'.size \in FileSize(drain.id) /\ UNCHANGED <<files, left, used, client>>
    BY <1>0, <1>18 DEF DrainStat, Drain
  <2>2. QED
    BY <1>2, <2>1, AccountsKept DEF SizesRead, FileSize, CallFloats, DrainFloats
<1>19. CASE DrainRemove
  <2>1. /\ drain'.id = drain.id /\ drain'.size = drain.size /\ drain.pc = "remove"
        /\ drain'.pc = "used" /\ drain.id \in Chunk
        /\ files' = [files EXCEPT ![drain.id] = "none"]
        /\ UNCHANGED <<left, client, used>> /\ left = {}
    BY <1>0, <1>19, DrainMove DEF DrainRemove
  <2>a. files[drain.id] # "short"
    BY <1>3, <2>1, PendingIn DEF Single, InDrain
  <2>2. TotalSize(Whole') = TotalSize(Whole) - drain.size
    BY <1>2, <1>3, <2>1, <2>a, WholeRemoved DEF SizesRead
  <2>3. Counted = Whole /\ Counted' = Whole'
    BY <2>1 DEF Counted
  <2>4. DrainFloats = 0 /\ DrainFloats' = drain.size /\ CallFloats' = CallFloats
    BY <2>1 DEF CallFloats, DrainFloats
  <2>5. client.pc = "delFile" => drain.id # client.id /\ client.id \in Chunk
    BY <1>0, <1>5, <2>1 DEF Deleting
  <2>6. SizesRead'
    BY <1>0, <1>2, <2>1, <2>5 DEF SizesRead, FileSize, Writing
  <2>7. /\ used' = TotalSize(Counted') + CallFloats' + DrainFloats'
        /\ TotalSize(Whole') <= MaxBytes
    BY <1>0, <1>2, <1>4, <2>1, <2>2, <2>3, <2>4
  <2>8. QED
    BY <1>2, <2>1, <2>6, <2>7 DEF Accounts
<1>20. CASE DrainUsed
  <2>1. /\ drain.pc = "used" /\ drain'.pc = "broadcast" /\ used' = used - drain.size
        /\ UNCHANGED <<files, left, client>>
    BY <1>0, <1>20, DrainMove DEF DrainUsed
  <2>2. DrainFloats = drain.size /\ DrainFloats' = 0 /\ CallFloats' = CallFloats
    BY <2>1 DEF CallFloats, DrainFloats
  <2>3. SizesRead' /\ Whole' = Whole /\ Counted' = Counted
    BY <1>2, <2>1 DEF SizesRead, FileSize, Writing, Whole, Counted
  <2>4. used' = TotalSize(Counted') + CallFloats' + DrainFloats' /\ used' <= MaxBytes
    <3>1. used' <= MaxBytes
      BY <1>2, <2>1
    <3>2. TotalSize(Counted') = TotalSize(Counted)
      BY <2>3
    <3>3. QED
      BY <1>2, <1>4, <2>1, <2>2, <3>1, <3>2
  <2>5. QED
    BY <1>2, <2>3, <2>4 DEF Accounts
<1>21. CASE DrainBroadcast
  <2>1. /\ client'.id = client.id /\ client'.size = client.size
        /\ client'.pc = IF client.pc = "asleep" THEN "reserve" ELSE client.pc
        /\ drain.pc = "broadcast" /\ drain'.pc = "idle" /\ UNCHANGED <<files, left, used>>
    BY <1>0, <1>21, Wake DEF DrainBroadcast, NoDrain
  <2>2. QED
    BY <1>2, <2>1, AccountsKept DEF SizesRead, FileSize, CallFloats, DrainFloats, Writing
<1>22. CASE RecoverFile
  <2>1. PICK c \in left : left' = left \ {c} /\ \E n \in FileSize(c) : used' = used + n
    BY <1>22 DEF RecoverFile, Expose
  <2>a. PICK n \in FileSize(c) : used' = used + n
    BY <2>1
  <2>b. files[c] # "short" /\ files[c] \in Content /\ n \in Int
    <3>1. c \in Chunk /\ client.pc = "idle"
      BY <1>0, <1>22 DEF RecoverFile
    <3>2. QED
      BY <1>0, <1>3, <3>1, <2>a, FileSizes DEF Safe, NothingShort, At, Shape
  <2>2. /\ UNCHANGED <<files, client, drain>> /\ c \in Chunk
    BY <1>0, <1>22 DEF RecoverFile
  <2>3. /\ SizesRead' /\ Whole' = Whole
        /\ CallFloats' = CallFloats /\ DrainFloats' = DrainFloats
    BY <1>2, <2>2 DEF SizesRead, FileSize, Whole, CallFloats, DrainFloats
  <2>4. TotalSize(Counted') = TotalSize(Counted) + n
    <3>1. CASE c \in Whole
      <4>1. Counted' = Counted \cup {c} /\ c \notin Counted /\ n = Size[c]
        BY <2>1, <2>a, <2>3, <3>1 DEF Counted, Whole, FileSize
      <4>2. QED
        BY <1>4, <2>2, <4>1, TotalAdd
    <3>2. CASE c \notin Whole
      <4>1. Counted' = Counted /\ n = 0
        BY <2>1, <2>a, <2>b, <2>2, <2>3, <3>2 DEF Counted, Whole, FileSize, Content
      <4>2. QED
        BY <1>4, <4>1
    <3>3. QED
      BY <3>1, <3>2
  <2>5. CallFloats = 0 /\ DrainFloats = 0
    BY <1>0, <1>22 DEF RecoverFile, CallFloats, DrainFloats
  <2>6. TotalSize(Counted') <= TotalSize(Whole) /\ n \in Int
    <3>1. Counted' \in SUBSET Whole
      BY <2>3 DEF Counted
    <3>2. QED
      BY <1>3, <1>4, <2>b, <3>1, TotalMonotone
  <2>7. used' = TotalSize(Counted') + CallFloats' + DrainFloats' /\ used' <= MaxBytes
    BY <1>0, <1>2, <1>4, <2>a, <2>3, <2>4, <2>5, <2>6
  <2>8. QED
    BY <1>2, <2>3, <2>7 DEF Accounts
<1>23. CASE RecoverSend \/ RecoverDone \/ Close \/ DrainExit \/ UNCHANGED vars
  <2>1. UNCHANGED <<files, left, used, client, drain>>
    BY <1>23 DEF RecoverSend, RecoverDone, Close, DrainExit, vars
  <2>2. QED
    BY <1>2, <2>1, AccountsKept DEF SizesRead, FileSize, CallFloats, DrainFloats
<1>24. CASE Restart \/ Crash
  BY <1>2, <1>3, <1>24, AccountsStartUp DEF Restart, Crash
<1>25. QED
  BY <1>6, <1>7, <1>8, <1>9, <1>10, <1>11, <1>12, <1>13, <1>14, <1>15, <1>16, <1>17, <1>18,
     <1>19, <1>20, <1>21, <1>22, <1>23, <1>24
     DEF Next, Calls, ClientStep, DrainStep, RecoverStep

LEMMA AccountsInvariance == Spec => []AccountsInv
<1>1. Init => AccountsInv
  <2> SUFFICES ASSUME Init PROVE AccountsInv
    OBVIOUS
  <2>1. /\ files = [c \in Chunk |-> "none"] /\ used = 0 /\ client.pc = "idle"
        /\ drain.pc = "idle"
    BY DEF Init, NoCall, NoDrain
  <2>2. Whole = {} /\ Counted = {} /\ CallFloats = 0 /\ DrainFloats = 0
    BY <2>1 DEF Whole, Counted, CallFloats, DrainFloats
  <2>3. SizesRead
    BY <2>1 DEF SizesRead, Writing
  <2>4. QED
    BY <2>1, <2>2, <2>3, TotalNone, CacheInvInit, CacheAssumption DEF AccountsInv, Accounts
<1>2. AccountsInv /\ [Next]_vars => AccountsInv'
  <2>1. CacheInv /\ [Next]_vars => CacheInv'
    BY ShapeStep, AttemptsStep, SafeStep, SingleStep DEF CacheInv
  <2>2. QED
    BY <2>1, AccountsStep DEF AccountsInv
<1>3. QED
  BY <1>1, <1>2, PTL DEF Spec

\* usedBytes is the bytes of the whole files, plus what is under way, whatever fails,
\* crashes or restarts, as long as no chunk was exposed.
THEOREM AccountingCorrect == Spec => []AccountingExact
<1>1. AccountsInv => AccountingExact
  <2> SUFFICES ASSUME AccountsInv, exposed = {}, phase \in {"up", "closing", "down"}
               PROVE  used = TotalSize(Whole) + Floating
    BY DEF AccountingExact
  <2>1. Counted = Whole /\ TotalSize(Whole) \in Nat
    BY WholeSets DEF AccountsInv, CacheInv
  <2>2. client.size \in Nat /\ drain.size \in Nat
    BY Sizes DEF AccountsInv, CacheInv, Shape, TypeOK
  <2>3. Floating = CallFloats + DrainFloats /\ CallFloats \in Nat /\ DrainFloats \in Nat
    BY <2>2 DEF Floating, CallFloats, DrainFloats
  <2>4. QED
    BY <2>1, <2>3 DEF AccountsInv, Accounts
<1>2. QED
  BY <1>1, AccountsInvariance, PTL

\* The directory never holds more than cache_size, as long as no chunk was exposed.
THEOREM LimitKept == Spec => []WithinLimit
<1>1. AccountsInv => WithinLimit
  BY DEF AccountsInv, Accounts, WithinLimit
<1>2. QED
  BY <1>1, AccountsInvariance, PTL

-----------------------------------------------------------------------------
\* Who wakes a Write that waits for space.

\* A whole file is on its way out of the cache: somebody is about to drain it, to enqueue it
\* or to remove it, as long as no attempt was the last one.
FileOnItsWay(c) ==
    faults < 3 /\ files[c] = "whole" =>
        \/ Pending(c)
        \/ At(c, {"send", "delFile"})
        \/ phase = "recovering" /\ (c \in left \/ c = rec)

\* A sleeper has no space yet, or the drain has given it some and is about to wake it.
Woken ==
    client.pc = "asleep" => used + client.size > MaxBytes \/ drain.pc = "broadcast"

\* A step that takes nobody away from the file of c.
LEMMA FileOnItsWayKept ==
    ASSUME NEW c, FileOnItsWay(c), faults < 3 \/ ~(faults' < 3), UNCHANGED <<phase, left, rec>>,
           files'[c] = "whole" => files[c] = "whole",
           Pending(c) => Pending(c)',
           At(c, {"send", "delFile"}) => At(c, {"send", "delFile"})'
    PROVE  FileOnItsWay(c)'
BY DEF FileOnItsWay

LEMMA FileOnItsWayStep ==
    ASSUME CacheInv, [Next]_vars, NEW c \in Chunk \ exposed', FileOnItsWay(c)
    PROVE  FileOnItsWay(c)'
<1>0. /\ files \in [Chunk -> Content] /\ queue \in Seq(Item)
      /\ drain \in Drain /\ client \in Call /\ drain.attempt <= faults
      /\ client.pc # "idle" => client.id \in Chunk /\ phase = "up"
      /\ rec # NoChunk => files[rec] # "none" /\ rec \in Chunk
  BY DEF CacheInv, Shape, TypeOK
<1>1. faults \in Nat /\ faults' \in Nat /\ (faults < 3 \/ ~(faults' < 3))
  BY FaultsGrow DEF CacheInv
<1>2. c # NoChunk
  BY CacheAssumption
\* The caller goes on, not at send or delFile, and writes no other file.
<1>3. ASSUME \/ \E b \in Chunk : BeginWrite(b) \/ DeleteStat(b) \/ ReadMiss(b)
             \/ Reserve \/ CreateFile \/ Unreserve \/ DeleteUsed \/ DeleteInner \/ ReadInner
      PROVE  FileOnItsWay(c)'
  <2>1. /\ UNCHANGED <<phase, left, rec, queue, drain>>
        /\ client.pc \notin {"send", "delFile"}
    BY <1>3 DEF BeginWrite, DeleteStat, ReadMiss, Reserve, CreateFile, Unreserve, DeleteUsed,
       DeleteInner, ReadInner, AtClient
  <2>2. files'[c] = "whole" => files[c] = "whole"
    BY <1>0, <1>3 DEF BeginWrite, DeleteStat, ReadMiss, Reserve, CreateFile, Unreserve,
       DeleteUsed, DeleteInner, ReadInner
  <2>3. QED
    BY <1>1, <2>1, <2>2, PendingSame, FileOnItsWayKept DEF At
<1>4. CASE FillFile
  <2>1. /\ client.pc = "fill" /\ UNCHANGED <<phase, left, rec, queue, drain>>
        /\ client'.id = client.id
        /\ \/ /\ client'.pc = "send"
              /\ files' = [files EXCEPT ![client.id] = IF @ = "none" THEN @ ELSE "whole"]
           \/ files' = files
    BY <1>0, <1>4, CallGoto DEF FillFile, AtClient
  <2>2. CASE client.id = c /\ client'.pc = "send"
    BY <2>1, <2>2 DEF FileOnItsWay, At
  <2>3. CASE client.id # c \/ files' = files
    <3>1. files'[c] = "whole" => files[c] = "whole"
      BY <1>0, <2>1, <2>3
    <3>2. QED
      BY <1>1, <2>1, <3>1, PendingSame, FileOnItsWayKept DEF At
  <2>4. QED
    BY <2>1, <2>2, <2>3
<1>5. CASE Send
  <2>1. [id |-> client.id, data |-> "whole"] \in Item
    BY <1>0, <1>5 DEF Send, AtClient, Item, Content
  <2>2. Pending(c)' <=> Pending(c) \/ client.id = c
    BY <1>0, <1>5, <2>1, InAppend, PendingIn DEF Send, InDrain
  <2>3. UNCHANGED <<files, faults, phase, left, rec>>
    BY <1>5 DEF Send
  <2>4. QED
    BY <2>2, <2>3 DEF FileOnItsWay, At
<1>6. CASE DeleteFile
  <2>1. files' = [files EXCEPT ![client.id] = "none"] /\ client.id \in Chunk
    BY <1>0, <1>6 DEF DeleteFile, AtClient
  <2>2. UNCHANGED <<faults, phase, left, rec, queue, drain>>
    BY <1>6 DEF DeleteFile
  <2>3. CASE client.id = c
    BY <1>0, <2>1, <2>3 DEF FileOnItsWay
  <2>4. CASE client.id # c
    BY <1>0, <1>1, <2>1, <2>2, <2>4, PendingSame, FileOnItsWayKept DEF At
  <2>5. QED
    BY <2>3, <2>4
<1>7. CASE DrainTake
  <2>1. drain'.pc = "write" /\ drain'.id = Head(queue).id
    BY <1>7 DEF DrainTake, NoDrain
  <2>2. Pending(c)' <=> Pending(c)
    BY <1>0, <1>7, <2>1, InTake, PendingIn DEF DrainTake, InDrain
  <2>3. UNCHANGED <<files, client, phase, left, rec>>
    BY <1>7 DEF DrainTake
  <2>4. QED
    BY <1>1, <2>2, <2>3, FileOnItsWayKept DEF At
<1>8. CASE DrainWrite
  <2>1. drain.pc = "write" /\ UNCHANGED <<files, queue, client, phase, left, rec>>
    BY <1>8 DEF DrainWrite
  <2>2. \/ DrainGoto("stat")
        \/ drain.attempt + 1 < 3 /\ drain' = [drain EXCEPT !.attempt = @ + 1]
        \/ ~(drain.attempt + 1 < 3) /\ Fails
    BY <1>8 DEF DrainWrite
  <2>3. CASE ~(drain.attempt + 1 < 3) /\ Fails
    <3>1. drain.attempt \in Nat
      BY <1>0 DEF Drain
    <3>2. ~(faults' < 3)
      BY <1>0, <1>1, <2>3, <3>1 DEF Fails
    <3>3. QED
      BY <3>2 DEF FileOnItsWay
  <2>4. CASE \/ DrainGoto("stat")
             \/ drain.attempt + 1 < 3 /\ drain' = [drain EXCEPT !.attempt = @ + 1]
    <3>1. drain'.id = drain.id /\ drain'.pc \in {"write", "stat"}
      BY <1>0, <2>1, <2>4, DrainMove, DrainRetry
    <3>2. Pending(c)' <=> Pending(c)
      BY <2>1, <3>1, PendingIn DEF InDrain
    <3>3. QED
      BY <1>1, <2>1, <3>2, FileOnItsWayKept DEF At
  <2>5. QED
    BY <2>2, <2>3, <2>4
<1>9. CASE DrainStat \/ DrainUsed \/ DrainBroadcast
  <2>1. /\ UNCHANGED <<files, queue, phase, left, rec>>
        /\ At(c, {"send", "delFile"})' <=> At(c, {"send", "delFile"})
    BY <1>0, <1>9, Wake DEF DrainStat, DrainUsed, DrainBroadcast, At
  <2>2. \/ drain.pc = "stat" /\ drain'.pc = "remove" /\ drain'.id = drain.id
        \/ drain.pc \in {"used", "broadcast"} /\ drain'.pc \in {"broadcast", "idle"}
    <3>1. CASE DrainStat
      BY <1>0, <3>1 DEF DrainStat, Drain
    <3>2. CASE DrainUsed
      BY <1>0, <3>2, DrainMove DEF DrainUsed
    <3>3. CASE DrainBroadcast
      BY <3>3 DEF DrainBroadcast, NoDrain
    <3>4. QED
      BY <1>9, <3>1, <3>2, <3>3
  <2>3. Pending(c)' <=> Pending(c)
    BY <2>1, <2>2, PendingIn DEF InDrain
  <2>4. QED
    BY <1>1, <2>1, <2>3, FileOnItsWayKept
<1>10. CASE DrainRemove
  <2>1. /\ drain.pc = "remove" /\ drain'.pc = "used" /\ drain'.id = drain.id
        /\ files' = [files EXCEPT ![drain.id] = "none"]
        /\ UNCHANGED <<queue, client, phase, left, rec>>
    BY <1>0, <1>10, DrainMove DEF DrainRemove
  <2>2. CASE drain.id = c
    BY <1>0, <2>1, <2>2 DEF FileOnItsWay
  <2>3. CASE drain.id # c
    <3>1. Pending(c)' <=> Pending(c)
      BY <2>1, <2>3, PendingIn DEF InDrain
    <3>2. QED
      BY <1>0, <1>1, <2>1, <2>3, <3>1, FileOnItsWayKept DEF At
  <2>4. QED
    BY <2>2, <2>3
<1>11. CASE RecoverFile
  <2>1. PICK b \in left : /\ left' = left \ {b}
                          /\ rec' = b \/ exposed' = exposed \cup {b}
    BY <1>11 DEF RecoverFile, Expose
  <2>2. phase = "recovering" /\ rec = NoChunk /\ UNCHANGED <<files, client, phase>>
    BY <1>11 DEF RecoverFile
  <2>3. Pending(c)' <=> Pending(c)
    BY <1>11, PendingSame DEF RecoverFile
  <2>4. QED
    BY <1>1, <1>2, <2>1, <2>2, <2>3 DEF FileOnItsWay, At
<1>12. CASE RecoverSend
  <2>1. [id |-> rec, data |-> files[rec]] \in Item
    BY <1>0, <1>12 DEF RecoverSend, Item
  <2>2. Pending(c)' <=> Pending(c) \/ rec = c
    BY <1>0, <1>12, <2>1, InAppend, PendingIn DEF RecoverSend, InDrain
  <2>3. UNCHANGED <<files, client, faults, phase, left>>
    BY <1>12 DEF RecoverSend
  <2>4. QED
    BY <2>2, <2>3 DEF FileOnItsWay, At
<1>13. CASE RecoverDone \/ Close \/ DrainExit
  <2>1. /\ UNCHANGED <<files, client, faults, queue, drain>>
        /\ ~(phase = "recovering" /\ (c \in left \/ c = rec))
    BY <1>2, <1>13 DEF RecoverDone, Close, DrainExit, AtClient
  <2>2. Pending(c)' <=> Pending(c)
    BY <2>1, PendingSame
  <2>3. QED
    BY <2>1, <2>2 DEF FileOnItsWay, At
<1>14. CASE Restart \/ Crash
  <2>1. phase' = "recovering" /\ left' = Cached /\ UNCHANGED files
    BY <1>14 DEF Restart, Crash, StartUp
  <2>2. QED
    BY <2>1 DEF FileOnItsWay, Cached
<1>15. CASE UNCHANGED vars
  BY <1>1, <1>15, PendingSame, FileOnItsWayKept DEF vars, At
<1>16. QED
  BY <1>3, <1>4, <1>5, <1>6, <1>7, <1>8, <1>9, <1>10, <1>11, <1>12, <1>13, <1>14, <1>15
     DEF Next, Calls, ClientStep, DrainStep, RecoverStep

\* Space is given back by the drain alone while the caller sleeps, and the broadcast follows.
LEMMA WokenStep ==
    ASSUME Shape, Woken, [Next]_vars
    PROVE  Woken'
<1>0. client \in Call /\ drain \in Drain /\ (client.pc # "idle" => phase = "up")
  BY DEF Shape, TypeOK
<1>1. CASE Reserve
  <2>1. client'.pc = "asleep" => used + client.size > MaxBytes /\ used' = used
    BY <1>0, <1>1, CallGoto DEF Reserve
  <2>2. client'.size = client.size
    BY <1>0, <1>1, CallGoto DEF Reserve
  <2>3. QED
    BY <2>1, <2>2 DEF Woken
<1>2. CASE DrainBroadcast
  BY <1>0, <1>2, Wake DEF Woken
<1>3. CASE DrainUsed
  BY <1>0, <1>3, DrainMove DEF DrainUsed, Woken
<1>4. CASE DrainTake \/ DrainWrite \/ DrainStat \/ DrainRemove
  BY <1>4 DEF DrainTake, DrainWrite, DrainStat, DrainRemove, Woken
<1>5. CASE Restart \/ Crash
  <2>1. client'.pc = "idle"
    BY <1>5 DEF Restart, Crash, StartUp, NoCall
  <2>2. QED
    BY <2>1 DEF Woken
<1>6. CASE \/ \E b \in Chunk : BeginWrite(b) \/ DeleteStat(b) \/ ReadMiss(b)
           \/ Unreserve \/ Send \/ DeleteInner \/ ReadInner
  <2>1. client'.pc # "asleep"
    BY <1>6 DEF BeginWrite, DeleteStat, ReadMiss, Unreserve, Send, DeleteInner, ReadInner,
       NoCall
  <2>2. QED
    BY <2>1 DEF Woken
<1>7. CASE CreateFile \/ FillFile \/ DeleteFile \/ DeleteUsed
  <2>1. client'.pc # "asleep"
    BY <1>0, <1>7, CallGoto DEF CreateFile, FillFile, DeleteFile, DeleteUsed
  <2>2. QED
    BY <2>1 DEF Woken
<1>8. CASE RecoverStep \/ Close \/ DrainExit \/ UNCHANGED vars
  <2>1. CASE RecoverFile
    <3>1. client'.pc # "asleep"
      BY <1>0, <2>1 DEF RecoverFile
    <3>2. QED
      BY <3>1 DEF Woken
  <2>2. CASE RecoverSend \/ RecoverDone \/ Close \/ DrainExit \/ UNCHANGED vars
    <3>1. UNCHANGED <<client, used, drain>>
      BY <2>2 DEF RecoverSend, RecoverDone, Close, DrainExit, vars
    <3>2. QED
      BY <3>1 DEF Woken
  <2>3. QED
    BY <1>8, <2>1, <2>2 DEF RecoverStep
<1>9. QED
  BY <1>1, <1>2, <1>3, <1>4, <1>5, <1>6, <1>7, <1>8 DEF Next, Calls, ClientStep, DrainStep

LEMMA SleepStep ==
    ASSUME AccountsInv, Woken, \A c \in Chunk \ exposed : FileOnItsWay(c), [Next]_vars
    PROVE  Woken' /\ \A c \in Chunk \ exposed' : FileOnItsWay(c)'
<1>1. CacheInv /\ Shape
  BY DEF AccountsInv, CacheInv
<1>2. ASSUME NEW c \in Chunk \ exposed' PROVE FileOnItsWay(c)'
  <2>1. FileOnItsWay(c)
    BY ExposedGrows
  <2>2. QED
    BY <1>1, <2>1, FileOnItsWayStep
<1>3. QED
  BY <1>1, <1>2, WokenStep

LEMMA SleepInvariance == Spec => [](Woken /\ \A c \in Chunk \ exposed : FileOnItsWay(c))
<1> DEFINE Sleeps == Woken /\ \A c \in Chunk \ exposed : FileOnItsWay(c)
<1>1. Init => Sleeps
  BY DEF Init, NoCall, Woken, FileOnItsWay
<1>2. AccountsInv /\ Sleeps /\ [Next]_vars => Sleeps'
  BY SleepStep
<1>3. QED
  BY <1>1, <1>2, AccountsInvariance, PTL DEF Spec

\* Whoever waits for space waits for the drain: with fewer than three failures it is at work
\* or has work queued, for a full cache holds a file that is on its way.
THEOREM SleeperCorrect == Spec => []SleeperHasDrain
<1>1. /\ AccountsInv /\ Woken /\ (\A c \in Chunk \ exposed : FileOnItsWay(c))
      => SleeperHasDrain
  <2> SUFFICES ASSUME AccountsInv, Woken, \A c \in Chunk \ exposed : FileOnItsWay(c),
                      client.pc = "asleep", exposed = {}, faults < 3,
                      drain.pc = "idle", queue = <<>>
               PROVE  FALSE
    BY DEF SleeperHasDrain
  <2>1. phase = "up" /\ client.size \in 0..MaxBytes /\ used \in Int /\ MaxBytes \in Nat
    BY Sizes DEF AccountsInv, CacheInv, Shape, TypeOK
  <2>2. used > 0
    BY <2>1 DEF Woken
  <2>3. used = TotalSize(Counted) + 0 + 0 /\ Counted = Whole /\ TotalSize(Whole) \in Nat
    BY <2>1, WholeSets DEF AccountsInv, CacheInv, Accounts, CallFloats, DrainFloats
  <2>4. Whole # {}
    BY <2>2, <2>3, TotalNone
  <2>5. PICK c \in Chunk : files[c] = "whole"
    BY <2>4 DEF Whole
  <2>6. ~Pending(c)
    BY NothingIn, PendingIn DEF InDrain
  <2>7. QED
    BY <2>1, <2>5, <2>6 DEF FileOnItsWay, At
<1>2. QED
  BY <1>1, AccountsInvariance, SleepInvariance, PTL

-----------------------------------------------------------------------------
\* The cache is a ChunkStore.

\* A start has no call behind it, and an idle caller has no chunk.
Settled ==
    /\ phase = "recovering" => result = "none"
    /\ client.pc = "idle" => client.id = NoChunk

LEMMA SettledStep ==
    ASSUME Shape, Settled, [Next]_vars
    PROVE  Settled'
<1>0. client \in Call /\ (client.pc # "idle" => phase = "up")
  BY DEF Shape, TypeOK
<1>1. ASSUME \/ \E b \in Chunk : BeginWrite(b) \/ DeleteStat(b) \/ ReadMiss(b)
             \/ Unreserve \/ Send \/ DeleteInner \/ ReadInner
      PROVE  Settled'
  <2>1. phase' = "up" /\ (client'.pc = "idle" => client'.id = NoChunk)
    BY <1>1 DEF BeginWrite, DeleteStat, ReadMiss, Unreserve, Send, DeleteInner, ReadInner,
       AtClient, NoCall
  <2>2. QED
    BY <2>1 DEF Settled
<1>2. CASE Reserve \/ CreateFile \/ FillFile \/ DeleteFile \/ DeleteUsed
  <2>1. phase' = "up" /\ client'.pc # "idle"
    BY <1>0, <1>2, CallGoto
       DEF Reserve, CreateFile, FillFile, DeleteFile, DeleteUsed, AtClient
  <2>2. QED
    BY <2>1 DEF Settled
<1>3. CASE DrainBroadcast
  <2>1. UNCHANGED <<phase, result>>
    BY <1>3 DEF DrainBroadcast
  <2>2. QED
    BY <1>0, <1>3, <2>1, Wake DEF Settled
<1>4. CASE Restart \/ Crash
  BY <1>4 DEF Restart, Crash, StartUp, NoCall, Settled
<1>5. CASE \/ DrainTake \/ DrainWrite \/ DrainStat \/ DrainRemove \/ DrainUsed \/ DrainExit
           \/ RecoverStep \/ Close \/ UNCHANGED vars
  <2>1. UNCHANGED <<client, result>> /\ (phase' = "recovering" => phase = "recovering")
    BY <1>5 DEF DrainTake, DrainWrite, DrainStat, DrainRemove, DrainUsed, DrainExit,
       RecoverStep, RecoverFile, RecoverSend, RecoverDone, Close, vars
  <2>2. QED
    BY <2>1 DEF Settled
<1>6. QED
  BY <1>1, <1>2, <1>3, <1>4, <1>5 DEF Next, Calls, ClientStep, DrainStep

StoreInv == CacheInv /\ Settled

LEMMA StoreInvariance == Spec => []StoreInv
<1>1. Init => Settled
  BY DEF Init, NoCall, Settled
<1>2. CacheInv /\ Settled /\ [Next]_vars => Settled'
  BY SettledStep DEF CacheInv
<1>3. QED
  BY <1>1, <1>2, CacheInvariance, PTL DEF Spec, StoreInv

\* A step that changes what Read returns at most for the chunks of S and the exposed ones.
LEMMA ChangesOnly ==
    ASSUME NEW S,
           \A c \in Chunk \ (S \cup exposed') :
               (ReadBack(c) = "whole")' <=> ReadBack(c) = "whole"
    PROVE  Promised!OnlyOf(S)
BY DEF Promised!OnlyOf

LEMMA ChangesNothing ==
    ASSUME NEW S, UNCHANGED <<files, inner>>
    PROVE  Promised!OnlyOf(S)
<1>1. ASSUME NEW c \in Chunk PROVE (ReadBack(c) = "whole")' <=> ReadBack(c) = "whole"
  BY DEF ReadBack
<1>2. QED
  BY <1>1, ChangesOnly

\* The call a caller is in, seen from outside.
LEMMA CallIs ==
    ASSUME TypeOK
    PROVE  /\ client.pc \in Writing => CallDoes = "write"
           /\ client.pc \in Deleting => CallDoes = "delete"
           /\ client.pc \in {"idle", "readInner"} => CallDoes = result
           /\ client.pc \in {"idle", "readInner"} => ~Promised!Busy
           /\ client.pc \in Writing \cup Deleting => Promised!Busy
BY DEF TypeOK, CallDoes, Promised!Busy, Writing, Deleting

LEMMA CallIsNext ==
    /\ client'.pc \in Writing => CallDoes' = "write"
    /\ client'.pc \in Deleting => CallDoes' = "delete"
    /\ client'.pc \in {"idle", "readInner"} => CallDoes' = result'
BY DEF CallDoes, Writing, Deleting

\* What goes on behind the caller's back.
LEMMA UnseenStep ==
    ASSUME StoreInv,
           \/ DrainTake \/ DrainWrite \/ DrainStat \/ DrainRemove \/ DrainUsed
           \/ DrainBroadcast \/ DrainExit \/ RecoverSend \/ RecoverDone \/ Close
           \/ Reserve \/ DeleteUsed \/ ReadInner \/ \E b \in Chunk : ReadMiss(b)
    PROVE  Promised!Behind
<1>0. /\ files \in [Chunk -> Content] /\ inner \in [Chunk -> Content]
      /\ drain \in Drain /\ client \in Call
      /\ client.pc = "idle" => client.id = NoChunk
      /\ drain.pc # "idle" => drain.id \in Chunk
  BY DEF StoreInv, Settled, CacheInv, Shape, TypeOK
<1>1. UNCHANGED <<exposed, result>>
  BY DEF DrainTake, DrainWrite, DrainStat, DrainRemove, DrainUsed, DrainBroadcast, DrainExit,
     RecoverSend, RecoverDone, Close, Reserve, DeleteUsed, ReadInner, ReadMiss
<1>2. \A c \in Chunk \ exposed : NothingShort(c) /\ CopyKept(c) /\ Single(c)
  BY DEF StoreInv, CacheInv, Safe
<1>3. Promised!OnlyOf({})
  <2>1. CASE DrainWrite
    <3>1. /\ drain.pc = "write" /\ UNCHANGED files
          /\ inner' \in Unfinished \/ inner' = [inner EXCEPT ![drain.id] = drain.data]
      BY <2>1 DEF DrainWrite
    <3>2. ASSUME NEW c \in Chunk \ ({} \cup exposed')
          PROVE  (ReadBack(c) = "whole")' <=> ReadBack(c) = "whole"
      <4>1. c \in Chunk \ exposed
        BY <1>1, <3>2
      <4>2. CASE drain.id = c
        <5>1. files[c] = "whole"
          BY <1>2, <3>1, <4>1, <4>2, PendingIn DEF Single, InDrain
        <5>2. QED
          BY <3>1, <5>1 DEF ReadBack
      <4>3. CASE drain.id # c
        <5>1. inner'[c] = inner[c]
          BY <1>0, <3>1, <4>3, UnfinishedType
        <5>2. QED
          BY <3>1, <5>1 DEF ReadBack
      <4>4. QED
        BY <4>2, <4>3
    <3>3. QED
      BY <3>2, ChangesOnly
  <2>2. CASE DrainRemove
    <3>1. /\ drain.pc = "remove" /\ UNCHANGED inner
          /\ files' = [files EXCEPT ![drain.id] = "none"]
      BY <2>2 DEF DrainRemove
    <3>2. ASSUME NEW c \in Chunk \ ({} \cup exposed')
          PROVE  (ReadBack(c) = "whole")' <=> ReadBack(c) = "whole"
      <4>1. c \in Chunk \ exposed
        BY <1>1, <3>2
      <4>2. CASE drain.id = c
        <5>1. files[c] = "whole" /\ inner[c] = "whole"
          BY <1>2, <3>1, <4>1, <4>2, PendingIn DEF Single, InDrain, CopyKept
        <5>2. files'[c] = "none"
          BY <1>0, <3>1, <4>2
        <5>3. QED
          BY <3>1, <5>1, <5>2 DEF ReadBack
      <4>3. CASE drain.id # c
        <5>1. files'[c] = files[c]
          BY <1>0, <3>1, <4>3
        <5>2. QED
          BY <3>1, <5>1 DEF ReadBack
      <4>4. QED
        BY <4>2, <4>3
    <3>3. QED
      BY <3>2, ChangesOnly
  <2>3. CASE UNCHANGED <<files, inner>>
    BY <2>3, ChangesNothing
  <2>4. DrainWrite \/ DrainRemove \/ UNCHANGED <<files, inner>>
    BY DEF DrainTake, DrainStat, DrainUsed, DrainBroadcast, DrainExit,
       RecoverSend, RecoverDone, Close, Reserve, DeleteUsed, ReadInner, ReadMiss
  <2>5. QED
    BY <2>1, <2>2, <2>3, <2>4
\* The caller stands still, goes on in its call, or reads.
<1>4. \/ UNCHANGED client
      \/ /\ client'.id = client.id
         /\ \/ client.pc \in Writing /\ client'.pc \in Writing
            \/ client.pc \in Deleting /\ client'.pc \in Deleting
      \/ client.pc = "readInner" /\ client'.pc = "idle" /\ client'.id = NoChunk
      \/ client.pc = "idle" /\ client'.pc = "readInner"
  <2>1. CASE Reserve
    BY <1>0, <2>1, CallGoto DEF Reserve, AtClient, Writing
  <2>2. CASE DeleteUsed
    BY <1>0, <2>2, CallGoto DEF DeleteUsed, AtClient, Deleting
  <2>3. CASE DrainBroadcast
    <3>1. CASE client.pc = "asleep"
      BY <1>0, <2>3, <3>1, Wake DEF Writing
    <3>2. CASE client.pc # "asleep"
      BY <2>3, <3>2 DEF DrainBroadcast
    <3>3. QED
      BY <3>1, <3>2
  <2>4. CASE ReadInner
    BY <2>4 DEF ReadInner, AtClient, NoCall
  <2>5. ASSUME NEW b \in Chunk, ReadMiss(b)
        PROVE  client.pc = "idle" /\ client'.pc = "readInner"
    BY <2>5 DEF ReadMiss, AtClient
  <2>6. CASE \/ DrainTake \/ DrainWrite \/ DrainStat \/ DrainRemove \/ DrainUsed \/ DrainExit
             \/ RecoverSend \/ RecoverDone \/ Close
    BY <2>6 DEF DrainTake, DrainWrite, DrainStat, DrainRemove, DrainUsed, DrainExit,
       RecoverSend, RecoverDone, Close
  <2>7. QED
    BY <2>1, <2>2, <2>3, <2>4, <2>5, <2>6
<1>5. CallDoes' = CallDoes
  <2>1. TypeOK
    BY DEF StoreInv, CacheInv, Shape
  <2>2. QED
    BY <1>1, <1>4, <2>1, CallIs, CallIsNext DEF CallDoes
<1>6. (IF client.pc = "readInner" THEN NoChunk ELSE client.id)'
      = IF client.pc = "readInner" THEN NoChunk ELSE client.id
  BY <1>0, <1>4 DEF Writing, Deleting
<1>7. QED
  BY <1>1, <1>3, <1>5, <1>6 DEF Promised!Behind

\* The calls begin.
LEMMA BeginStep ==
    ASSUME StoreInv, NEW c \in Chunk, BeginWrite(c) \/ DeleteStat(c)
    PROVE  \E d \in {"write", "delete"} : Promised!Begin(d, c)
<1>0. TypeOK /\ ~Promised!Busy
  <2>1. TypeOK /\ client.pc = "idle"
    BY DEF StoreInv, CacheInv, Shape, BeginWrite, DeleteStat, AtClient
  <2>2. QED
    BY <2>1, CallIs
<1>1. Promised!OnlyOf({})
  BY ChangesNothing DEF BeginWrite, DeleteStat
<1>2. Promised!Forsake({c})
  BY DEF BeginWrite, DeleteStat, Expose, Promised!Forsake
<1>3. CASE BeginWrite(c)
  <2>1. client'.pc = "reserve" /\ client'.id = c
    BY <1>3 DEF BeginWrite
  <2>2. CallDoes' = "write"
    BY <2>1, CallIsNext DEF Writing
  <2>3. Promised!Begin("write", c)
    BY <1>0, <1>1, <1>2, <2>1, <2>2 DEF Promised!Begin
  <2>4. QED
    BY <2>3
<1>4. CASE DeleteStat(c)
  <2>1. client'.pc \in {"delInner", "delFile"} /\ client'.id = c
    BY <1>4 DEF DeleteStat
  <2>2. CallDoes' = "delete"
    BY <2>1, CallIsNext DEF Deleting
  <2>3. Promised!Begin("delete", c)
    BY <1>0, <1>1, <1>2, <2>1, <2>2 DEF Promised!Begin
  <2>4. QED
    BY <2>3
<1>5. QED
  BY <1>3, <1>4

\* The caller at the file of its chunk.
LEMMA WorkStep ==
    ASSUME StoreInv, CreateFile \/ FillFile \/ DeleteFile
    PROVE  Promised!Work
<1>0. /\ TypeOK /\ files \in [Chunk -> Content] /\ client \in Call
      /\ client.pc # "idle" => client.id \in Chunk
      /\ \A c \in Chunk \ exposed : NothingShort(c) /\ CallAlone(c)
  BY DEF StoreInv, CacheInv, Shape, TypeOK, Safe
<1>1. /\ client.pc \in {"create", "fill", "delFile"} /\ client'.id = client.id
      /\ client.pc \in {"create", "fill"} => client'.pc \in {"fill", "send", "unreserve"}
      /\ client.pc = "delFile" => client'.pc = "delUsed"
  BY <1>0, CallGoto DEF CreateFile, FillFile, DeleteFile, AtClient
<1>2. Promised!Busy /\ CallDoes' = CallDoes
  BY <1>0, <1>1, CallIs, CallIsNext DEF Writing, Deleting
<1>3. Promised!OnlyOf({client.id})
  <2>1. ASSUME NEW c \in Chunk \ ({client.id} \cup exposed')
        PROVE  (ReadBack(c) = "whole")' <=> ReadBack(c) = "whole"
    <3>1. files'[c] = files[c] /\ inner' = inner
      BY <1>0, <2>1 DEF CreateFile, FillFile, DeleteFile
    <3>2. QED
      BY <3>1 DEF ReadBack
  <2>2. QED
    BY <2>1, ChangesOnly
<1>4. Promised!Forsake({client.id})
  BY DEF CreateFile, FillFile, DeleteFile, Expose, Promised!Forsake
<1>5. CallDoes = "delete" => Promised!Shrinks
  <2> SUFFICES ASSUME CallDoes = "delete", NEW c \in Chunk \ exposed',
                      (ReadBack(c) = "whole")'
               PROVE  ReadBack(c) = "whole"
    BY DEF Promised!Shrinks
  <2>1. DeleteFile
    BY DEF CallDoes, CreateFile, FillFile, AtClient
  <2>2. /\ files' = [files EXCEPT ![client.id] = "none"] /\ UNCHANGED <<inner, exposed>>
        /\ client.pc = "delFile"
    BY <2>1 DEF DeleteFile, AtClient
  <2>3. CASE client.id # c
    BY <1>0, <2>2, <2>3 DEF ReadBack
  <2>4. CASE client.id = c
    <3>1. files[c] # "short" /\ files[c] \in Content /\ files'[c] = "none"
      BY <1>0, <2>2, <2>4 DEF NothingShort, At
    <3>2. QED
      BY <2>2, <3>1 DEF ReadBack, Content
  <2>5. QED
    BY <2>3, <2>4
<1>6. QED
  BY <1>1, <1>2, <1>3, <1>4, <1>5 DEF Promised!Work

\* The calls return: what they report is so.
LEMMA ReturnStep ==
    ASSUME StoreInv, Unreserve \/ Send \/ DeleteInner
    PROVE  Promised!Succeed \/ Promised!Fail
<1>0. /\ TypeOK /\ inner \in [Chunk -> Content] /\ client \in Call
      /\ client.pc # "idle" => client.id \in Chunk
      /\ \A c \in Chunk \ exposed : CallAlone(c) /\ Single(c)
  BY DEF StoreInv, CacheInv, Shape, TypeOK, Safe
<1>1. client' = NoCall /\ UNCHANGED <<files, exposed>> /\ CallDoes' = result'
  BY CallIsNext DEF Unreserve, Send, DeleteInner, NoCall
<1>2. client.pc \in {"unreserve", "send", "delInner"} /\ client.id \in Chunk
  BY <1>0 DEF Unreserve, Send, DeleteInner, AtClient
<1>3. PICK b \in Chunk : b = client.id
  BY <1>2
<1>4. Promised!Busy
  BY <1>0, <1>2, CallIs DEF Writing, Deleting
<1>5. Promised!End(result')
  BY <1>1, <1>4 DEF Promised!End, NoCall
<1>6. Promised!OnlyOf({client.id})
  <2>1. ASSUME NEW c \in Chunk \ ({client.id} \cup exposed')
        PROVE  (ReadBack(c) = "whole")' <=> ReadBack(c) = "whole"
    <3>1. files' = files /\ inner'[c] = inner[c]
      BY <1>0, <2>1 DEF Unreserve, Send, DeleteInner
    <3>2. QED
      BY <3>1 DEF ReadBack
  <2>2. QED
    BY <2>1, ChangesOnly
<1>7. CASE Unreserve
  <2>1. CallDoes = "write" /\ result' = "failed"
    BY <1>0, <1>7, CallIs DEF Unreserve, AtClient, Writing
  <2>2. QED
    BY <1>2, <1>5, <1>6, <2>1 DEF Promised!Fail
<1>8. CASE Send
  <2>1. /\ client.pc = "send" /\ result' = "ok" /\ UNCHANGED inner
        /\ CallDoes = "write"
    BY <1>0, <1>8, CallIs DEF Send, AtClient, Writing
  <2>2. b \in exposed \/ (ReadBack(b) = "whole")'
    BY <1>0, <1>1, <1>3, <2>1 DEF CallAlone, At, ReadBack
  <2>3. QED
    BY <1>3, <1>5, <1>6, <2>1, <2>2 DEF Promised!Succeed
<1>9. CASE DeleteInner
  <2>1. client.pc = "delInner" /\ CallDoes = "delete"
    BY <1>0, <1>9, CallIs DEF DeleteInner, AtClient, Deleting
  <2>2. b \in exposed \/ files[b] = "none"
    BY <1>0, <1>3, <2>1 DEF Single, At
  <2>3. CASE result' = "ok"
    <3>1. inner'[b] = "none"
      BY <1>0, <1>3, <1>9, <2>3 DEF DeleteInner
    <3>2. b \in exposed \/ ~(ReadBack(b) = "whole")'
      BY <1>1, <2>2, <3>1 DEF ReadBack
    <3>3. QED
      BY <1>3, <1>5, <1>6, <2>1, <2>3, <3>2 DEF Promised!Succeed
  <2>4. CASE result' = "failed"
    <3>1. Promised!Shrinks
      <4> SUFFICES ASSUME NEW c \in Chunk \ exposed', (ReadBack(c) = "whole")'
                   PROVE  ReadBack(c) = "whole"
        BY DEF Promised!Shrinks
      <4>1. inner'[c] = inner[c] \/ inner'[c] = "none"
        BY <1>0, <1>9 DEF DeleteInner
      <4>2. QED
        BY <1>1, <4>1 DEF ReadBack
    <3>2. QED
      BY <1>2, <1>5, <1>6, <2>1, <2>4, <3>1 DEF Promised!Fail
  <2>5. QED
    BY <1>9, <2>3, <2>4 DEF DeleteInner
<1>10. QED
  BY <1>7, <1>8, <1>9

\* The process ends and starts.
LEMMA StartStep ==
    ASSUME StoreInv, Restart \/ Crash
    PROVE  Promised!Restart
<1>1. /\ client' = NoCall /\ result' = "none" /\ UNCHANGED files
      /\ inner' = inner \/ (drain.pc = "write" /\ inner' \in Unfinished)
  BY DEF Restart, Crash, StartUp
<1>2. CallDoes' = "none" /\ client'.id = NoChunk /\ client'.pc = "idle"
  BY <1>1, CallIsNext DEF NoCall
\* The drain writes a chunk whose file is there.
<1>3. Promised!OnlyOf({})
  <2>1. ASSUME NEW c \in Chunk \ ({} \cup exposed')
        PROVE  (ReadBack(c) = "whole")' <=> ReadBack(c) = "whole"
    <3>1. c \in Chunk \ exposed
      BY <2>1 DEF Restart, Crash, Expose
    <3>2. files[c] = "whole" \/ inner'[c] = inner[c]
      <4>1. Single(c) /\ inner \in [Chunk -> Content] /\ drain \in Drain
        BY <3>1 DEF StoreInv, CacheInv, Shape, TypeOK
      <4>2. CASE drain.id = c /\ drain.pc = "write"
        BY <4>1, <4>2, PendingIn DEF Single, InDrain
      <4>3. CASE ~(drain.id = c /\ drain.pc = "write")
        BY <1>1, <3>1, <4>1, <4>3, UnfinishedType
      <4>4. QED
        BY <4>2, <4>3
    <3>3. QED
      BY <1>1, <3>2 DEF ReadBack
  <2>2. QED
    BY <2>1, ChangesOnly
<1>4. Promised!Forsake({IF client.pc = "readInner" THEN NoChunk ELSE client.id})
  BY DEF Restart, Crash, StartUp, Expose, Promised!Forsake
<1>5. QED
  BY <1>2, <1>3, <1>4 DEF Promised!Restart

LEMMA RecoverFileStep ==
    ASSUME StoreInv, RecoverFile
    PROVE  Promised!Behind \/ \E c \in Chunk : Promised!Skip(c)
<1>0. client.pc = "idle" /\ result = "none" /\ left \subseteq Chunk
  BY DEF StoreInv, Settled, CacheInv, Shape, TypeOK, RecoverFile
<1>1. UNCHANGED <<client, result>> /\ CallDoes = "none" /\ CallDoes' = CallDoes
  BY <1>0 DEF RecoverFile, CallDoes
<1>2. Promised!OnlyOf({})
  BY ChangesNothing DEF RecoverFile
<1>3. PICK c \in left : UNCHANGED exposed \/ Expose(c, TRUE)
  BY DEF RecoverFile
<1>4. CASE UNCHANGED exposed
  BY <1>1, <1>2, <1>4 DEF Promised!Behind
<1>5. CASE Expose(c, TRUE)
  <2>1. Promised!Forsake({c})
    BY <1>5 DEF Expose, Promised!Forsake
  <2>2. Promised!Skip(c)
    BY <1>1, <1>2, <2>1 DEF Promised!Skip
  <2>3. QED
    BY <1>0, <2>2
<1>6. QED
  BY <1>3, <1>4, <1>5

LEMMA StoreStep ==
    ASSUME StoreInv, [Next]_vars
    PROVE  [Promised!Next]_(Promised!storeVars)
<1>1. CASE \/ DrainStep \/ RecoverSend \/ RecoverDone \/ Close
           \/ Reserve \/ DeleteUsed \/ ReadInner \/ \E b \in Chunk : ReadMiss(b)
  BY <1>1, UnseenStep DEF DrainStep, Promised!Next
<1>2. ASSUME NEW c \in Chunk, BeginWrite(c) \/ DeleteStat(c)
      PROVE  Promised!Next
  BY <1>2, BeginStep DEF Promised!Next
<1>3. CASE CreateFile \/ FillFile \/ DeleteFile
  BY <1>3, WorkStep DEF Promised!Next
<1>4. CASE Unreserve \/ Send \/ DeleteInner
  BY <1>4, ReturnStep DEF Promised!Next
<1>5. CASE Restart \/ Crash
  BY <1>5, StartStep DEF Promised!Next
<1>6. CASE RecoverFile
  BY <1>6, RecoverFileStep DEF Promised!Next
<1>7. CASE UNCHANGED vars
  BY <1>7 DEF vars, CallDoes, ReadBack, Promised!storeVars
<1>8. QED
  BY <1>1, <1>2, <1>3, <1>4, <1>5, <1>6, <1>7 DEF Next, Calls, ClientStep, RecoverStep

\* To its caller the cache is a ChunkStore: what a Read returns changes for the chunk of the
\* call alone, and as the call reports, whatever the drain, failures, crashes and starts do.
THEOREM CacheImplementsChunkStore == Spec => ImplementsChunkStore
<1>1. Init => Promised!Init
  BY DEF Init, NoCall, CallDoes, ReadBack, Promised!Init
<1>2. StoreInv /\ [Next]_vars => [Promised!Next]_(Promised!storeVars)
  BY StoreStep
<1>3. QED
  BY <1>1, <1>2, StoreInvariance, PTL DEF Spec, Promised!Spec, ImplementsChunkStore

=============================================================================
