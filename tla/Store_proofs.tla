---------------------------- MODULE Store_proofs -----------------------------
(***************************************************************************)
(* Proofs about Store, for any backends, limits, callers, chunks and       *)
(* numbers of writes and failures: its indexes behave as Index says, and   *)
(* the whole implements BlobStore.                                         *)
(***************************************************************************)
EXTENDS Store, Index_proofs

PCs == {"idle", "pick", "deleteOld", "upload", "truncate", "fill", "lookup",
        "remove", "setRef", "saveRef", "setRouter", "saveRouter"}

StoreTypeOK ==
    /\ copies \in [Backend -> SUBSET (Key \X (0..MaxWrites))]
    /\ doing \in [Caller -> {"none", "write", "delete", "ok", "failed"}]
    /\ chunk \in [Caller -> Key \cup {NoKey}]
    /\ pc \in [Caller -> PCs]
    /\ to \in [Caller -> Backend \cup {NoBackend}]
    /\ old \in [Caller -> Ref \cup {NoRef}]
    /\ id \in [Caller -> 0..MaxWrites]
    /\ mounted \in BOOLEAN /\ damaged \in BOOLEAN
    /\ writes \in 0..MaxWrites /\ faults \in 0..MaxFaults
    /\ contested \subseteq Caller /\ disturbed \subseteq Key
    /\ \A p \in Caller : Busy(p) <=> chunk[p] # NoKey

LEMMA SplitType == TypeOK <=> IndexTypeOK /\ StoreTypeOK
  BY DEF TypeOK, StoreTypeOK, PCs

\* Where each call is, and what it knows there.
CallOK(p) ==
    /\ Busy(p) <=> pc[p] # "idle"
    /\ Busy(p) => mounted
    /\ stage[p] # "none" <=> pc[p] \in {"saveRef", "saveRouter"}
    /\ stage[p] # "none" => work[p][2] = chunk[p]
    /\ pc[p] \in {"pick", "deleteOld", "upload", "truncate", "fill"} => doing[p] = "write"
    /\ pc[p] \in {"lookup", "remove"} => doing[p] = "delete"
    /\ pc[p] \notin {"idle", "pick", "lookup"} => to[p] \in Backend
    /\ pc[p] \in {"deleteOld", "upload", "setRef", "saveRef"} => ~Local(to[p])
    /\ pc[p] \in {"truncate", "fill"} => Local(to[p])
    /\ doing[p] = "write" => id[p] \in 1..MaxWrites

\* The router's entries are backends, in memory, on disk and on their way there.
RouterDoc(d) == \A k \in Key : d[k] \in Backend \cup {NoRef}

RouterOK ==
    /\ RouterDoc(data[Router])
    /\ file[Router] \in Doc => RouterDoc(file[Router])
    /\ \A p \in Caller : stage[p] \in Writing /\ work[p][1] = Router => RouterDoc(snap[p])

CallInv == \A p \in Caller : CallOK(p)

SInv == TypeOK /\ IndexInv /\ CallInv /\ RouterOK

LEMMA BusyFacts ==
  ASSUME SInv, NEW p \in Caller, pc[p] # "idle"
  PROVE  /\ Busy(p) /\ mounted = TRUE /\ chunk[p] \in Key /\ chunk[p] # NoKey
         /\ doing[p] \in {"write", "delete"}
  BY DEF SInv, TypeOK, CallInv, CallOK, Busy

LEMMA RouterIx == Router \in Ix /\ \A b \in Backend : ~Local(b) => b \in Ix
  BY StoreAssumption

LEMMA RefFacts == Backend \subseteq Ref /\ 1..MaxWrites \subseteq Ref
  BY StoreAssumption

-----------------------------------------------------------------------------
\* The steps of a call on its own variables.

\* A step on from one pc to another.
LEMMA GoType ==
  ASSUME StoreTypeOK, NEW p \in Caller, NEW s \in PCs, Goto(p, s), Stay
  PROVE  /\ pc' \in [Caller -> PCs] /\ pc'[p] = s
         /\ \A q \in Caller : q # p => pc'[q] = pc[q]
         /\ UNCHANGED <<doing, chunk, to, old, id, contested>>
  BY DEF StoreTypeOK, Goto, Stay

LEMMA ReturnType ==
  ASSUME StoreTypeOK, NEW p \in Caller, NEW r \in {"ok", "failed"}, Return(p, r)
  PROVE  /\ doing' \in [Caller -> {"none", "write", "delete", "ok", "failed"}]
         /\ chunk' \in [Caller -> Key \cup {NoKey}]
         /\ pc' \in [Caller -> PCs]
         /\ to' \in [Caller -> Backend \cup {NoBackend}]
         /\ old' \in [Caller -> Ref \cup {NoRef}]
         /\ id' \in [Caller -> 0..MaxWrites]
         /\ contested' \subseteq Caller
         /\ \A q \in Caller : Busy(q)' <=> chunk'[q] # NoKey
         /\ doing'[p] = r /\ pc'[p] = "idle"
         /\ \A q \in Caller : q # p => /\ doing'[q] = doing[q] /\ chunk'[q] = chunk[q]
                                       /\ pc'[q] = pc[q] /\ to'[q] = to[q] /\ id'[q] = id[q]
<1> USE DEF StoreTypeOK, Return, PCs
<1>1. /\ doing' \in [Caller -> {"none", "write", "delete", "ok", "failed"}]
      /\ chunk' \in [Caller -> Key \cup {NoKey}]
  OBVIOUS
<1>2. pc' \in [Caller -> PCs] /\ to' \in [Caller -> Backend \cup {NoBackend}]
  OBVIOUS
<1>3. old' \in [Caller -> Ref \cup {NoRef}] /\ contested' \subseteq Caller
  OBVIOUS
<1>4. id' \in [Caller -> 0..MaxWrites]
  BY StoreAssumption
<1>5. doing'[p] = r /\ pc'[p] = "idle" /\ chunk'[p] = NoKey
  OBVIOUS
<1>6. \A q \in Caller : q # p => /\ doing'[q] = doing[q] /\ chunk'[q] = chunk[q]
                                 /\ pc'[q] = pc[q] /\ to'[q] = to[q] /\ id'[q] = id[q]
  OBVIOUS
<1>7. \A q \in Caller : Busy(q)' <=> chunk'[q] # NoKey
  BY <1>5, <1>6 DEF Busy
<1> QED  BY <1>1, <1>2, <1>3, <1>4, <1>5, <1>6, <1>7

\* What a step of p leaves as it was stays right.
LEMMA OtherCall ==
  ASSUME NEW q, CallOK(q),
         doing'[q] = doing[q], chunk'[q] = chunk[q], pc'[q] = pc[q], to'[q] = to[q], id'[q] = id[q],
         stage'[q] = stage[q], work'[q] = work[q], mounted' = mounted
  PROVE  CallOK(q)'
  BY DEF CallOK, Busy, Local

LEMMA SameRouter == ASSUME RouterOK, UNCHANGED indexVars PROVE RouterOK'
  BY DEF RouterOK, RouterDoc, indexVars

LEMMA CopiesType ==
  ASSUME StoreTypeOK, NEW b \in Backend, NEW c \in Key, NEW n \in 0..MaxWrites,
         AddCopy(b, <<c, n>>) \/ DropCopy(b, <<c, n>>)
  PROVE  copies' \in [Backend -> SUBSET (Key \X (0..MaxWrites))]
<1>1. <<c, n>> \in Key \X (0..MaxWrites)  OBVIOUS
<1> QED  BY <1>1 DEF AddCopy, DropCopy, StoreTypeOK

LEMMA DropType ==
  ASSUME StoreTypeOK, NEW b \in Backend, NEW copy, DropCopy(b, copy)
  PROVE  copies' \in [Backend -> SUBSET (Key \X (0..MaxWrites))]
  BY DEF DropCopy, StoreTypeOK

LEMMA FaultsType ==
  ASSUME StoreTypeOK, Works \/ Fails
  PROVE  faults' \in 0..MaxFaults
  BY StoreAssumption DEF StoreTypeOK, Works, Fails

\* A step that moves p on, with the indexes left alone.
LEMMA GoOn ==
  ASSUME SInv, NEW p \in Caller, pc[p] # "idle",
         NEW s \in PCs \ {"idle"}, Goto(p, s),
         UNCHANGED <<doing, chunk, id, contested>>, Apart,
         to' \in [Caller -> Backend \cup {NoBackend}],
         \A q \in Caller : q # p => to'[q] = to[q],
         old' \in [Caller -> Ref \cup {NoRef}],
         copies' \in [Backend -> SUBSET (Key \X (0..MaxWrites))],
         UNCHANGED disturbed \/ Disturb({chunk[p]}),
         faults' \in 0..MaxFaults,
         UNCHANGED indexVars,
         s \notin {"pick", "lookup", "saveRef", "saveRouter"},
         pc[p] \notin {"saveRef", "saveRouter"},
         s \in {"deleteOld", "upload", "truncate", "fill"} => doing[p] = "write",
         s = "remove" => doing[p] = "delete",
         to'[p] \in Backend,
         s \in {"deleteOld", "upload", "setRef"} => ~Local(to'[p]),
         s \in {"truncate", "fill"} => Local(to'[p])
  PROVE  StoreTypeOK' /\ CallInv' /\ RouterOK'
<1>1. StoreTypeOK  BY SplitType DEF SInv
<1>2. RouterOK'  BY SameRouter DEF SInv
<1>3. /\ pc' \in [Caller -> PCs] /\ pc'[p] = s
      /\ \A q \in Caller : q # p => pc'[q] = pc[q]
  BY <1>1 DEF StoreTypeOK, Goto
<1>4. disturbed' \subseteq Key
  BY <1>1, BusyFacts DEF StoreTypeOK, Disturb
<1>5. StoreTypeOK'
  BY <1>1, <1>3, <1>4 DEF StoreTypeOK, Apart, Busy
<1>6. ASSUME NEW q \in Caller PROVE CallOK(q)'
  <2>1. CallOK(q)  BY DEF SInv, CallInv
  <2>2. CASE q # p
    BY <1>3, <2>1, <2>2, OtherCall DEF Apart, indexVars
  <2>3. CASE q = p
    <3>1. Busy(p) /\ mounted /\ stage[p] = "none"
      BY <2>1, <2>3 DEF CallOK, SInv, TypeOK, IndexTypeOK
    <3>2. stage' = stage /\ doing' = doing /\ id' = id /\ mounted' = mounted
      BY DEF indexVars, Apart
    <3>3. Busy(p)' /\ mounted' /\ pc'[p] # "idle"  BY <1>3, <3>1, <3>2 DEF Busy
    <3>4. stage'[p] = "none" /\ pc'[p] \notin {"saveRef", "saveRouter"}  BY <1>3, <3>1, <3>2
    <3>5. doing'[p] = "write" => id'[p] \in 1..MaxWrites  BY <2>1, <2>3, <3>2 DEF CallOK
    <3> QED  BY <1>3, <2>3, <3>2, <3>3, <3>4, <3>5 DEF CallOK, Local
  <2> QED  BY <2>2, <2>3
<1> QED  BY <1>2, <1>5, <1>6 DEF CallInv

\* A step that ends p's call, with the indexes left alone.
LEMMA GoHome ==
  ASSUME SInv, NEW p \in Caller, pc[p] \notin {"idle", "saveRef", "saveRouter"},
         NEW r \in {"ok", "failed"}, Return(p, r), Apart,
         copies' \in [Backend -> SUBSET (Key \X (0..MaxWrites))],
         UNCHANGED disturbed \/ Disturb({chunk[p]}),
         faults' \in 0..MaxFaults,
         UNCHANGED indexVars
  PROVE  StoreTypeOK' /\ CallInv' /\ RouterOK'
<1>1. StoreTypeOK  BY SplitType DEF SInv
<1>2. RouterOK'  BY SameRouter DEF SInv
<1>3. /\ doing'[p] = r /\ pc'[p] = "idle"
      /\ \A q \in Caller : q # p => /\ doing'[q] = doing[q] /\ chunk'[q] = chunk[q]
                                    /\ pc'[q] = pc[q] /\ to'[q] = to[q] /\ id'[q] = id[q]
  BY <1>1, ReturnType
<1>4. disturbed' \subseteq Key
  BY <1>1, BusyFacts DEF StoreTypeOK, Disturb
<1>5. StoreTypeOK'
  <2>1. /\ doing' \in [Caller -> {"none", "write", "delete", "ok", "failed"}]
        /\ chunk' \in [Caller -> Key \cup {NoKey}]
        /\ pc' \in [Caller -> PCs]
        /\ to' \in [Caller -> Backend \cup {NoBackend}]
        /\ old' \in [Caller -> Ref \cup {NoRef}]
        /\ id' \in [Caller -> 0..MaxWrites]
        /\ contested' \subseteq Caller
        /\ \A q \in Caller : Busy(q)' <=> chunk'[q] # NoKey
    BY <1>1, ReturnType
  <2> QED  BY <1>1, <1>4, <2>1 DEF StoreTypeOK, Apart
<1>6. ASSUME NEW q \in Caller PROVE CallOK(q)'
  <2>1. CallOK(q)  BY DEF SInv, CallInv
  <2>2. CASE q # p
    BY <1>3, <2>1, <2>2, OtherCall DEF Apart, indexVars
  <2>3. CASE q = p
    <3>1. stage[p] = "none"
      BY <2>1, <2>3 DEF CallOK, SInv, TypeOK, IndexTypeOK
    <3>2. stage'[p] = "none"  BY <3>1 DEF indexVars
    <3> QED  BY <1>3, <2>3, <3>2 DEF CallOK, Busy
  <2> QED  BY <2>2, <2>3
<1> QED  BY <1>2, <1>5, <1>6 DEF CallInv

-----------------------------------------------------------------------------
\* The actions that leave the indexes alone.

Kept == StoreTypeOK /\ CallInv /\ RouterOK

LEMMA BeginKept ==
  ASSUME SInv, NEW p \in Caller, NEW d \in {"write", "delete"}, NEW c \in Key, Begin(p, d, c)
  PROVE  Kept'
<1>1. StoreTypeOK  BY SplitType DEF SInv
<1>2. RouterOK'  BY SameRouter DEF SInv, Begin
<1>3. /\ doing'[p] = d /\ chunk'[p] = c /\ pc'[p] \in {"pick", "lookup"}
      /\ pc'[p] = (IF d = "write" THEN "pick" ELSE "lookup")
      /\ \A q \in Caller : q # p => /\ doing'[q] = doing[q] /\ chunk'[q] = chunk[q]
                                    /\ pc'[q] = pc[q] /\ to'[q] = to[q] /\ id'[q] = id[q]
  BY <1>1 DEF Begin, Goto, StoreTypeOK
<1>4. writes' \in 0..MaxWrites /\ (d = "write" => writes + 1 \in 1..MaxWrites)
  BY <1>1, StoreAssumption DEF Begin, StoreTypeOK
<1>5. id' \in [Caller -> 0..MaxWrites] /\ (d = "write" => id'[p] \in 1..MaxWrites)
  <2>1. (IF d = "write" THEN writes + 1 ELSE 0) \in 0..MaxWrites
    BY <1>4, StoreAssumption
  <2> QED  BY <1>1, <1>4, <2>1 DEF Begin, StoreTypeOK
<1>6. /\ doing' \in [Caller -> {"none", "write", "delete", "ok", "failed"}]
      /\ chunk' \in [Caller -> Key \cup {NoKey}]
      /\ pc' \in [Caller -> PCs]
  BY <1>1 DEF Begin, Goto, StoreTypeOK, PCs
<1>7. contested' \subseteq Caller /\ disturbed' \subseteq Key
  BY <1>1 DEF Begin, StoreTypeOK, Disturb
<1>8. \A q \in Caller : Busy(q)' <=> chunk'[q] # NoKey
  BY <1>1, <1>3, StoreAssumption DEF StoreTypeOK, Busy
<1>9. StoreTypeOK'
  BY <1>1, <1>4, <1>5, <1>6, <1>7, <1>8 DEF StoreTypeOK, Begin
<1>10. ASSUME NEW q \in Caller PROVE CallOK(q)'
  <2>1. CallOK(q)  BY DEF SInv, CallInv
  <2>2. CASE q # p
    BY <1>3, <2>1, <2>2, OtherCall DEF Begin, indexVars
  <2>3. CASE q = p
    <3>1. stage[p] = "none"
      BY <2>1, <2>3 DEF CallOK, SInv, TypeOK, IndexTypeOK, Begin
    <3>2. stage'[p] = "none" /\ mounted'  BY <3>1 DEF Begin, indexVars
    <3> QED  BY <1>3, <1>5, <2>3, <3>2 DEF CallOK, Busy
  <2> QED  BY <2>2, <2>3
<1> QED  BY <1>2, <1>9, <1>10 DEF CallInv, Kept

LEMMA PickKept ==
  ASSUME SInv, NEW p \in Caller, Pick(p)
  PROVE  Kept'
<1>1. StoreTypeOK /\ chunk[p] \in Key /\ CallOK(p)
  BY SplitType, BusyFacts DEF SInv, Pick, CallInv
<1>2. PICK b \in Roomiest :
         /\ to' = [to EXCEPT ![p] = b]
         /\ old' = [old EXCEPT ![p] = IF Kind[b] = "github" THEN data[b][chunk[p]] ELSE NoRef]
         /\ Goto(p, IF Local(b) THEN "truncate" ELSE IF old'[p] # NoRef THEN "deleteOld" ELSE "upload")
  BY DEF Pick
<1>3. b \in Backend  BY DEF Roomiest
<1>4. to' \in [Caller -> Backend \cup {NoBackend}] /\ to'[p] = b
      /\ \A q \in Caller : q # p => to'[q] = to[q]
  BY <1>1, <1>2, <1>3 DEF StoreTypeOK
<1>5. old' \in [Caller -> Ref \cup {NoRef}]
  <2>1. (IF Kind[b] = "github" THEN data[b][chunk[p]] ELSE NoRef) \in Ref \cup {NoRef}
    BY <1>1, <1>3, RouterIx DEF SInv, TypeOK, IndexTypeOK, Doc, Local
  <2> QED  BY <1>1, <1>2, <2>1 DEF StoreTypeOK
<1>6. PICK s \in {"truncate", "deleteOld", "upload"} : Goto(p, s) /\ (s = "truncate" <=> Local(b))
  BY <1>2
<1>7. UNCHANGED disturbed \/ Disturb({chunk[p]})  BY DEF Pick
<1>8. /\ copies' \in [Backend -> SUBSET (Key \X (0..MaxWrites))]
      /\ faults' \in 0..MaxFaults
  BY <1>1 DEF Pick, StoreTypeOK
<1>9. doing[p] = "write"  BY <1>1 DEF CallOK, Pick
<1> QED
  BY <1>3, <1>4, <1>5, <1>6, <1>7, <1>8, <1>9, GoOn DEF Pick, PCs, Kept

LEMMA DeleteOldKept ==
  ASSUME SInv, NEW p \in Caller, DeleteOld(p)
  PROVE  Kept'
<1>1. StoreTypeOK /\ CallOK(p) /\ to[p] \in Backend /\ ~Local(to[p]) /\ doing[p] = "write"
  BY SplitType DEF SInv, DeleteOld, CallInv, CallOK
<1>2. copies' \in [Backend -> SUBSET (Key \X (0..MaxWrites))]
  BY <1>1, DropType DEF DeleteOld, StoreTypeOK
<1>3. faults' \in 0..MaxFaults  BY <1>1, FaultsType DEF DeleteOld
<1>4. CASE Goto(p, "upload") /\ Stay /\ UNCHANGED disturbed
  BY <1>1, <1>2, <1>3, <1>4, GoOn DEF DeleteOld, Stay, PCs, Kept, StoreTypeOK
<1>5. CASE Fail(p)
  BY <1>2, <1>3, <1>5, GoHome DEF DeleteOld, Fail, Kept
<1> QED  BY <1>4, <1>5 DEF DeleteOld

LEMMA UploadKept ==
  ASSUME SInv, NEW p \in Caller, Upload(p)
  PROVE  Kept'
<1>1. /\ StoreTypeOK /\ CallOK(p) /\ to[p] \in Backend /\ ~Local(to[p])
      /\ chunk[p] \in Key /\ id[p] \in 0..MaxWrites
  BY SplitType, BusyFacts DEF SInv, Upload, CallInv, CallOK, StoreTypeOK
<1>2. copies' \in [Backend -> SUBSET (Key \X (0..MaxWrites))]
  BY <1>1, CopiesType DEF Upload, StoreTypeOK
<1>3. faults' \in 0..MaxFaults  BY <1>1, FaultsType DEF Upload
<1>4. CASE Goto(p, "setRef") /\ Stay /\ UNCHANGED disturbed
  BY <1>1, <1>2, <1>3, <1>4, GoOn DEF Upload, Stay, PCs, Kept, StoreTypeOK
<1>5. CASE Fail(p)
  BY <1>2, <1>3, <1>5, GoHome DEF Upload, Fail, Kept
<1> QED  BY <1>4, <1>5 DEF Upload

LEMMA TruncateKept ==
  ASSUME SInv, NEW p \in Caller, Truncate(p)
  PROVE  Kept'
<1>1. /\ StoreTypeOK /\ CallOK(p) /\ to[p] \in Backend /\ Local(to[p]) /\ doing[p] = "write"
  BY SplitType DEF SInv, Truncate, CallInv, CallOK
<1>2. copies' \in [Backend -> SUBSET (Key \X (0..MaxWrites))]
  BY <1>1, DropType DEF Truncate, StoreTypeOK
<1>3. faults' \in 0..MaxFaults  BY <1>1, FaultsType DEF Truncate
<1>4. CASE Goto(p, "fill") /\ Stay /\ UNCHANGED disturbed
  BY <1>1, <1>2, <1>3, <1>4, GoOn DEF Truncate, Stay, PCs, Kept, StoreTypeOK
<1>5. CASE Fail(p)
  BY <1>2, <1>3, <1>5, GoHome DEF Truncate, Fail, Kept
<1> QED  BY <1>4, <1>5 DEF Truncate

LEMMA FillCopyKept ==
  ASSUME SInv, NEW p \in Caller, FillCopy(p)
  PROVE  Kept'
<1>1. StoreTypeOK /\ CallOK(p) /\ to[p] \in Backend /\ chunk[p] \in Key
  BY SplitType, BusyFacts DEF SInv, FillCopy, CallInv, CallOK
<1>2. copies' \in [Backend -> SUBSET (Key \X (0..MaxWrites))]
  BY <1>1, CopiesType, StoreAssumption DEF FillCopy, StoreTypeOK
<1>3. faults' \in 0..MaxFaults  BY <1>1, FaultsType DEF FillCopy
<1>4. CASE Goto(p, "setRouter") /\ Stay /\ UNCHANGED disturbed
  BY <1>1, <1>2, <1>3, <1>4, GoOn DEF FillCopy, Stay, PCs, Kept, StoreTypeOK
<1>5. CASE Fail(p)
  BY <1>2, <1>3, <1>5, GoHome DEF FillCopy, Fail, Kept
<1> QED  BY <1>4, <1>5 DEF FillCopy

LEMMA LookupKept ==
  ASSUME SInv, NEW p \in Caller, Lookup(p)
  PROVE  Kept'
<1>1. StoreTypeOK /\ CallOK(p) /\ chunk[p] \in Key /\ doing[p] = "delete"
  BY SplitType, BusyFacts DEF SInv, Lookup, CallInv, CallOK
<1>2. copies' \in [Backend -> SUBSET (Key \X (0..MaxWrites))] /\ faults' \in 0..MaxFaults
  BY <1>1 DEF Lookup, StoreTypeOK
<1>3. CASE Succeed(p)
  BY <1>2, <1>3, GoHome DEF Lookup, Succeed, Kept
<1>4. CASE data[Router][chunk[p]] # NoRef
  <2> DEFINE b == data[Router][chunk[p]]
  <2>1. b \in Backend  BY <1>1, <1>4 DEF SInv, RouterOK, RouterDoc
  <2>2. /\ to' = [to EXCEPT ![p] = b]
        /\ old' = [old EXCEPT ![p] = IF Local(b) THEN NoRef ELSE data[b][chunk[p]]]
        /\ Goto(p, "remove") /\ UNCHANGED <<doing, chunk, id, contested, disturbed>>
    BY <1>4 DEF Lookup
  <2>3. to' \in [Caller -> Backend \cup {NoBackend}] /\ to'[p] = b
        /\ \A q \in Caller : q # p => to'[q] = to[q]
    BY <1>1, <2>1, <2>2 DEF StoreTypeOK
  <2>4. old' \in [Caller -> Ref \cup {NoRef}]
    <3>1. (IF Local(b) THEN NoRef ELSE data[b][chunk[p]]) \in Ref \cup {NoRef}
      BY <1>1, <2>1, RouterIx DEF SInv, TypeOK, IndexTypeOK, Doc
    <3> QED  BY <1>1, <2>2, <3>1 DEF StoreTypeOK
  <2> QED
    BY <1>1, <1>2, <2>1, <2>2, <2>3, <2>4, GoOn DEF Lookup, PCs, Kept
<1> QED  BY <1>3, <1>4 DEF Lookup

LEMMA RemoveAssetKept ==
  ASSUME SInv, NEW p \in Caller, RemoveAsset(p)
  PROVE  Kept'
<1>1. StoreTypeOK /\ CallOK(p) /\ to[p] \in Backend /\ ~Local(to[p])
  BY SplitType DEF SInv, RemoveAsset, CallInv, CallOK, Local
<1>2. copies' \in [Backend -> SUBSET (Key \X (0..MaxWrites))]
  BY <1>1, DropType DEF RemoveAsset, StoreTypeOK
<1>3. faults' \in 0..MaxFaults  BY <1>1, FaultsType DEF RemoveAsset
<1>4. CASE Goto(p, "setRef") /\ Stay /\ UNCHANGED disturbed
  BY <1>1, <1>2, <1>3, <1>4, GoOn DEF RemoveAsset, Stay, PCs, Kept, StoreTypeOK
<1>5. CASE Fail(p)
  BY <1>2, <1>3, <1>5, GoHome DEF RemoveAsset, Fail, Kept
<1> QED  BY <1>4, <1>5 DEF RemoveAsset

LEMMA RemoveEntryKept ==
  ASSUME SInv, NEW p \in Caller, RemoveEntry(p)
  PROVE  Kept'
<1>1. StoreTypeOK /\ CallOK(p) /\ to[p] \in Backend /\ ~Local(to[p])
  BY SplitType DEF SInv, RemoveEntry, CallInv, CallOK
<1>2. copies' \in [Backend -> SUBSET (Key \X (0..MaxWrites))] /\ faults' \in 0..MaxFaults
  BY <1>1 DEF RemoveEntry, StoreTypeOK
<1>3. PICK s \in {"setRef", "setRouter"} : Goto(p, s)  BY DEF RemoveEntry
<1>4. UNCHANGED disturbed \/ Disturb({chunk[p]})  BY DEF RemoveEntry
<1> QED
  BY <1>1, <1>2, <1>3, <1>4, GoOn DEF RemoveEntry, Stay, PCs, Kept, StoreTypeOK

LEMMA RemoveFileKept ==
  ASSUME SInv, NEW p \in Caller, RemoveFile(p)
  PROVE  Kept'
<1>1. StoreTypeOK /\ CallOK(p) /\ to[p] \in Backend
  BY SplitType DEF SInv, RemoveFile, CallInv, CallOK
<1>2. copies' \in [Backend -> SUBSET (Key \X (0..MaxWrites))]
  BY <1>1, DropType DEF RemoveFile, StoreTypeOK
<1>3. faults' \in 0..MaxFaults  BY <1>1, FaultsType DEF RemoveFile
<1>4. CASE Goto(p, "setRouter") /\ Stay /\ UNCHANGED disturbed
  BY <1>1, <1>2, <1>3, <1>4, GoOn DEF RemoveFile, Stay, PCs, Kept, StoreTypeOK
<1>5. CASE Fail(p)
  BY <1>2, <1>3, <1>5, GoHome DEF RemoveFile, Fail, Kept
<1> QED  BY <1>4, <1>5 DEF RemoveFile

-----------------------------------------------------------------------------
\* The actions that change an index.

LEMMA IndexTypes ==
  ASSUME IndexTypeOK
  PROVE  /\ data \in [Ix -> Doc] /\ file \in [Ix -> Doc \cup {Empty, Garbled}]
         /\ stage \in [Caller -> {"none", "marshal"} \cup Writing]
         /\ work \in [Caller -> (Ix \X Key) \cup {NoWork}] /\ snap \in [Caller -> Doc]
  BY DEF IndexTypeOK

LEMMA SetKept ==
  ASSUME SInv, NEW p \in Caller, NEW x \in Ix, NEW v \in Ref \cup {NoRef},
         Put(p, x, chunk[p], v),
         x = Router => v \in Backend \cup {NoRef},
         NEW s \in {"saveRef", "saveRouter"}, Goto(p, s), Stay,
         pc[p] \in {"setRef", "setRouter"}, s = "saveRef" => pc[p] = "setRef",
         UNCHANGED <<copies, disturbed, faults>>, Apart
  PROVE  Kept'
<1>1. StoreTypeOK /\ IndexTypeOK /\ chunk[p] \in Key /\ CallOK(p) /\ to[p] \in Backend
  BY SplitType, BusyFacts DEF SInv, CallInv, CallOK
<1>2. /\ pc' \in [Caller -> PCs] /\ pc'[p] = s
      /\ \A q \in Caller : q # p => pc'[q] = pc[q]
      /\ UNCHANGED <<doing, chunk, to, old, id, contested>>
  BY <1>1, GoType DEF PCs
<1>3. /\ stage'[p] = "marshal" /\ work'[p] = <<x, chunk[p]>>
      /\ \A q \in Caller : q # p => stage'[q] = stage[q] /\ work'[q] = work[q]
      /\ UNCHANGED <<file, snap>>
  BY <1>1, IndexTypes DEF Put
<1>4. StoreTypeOK'
  BY <1>1, <1>2 DEF StoreTypeOK, Apart, Busy
<1>5. ASSUME NEW q \in Caller PROVE CallOK(q)'
  <2>1. CallOK(q)  BY DEF SInv, CallInv
  <2>2. CASE q # p
    BY <1>2, <1>3, <2>1, <2>2, OtherCall DEF Apart
  <2>3. CASE q = p
    BY <1>1, <1>2, <1>3, <2>3 DEF CallOK, Busy, Local, Apart
  <2> QED  BY <2>2, <2>3
<1>6. RouterDoc(data'[Router])
  <2>1. \A k \in Key : data'[Router][k] = data[Router][k] \/ (x = Router /\ data'[Router][k] = v)
    BY <1>1, RouterIx, IndexTypes DEF Put, Doc
  <2> QED  BY <2>1 DEF RouterDoc, SInv, RouterOK
<1>7. \A q \in Caller : stage'[q] \in Writing /\ work'[q][1] = Router => RouterDoc(snap'[q])
  <2>1. "marshal" \notin Writing  BY DEF Writing
  <2> QED  BY <1>3, <2>1 DEF SInv, RouterOK
<1>8. RouterOK'
  BY <1>3, <1>6, <1>7 DEF SInv, RouterOK, RouterDoc, Writing
<1> QED  BY <1>4, <1>5, <1>8 DEF Kept, CallInv

LEMMA SetRefKept ==
  ASSUME SInv, NEW p \in Caller, SetRef(p)
  PROVE  Kept'
<1>1. CallOK(p) /\ to[p] \in Backend /\ ~Local(to[p])
  BY DEF SInv, SetRef, CallInv, CallOK
<1>2. to[p] \in Ix /\ to[p] # Router
  BY <1>1, RouterIx, StoreAssumption
<1>3. (IF doing[p] = "write" THEN id[p] ELSE NoRef) \in Ref \cup {NoRef}
  BY <1>1, RefFacts DEF CallOK
<1> QED  BY <1>2, <1>3, SetKept DEF SetRef

LEMMA SetRouterKept ==
  ASSUME SInv, NEW p \in Caller, SetRouter(p)
  PROVE  Kept'
<1>1. to[p] \in Backend
  BY DEF SInv, SetRouter, CallInv, CallOK
<1>2. (IF doing[p] = "write" THEN to[p] ELSE NoRef) \in Backend \cup {NoRef}
  BY <1>1
<1> QED  BY <1>1, <1>2, SetKept, RefFacts, RouterIx DEF SetRouter

LEMMA SaveKept ==
  ASSUME SInv, NEW p \in Caller, Save(p)
  PROVE  Kept'
<1>1. StoreTypeOK /\ IndexTypeOK  BY SplitType DEF SInv
<1>2. /\ stage[p] # "none" /\ stage'[p] \in Writing /\ UNCHANGED <<data, work>>
      /\ \A q \in Caller : q # p => stage'[q] = stage[q]
      /\ UNCHANGED <<copies, callVars, contested, disturbed, faults>> /\ Apart
  BY <1>1, IndexTypes DEF Save, Marshal, OpenFile, Writing
<1>3. StoreTypeOK'
  BY <1>1, <1>2 DEF StoreTypeOK, Apart, Busy, callVars
<1>4. ASSUME NEW q \in Caller PROVE CallOK(q)'
  <2>1. CallOK(q)  BY DEF SInv, CallInv
  <2>2. stage'[q] = "none" <=> stage[q] = "none"  BY <1>2 DEF Writing
  <2> QED  BY <1>2, <2>1, <2>2 DEF CallOK, Busy, Local, Apart, callVars
<1>5. RouterOK'
  <2>1. RouterDoc(data'[Router])  BY <1>2 DEF SInv, RouterOK
  <2>2. file'[Router] \in Doc => RouterDoc(file'[Router])
    <3>1. file'[Router] = file[Router] \/ file'[Router] = Empty
      BY <1>1, IndexTypes, RouterIx DEF Save, Marshal, OpenFile
    <3> QED  BY <3>1, IndexAssumption DEF SInv, RouterOK
  <2>3. ASSUME NEW q \in Caller, stage'[q] \in Writing, work'[q][1] = Router
        PROVE  RouterDoc(snap'[q])
    <3>1. CASE q = p /\ Marshal(p)
      <4>1. snap'[q] = data[Router]  BY <1>1, <1>2, <2>3, <3>1, IndexTypes DEF Marshal
      <4> QED  BY <4>1 DEF SInv, RouterOK
    <3>2. CASE q = p /\ OpenFile(p)
      BY <1>2, <2>3, <3>2 DEF OpenFile, SInv, RouterOK, Writing
    <3>3. CASE q # p
      <4>1. snap'[q] = snap[q]  BY <1>1, <3>3, IndexTypes DEF Save, Marshal, OpenFile
      <4> QED  BY <1>2, <2>3, <3>3, <4>1 DEF SInv, RouterOK
    <3> QED  BY <3>1, <3>2, <3>3 DEF Save
  <2> QED  BY <2>1, <2>2, <2>3 DEF RouterOK, RouterDoc, Writing
<1> QED  BY <1>3, <1>4, <1>5 DEF Kept, CallInv

\* The end of a Save.
LEMMA EndFacts ==
  ASSUME SInv, NEW p \in Caller, Fill(p) \/ SaveFails(p)
  PROVE  /\ stage[p] \in Writing /\ pc[p] \in {"saveRef", "saveRouter"}
         /\ stage'[p] = "none" /\ UNCHANGED data
         /\ \A q \in Caller : q # p => stage'[q] = stage[q] /\ work'[q] = work[q] /\ snap'[q] = snap[q]
<1>1. IndexTypeOK /\ CallOK(p)  BY SplitType DEF SInv, CallInv
<1>2. stage[p] \in Writing /\ Finish(p) /\ UNCHANGED data  BY DEF Fill, SaveFails, Writing
<1>3. pc[p] \in {"saveRef", "saveRouter"}  BY <1>1, <1>2 DEF CallOK, Writing
<1> QED  BY <1>1, <1>2, <1>3, IndexTypes DEF Finish

LEMMA EndRouter ==
  ASSUME SInv, NEW p \in Caller, Fill(p) \/ SaveFails(p)
  PROVE  RouterOK'
<1>1. IndexTypeOK  BY SplitType DEF SInv
<1>2. RouterDoc(data'[Router])  BY EndFacts DEF SInv, RouterOK
<1>3. file'[Router] \in Doc => RouterDoc(file'[Router])
  <2>1. CASE work[p][1] = Router /\ Fill(p)
    <3>1. RouterDoc(snap[p])  BY <2>1, EndFacts DEF SInv, RouterOK
    <3>2. file'[Router] \in {snap[p], Garbled}
      BY <1>1, <2>1, IndexTypes, RouterIx DEF Fill, Overlay
    <3> QED  BY <3>1, <3>2, IndexAssumption
  <2>2. CASE ~(work[p][1] = Router /\ Fill(p))
    <3>1. file'[Router] = file[Router] \/ file'[Router] = Garbled
      BY <1>1, <2>2, IndexTypes, RouterIx DEF Fill, SaveFails
    <3> QED  BY <3>1, IndexAssumption DEF SInv, RouterOK
  <2> QED  BY <2>1, <2>2
<1>4. \A q \in Caller : stage'[q] \in Writing /\ work'[q][1] = Router => RouterDoc(snap'[q])
  <2>1. "none" \notin Writing  BY DEF Writing
  <2> QED  BY <2>1, EndFacts DEF SInv, RouterOK
<1> QED  BY <1>2, <1>3, <1>4 DEF RouterOK, RouterDoc, Writing

LEMMA EndHome ==
  ASSUME SInv, NEW p \in Caller, Fill(p) \/ SaveFails(p),
         NEW r \in {"ok", "failed"}, Return(p, r), Apart,
         UNCHANGED copies, UNCHANGED disturbed \/ Disturb({chunk[p]}),
         faults' \in 0..MaxFaults
  PROVE  Kept'
<1>1. StoreTypeOK  BY SplitType DEF SInv
<1>2. /\ doing' \in [Caller -> {"none", "write", "delete", "ok", "failed"}]
      /\ chunk' \in [Caller -> Key \cup {NoKey}]
      /\ pc' \in [Caller -> PCs]
      /\ to' \in [Caller -> Backend \cup {NoBackend}]
      /\ old' \in [Caller -> Ref \cup {NoRef}]
      /\ id' \in [Caller -> 0..MaxWrites]
      /\ contested' \subseteq Caller
      /\ \A q \in Caller : Busy(q)' <=> chunk'[q] # NoKey
  BY <1>1, ReturnType
<1>3. /\ doing'[p] = r /\ pc'[p] = "idle"
      /\ \A q \in Caller : q # p => /\ doing'[q] = doing[q] /\ chunk'[q] = chunk[q]
                                    /\ pc'[q] = pc[q] /\ to'[q] = to[q] /\ id'[q] = id[q]
  BY <1>1, ReturnType
<1>4. disturbed' \subseteq Key
  <2>1. chunk[p] \in Key  BY EndFacts, BusyFacts
  <2> QED  BY <1>1, <2>1 DEF StoreTypeOK, Disturb
<1>5. StoreTypeOK'  BY <1>1, <1>2, <1>4 DEF StoreTypeOK, Apart
<1>6. ASSUME NEW q \in Caller PROVE CallOK(q)'
  <2>1. CallOK(q)  BY DEF SInv, CallInv
  <2>2. CASE q # p
    BY <1>3, <2>1, <2>2, EndFacts, OtherCall DEF Apart
  <2>3. CASE q = p
    BY <1>3, <2>3, EndFacts DEF CallOK, Busy
  <2> QED  BY <2>2, <2>3
<1> QED  BY <1>5, <1>6, EndRouter DEF CallInv, Kept

LEMMA SavedKept ==
  ASSUME SInv, NEW p \in Caller, Saved(p)
  PROVE  Kept'
<1>1. StoreTypeOK /\ CallOK(p) /\ Fill(p)  BY SplitType DEF SInv, CallInv, Saved
<1>2. faults' \in 0..MaxFaults /\ UNCHANGED copies /\ Apart  BY <1>1 DEF Saved, StoreTypeOK
<1>3. CASE Succeed(p)  BY <1>1, <1>2, <1>3, EndHome DEF Succeed
<1>4. CASE pc[p] = "saveRef" /\ Goto(p, "setRouter") /\ Stay /\ UNCHANGED disturbed
  <2>1. /\ pc' \in [Caller -> PCs] /\ pc'[p] = "setRouter"
        /\ \A q \in Caller : q # p => pc'[q] = pc[q]
        /\ UNCHANGED <<doing, chunk, to, old, id, contested>>
    BY <1>1, <1>4, GoType DEF PCs
  <2>2. StoreTypeOK'  BY <1>1, <1>2, <1>4, <2>1 DEF StoreTypeOK, Apart, Busy
  <2>3. ASSUME NEW q \in Caller PROVE CallOK(q)'
    <3>1. CallOK(q)  BY DEF SInv, CallInv
    <3>2. CASE q # p
      BY <1>1, <1>2, <2>1, <3>1, <3>2, EndFacts, OtherCall DEF Apart
    <3>3. CASE q = p
      <4>1. stage'[p] = "none"  BY <1>1, EndFacts
      <4> QED  BY <1>1, <1>2, <1>4, <2>1, <3>3, <4>1 DEF CallOK, Busy, Local, Apart
    <3> QED  BY <3>2, <3>3
  <2> QED  BY <1>1, <2>2, <2>3, EndRouter DEF CallInv, Kept
<1> QED  BY <1>3, <1>4 DEF Saved

LEMMA NotSavedKept ==
  ASSUME SInv, NEW p \in Caller, NotSaved(p)
  PROVE  Kept'
<1>1. StoreTypeOK  BY SplitType DEF SInv
<1>2. faults' \in 0..MaxFaults  BY <1>1, FaultsType DEF NotSaved
<1> QED  BY <1>2, EndHome DEF NotSaved, Fail

LEMMA CrashKept == ASSUME SInv, Crash PROVE Kept'
<1>1. StoreTypeOK /\ IndexTypeOK  BY SplitType DEF SInv
<1>2. faults' \in 0..MaxFaults  BY <1>1, FaultsType DEF Crash
<1>3. {chunk[p] : p \in {q \in Caller : Busy(q)}} \subseteq Key
  BY <1>1 DEF StoreTypeOK
<1>4. mounted' \in BOOLEAN /\ damaged' \in BOOLEAN  BY <1>1 DEF Crash, Loadable, StoreTypeOK
<1>5. \A q \in Caller : Busy(q)' <=> chunk'[q] # NoKey  BY DEF Crash, Busy
<1>6. disturbed' \subseteq Key  BY <1>1, <1>3 DEF Crash, Disturb, StoreTypeOK
<1>7. StoreTypeOK'
  BY <1>1, <1>2, <1>4, <1>5, <1>6, StoreAssumption DEF Crash, StoreTypeOK, PCs
<1>8. \A q \in Caller : CallOK(q)'
  BY DEF Crash, Reload, CallOK, Busy
<1>9. RouterOK'
  <2>1. RouterDoc(Blank)  BY DEF RouterDoc, Blank
  <2>2. RouterDoc(data'[Router])
    BY <2>1, RouterIx DEF Crash, Reload, SInv, RouterOK
  <2>3. file'[Router] \in Doc => RouterDoc(file'[Router])
    BY DEF Crash, Reload, SInv, RouterOK
  <2>4. \A q \in Caller : stage'[q] \notin Writing  BY DEF Crash, Reload, Writing
  <2> QED  BY <2>2, <2>3, <2>4 DEF RouterOK, RouterDoc, Writing
<1> QED  BY <1>7, <1>8, <1>9 DEF CallInv, Kept

-----------------------------------------------------------------------------
\* Every step is one step of Index, or leaves the indexes alone.

LEMMA StepIsIndexStep == SInv /\ [Next]_vars => [IndexNext]_indexVars
<1> SUFFICES ASSUME SInv, [Next]_vars PROVE IndexNext \/ UNCHANGED indexVars
  OBVIOUS
<1>1. ASSUME NEW p \in Caller, SetRef(p) PROVE IndexNext
  <2>1. CallOK(p) /\ to[p] \in Backend /\ ~Local(to[p]) /\ chunk[p] \in Key
    BY <1>1, BusyFacts DEF SInv, SetRef, CallInv, CallOK
  <2>2. to[p] \in Ix  BY <2>1, RouterIx
  <2>3. (IF doing[p] = "write" THEN id[p] ELSE NoRef) \in Ref \cup {NoRef}
    BY <2>1, RefFacts DEF CallOK
  <2> QED  BY <1>1, <2>1, <2>2, <2>3 DEF SetRef, IndexNext
<1>2. ASSUME NEW p \in Caller, SetRouter(p) PROVE IndexNext
  <2>1. to[p] \in Backend /\ chunk[p] \in Key
    BY <1>2, BusyFacts DEF SInv, SetRouter, CallInv, CallOK
  <2>2. (IF doing[p] = "write" THEN to[p] ELSE NoRef) \in Ref \cup {NoRef}
    BY <2>1, RefFacts
  <2> QED  BY <1>2, <2>1, <2>2, RouterIx DEF SetRouter, IndexNext
<1>3. ASSUME NEW p \in Caller, Step(p) PROVE IndexNext \/ UNCHANGED indexVars
  <2>1. CASE Save(p) \/ Saved(p) \/ NotSaved(p)
    BY <2>1 DEF Save, Saved, NotSaved, IndexNext
  <2>2. CASE Pick(p) \/ DeleteOld(p) \/ Upload(p) \/ Truncate(p) \/ FillCopy(p)
    BY <2>2 DEF Pick, DeleteOld, Upload, Truncate, FillCopy
  <2>3. CASE Lookup(p) \/ RemoveAsset(p) \/ RemoveEntry(p) \/ RemoveFile(p)
    BY <2>3 DEF Lookup, RemoveAsset, RemoveEntry, RemoveFile
  <2> QED  BY <1>1, <1>2, <1>3, <2>1, <2>2, <2>3 DEF Step
<1>4. CASE Crash  BY <1>4 DEF Crash, IndexNext
<1>5. ASSUME NEW p \in Caller, NEW d \in Does[p], NEW c \in Key, Begin(p, d, c)
      PROVE  UNCHANGED indexVars
  BY <1>5 DEF Begin
<1> QED  BY <1>3, <1>4, <1>5 DEF Next, vars

LEMMA StepKept ==
  ASSUME SInv, NEW p \in Caller, Step(p)
  PROVE  Kept'
<1>1. CASE Pick(p) \/ DeleteOld(p) \/ Upload(p) \/ Truncate(p) \/ FillCopy(p)
  BY <1>1, PickKept, DeleteOldKept, UploadKept, TruncateKept, FillCopyKept
<1>2. CASE Lookup(p) \/ RemoveAsset(p) \/ RemoveEntry(p) \/ RemoveFile(p)
  BY <1>2, LookupKept, RemoveAssetKept, RemoveEntryKept, RemoveFileKept
<1>3. CASE SetRef(p) \/ SetRouter(p) \/ Save(p) \/ Saved(p) \/ NotSaved(p)
  BY <1>3, SetRefKept, SetRouterKept, SaveKept, SavedKept, NotSavedKept
<1> QED  BY <1>1, <1>2, <1>3 DEF Step

LEMMA NextSInv == SInv /\ [Next]_vars => SInv'
<1> SUFFICES ASSUME SInv, [Next]_vars PROVE SInv'
  OBVIOUS
<1>1. IInv'
  BY StepIsIndexStep, NextIInv, SplitType DEF SInv, IInv
<1>2. Kept'
  <2>1. CASE Crash  BY <2>1, CrashKept
  <2>2. ASSUME NEW p \in Caller, NEW d \in Does[p], NEW c \in Key, Begin(p, d, c) PROVE Kept'
    <3>1. d \in {"write", "delete"}  BY StoreAssumption
    <3> QED  BY <2>2, <3>1, BeginKept
  <2>3. CASE UNCHANGED vars
    <3>1. UNCHANGED <<indexVars, copies, callVars, mounted, writes, ghostVars, faults>>
      BY <2>3 DEF vars
    <3>2. StoreTypeOK'
      BY <3>1, SplitType DEF SInv, StoreTypeOK, callVars, ghostVars, Busy
    <3>3. \A q \in Caller : CallOK(q)'
      BY <3>1, OtherCall DEF SInv, CallInv, callVars, indexVars
    <3> QED  BY <3>1, <3>2, <3>3, SameRouter DEF SInv, Kept, CallInv
  <2> QED  BY <2>1, <2>2, <2>3, StepKept DEF Next
<1> QED
  <2>1. IndexTypeOK' /\ IndexInv'  BY <1>1 DEF IInv
  <2>2. TypeOK'  BY <1>2, <2>1 DEF Kept, TypeOK, IndexTypeOK, StoreTypeOK, PCs
  <2> QED  BY <1>2, <2>1, <2>2 DEF SInv, Kept

LEMMA InitSInv == Init => SInv
<1> SUFFICES ASSUME Init PROVE SInv
  OBVIOUS
<1>1. IndexTypeOK /\ IndexInv  BY InitIInv DEF Init, IInv
<1>2. StoreTypeOK
  <2>1. /\ copies \in [Backend -> SUBSET (Key \X (0..MaxWrites))]
        /\ id \in [Caller -> 0..MaxWrites] /\ writes \in 0..MaxWrites /\ faults \in 0..MaxFaults
    BY StoreAssumption DEF Init
  <2>2. /\ doing \in [Caller -> {"none", "write", "delete", "ok", "failed"}]
        /\ chunk \in [Caller -> Key \cup {NoKey}] /\ pc \in [Caller -> PCs]
        /\ to \in [Caller -> Backend \cup {NoBackend}] /\ old \in [Caller -> Ref \cup {NoRef}]
    BY DEF Init, PCs
  <2>3. \A p \in Caller : Busy(p) <=> chunk[p] # NoKey  BY DEF Init, Busy
  <2> QED  BY <2>1, <2>2, <2>3 DEF Init, StoreTypeOK
<1>3. CallInv  BY DEF Init, IndexInit, CallInv, CallOK, Busy
<1>4. RouterOK
  BY RouterIx DEF Init, IndexInit, RouterOK, RouterDoc, Blank, Writing
<1> QED  BY <1>1, <1>2, <1>3, <1>4, SplitType DEF SInv

LEMMA StoreInvariance == Spec => []SInv
  BY InitSInv, NextSInv, PTL DEF Spec

\* The calls, the copies and the indexes keep their types, whatever fails and however
\* often the process is restarted: what a restart loads is always a map again.
THEOREM StoreTypeCorrect == Spec => []TypeOK
<1>1. SInv => TypeOK  BY DEF SInv
<1> QED  BY <1>1, StoreInvariance, PTL

\* The router and the backends use their indexes as Index has it, so that what is
\* proved of an index holds of each of theirs.
THEOREM StoreUsesIndexes == Spec => IndexSpec
<1>1. Init => IndexInit  BY DEF Init
<1> QED  BY <1>1, StoreInvariance, StepIsIndexStep, PTL DEF Spec, IndexSpec

\* In particular each file holds its index, see FileHoldsIndexCorrect.
THEOREM StoreFilesCorrect == Spec => []FileHoldsIndex
  BY StoreUsesIndexes, FileHoldsIndexCorrect, PTL

-----------------------------------------------------------------------------
\* A step of p touches the entries and copies of its own chunk only.

SameAt(c) ==
    /\ \A x \in Ix : data'[x][c] = data[x][c]
    /\ \A b \in Backend, n \in 0..MaxWrites : <<c, n>> \in copies'[b] <=> <<c, n>> \in copies[b]

Away(p) == \A c \in Key : c # chunk[p] => SameAt(c)

\* A delete adds nothing anywhere.
Lessens ==
    /\ \A x \in Ix, c \in Key : data'[x][c] \in {data[x][c], NoRef}
    /\ \A b \in Backend : copies'[b] \subseteq copies[b]

LEMMA PutAway ==
  ASSUME SInv, NEW p \in Caller, NEW x \in Ix, NEW v, Put(p, x, chunk[p], v)
  PROVE  \A y \in Ix, c \in Key :
            data'[y][c] = IF y = x /\ c = chunk[p] THEN v ELSE data[y][c]
<1>1. data \in [Ix -> Doc]  BY SplitType, IndexTypes DEF SInv
<1> QED  BY <1>1 DEF Put, Doc

LEMMA CopyAway ==
  ASSUME SInv, NEW p \in Caller, NEW b \in Backend, NEW m,
         \/ AddCopy(b, <<chunk[p], m>>)
         \/ DropCopy(b, <<chunk[p], m>>)
         \/ UNCHANGED copies
  PROVE  /\ \A c \in Key : c # chunk[p] =>
               \A a \in Backend, n \in 0..MaxWrites : <<c, n>> \in copies'[a] <=> <<c, n>> \in copies[a]
         /\ DropCopy(b, <<chunk[p], m>>) \/ UNCHANGED copies =>
               \A a \in Backend : copies'[a] \subseteq copies[a]
<1>1. copies \in [Backend -> SUBSET (Key \X (0..MaxWrites))]  BY SplitType DEF SInv, StoreTypeOK
<1>2. \A c \in Key, n \in 0..MaxWrites : c # chunk[p] => <<c, n>> # <<chunk[p], m>>
  OBVIOUS
<1> QED  BY <1>1, <1>2 DEF AddCopy, DropCopy

LEMMA StepAway ==
  ASSUME SInv, NEW p \in Caller, Step(p)
  PROVE  /\ Away(p) /\ UNCHANGED <<mounted, damaged>>
         /\ doing[p] = "delete" => Lessens
<1>1. CallOK(p) /\ data \in [Ix -> Doc]  BY SplitType, IndexTypes DEF SInv, CallInv
<1>2. CASE Pick(p) \/ Lookup(p) \/ RemoveEntry(p)
  BY <1>2 DEF Pick, Lookup, RemoveEntry, Away, SameAt, Lessens, Apart, indexVars
<1>3. CASE DeleteOld(p)
  <2>1. to[p] \in Backend  BY <1>1, <1>3 DEF CallOK, DeleteOld
  <2> QED  BY <1>1, <1>3, <2>1, CopyAway DEF DeleteOld, Away, SameAt, Lessens, Apart, indexVars, CallOK
<1>4. CASE Upload(p)
  <2>1. to[p] \in Backend /\ doing[p] = "write"  BY <1>1, <1>4 DEF CallOK, Upload
  <2> QED  BY <1>4, <2>1, CopyAway DEF Upload, Away, SameAt, Apart, indexVars
<1>5. CASE Truncate(p)
  <2>1. to[p] \in Backend /\ doing[p] = "write"  BY <1>1, <1>5 DEF CallOK, Truncate
  <2> QED  BY <1>5, <2>1, CopyAway DEF Truncate, Away, SameAt, Apart, indexVars
<1>6. CASE FillCopy(p)
  <2>1. to[p] \in Backend /\ doing[p] = "write"  BY <1>1, <1>6 DEF CallOK, FillCopy
  <2> QED  BY <1>6, <2>1, CopyAway DEF FillCopy, Away, SameAt, Apart, indexVars
<1>7. CASE RemoveAsset(p)
  <2>1. to[p] \in Backend  BY <1>1, <1>7 DEF CallOK, RemoveAsset
  <2>2. DropCopy(to[p], <<chunk[p], old[p]>>) \/ UNCHANGED copies  BY <1>7 DEF RemoveAsset
  <2> QED  BY <1>7, <2>1, <2>2, CopyAway DEF RemoveAsset, Away, SameAt, Lessens, Apart, indexVars
<1>8. CASE RemoveFile(p)
  <2>1. to[p] \in Backend  BY <1>1, <1>8 DEF CallOK, RemoveFile
  <2>2. DropCopy(to[p], <<chunk[p], 0>>) \/ UNCHANGED copies  BY <1>8 DEF RemoveFile
  <2> QED  BY <1>8, <2>1, <2>2, CopyAway DEF RemoveFile, Away, SameAt, Lessens, Apart, indexVars
<1>9. CASE SetRef(p)
  <2>1. to[p] \in Ix  BY <1>1, <1>9, RouterIx DEF CallOK, SetRef
  <2> PICK v : v = IF doing[p] = "write" THEN id[p] ELSE NoRef  OBVIOUS
  <2> PICK x \in Ix : x = to[p]  BY <2>1
  <2>2. Put(p, x, chunk[p], v)  BY <1>9 DEF SetRef
  <2>3. \A y \in Ix, c \in Key :
           data'[y][c] = IF y = x /\ c = chunk[p] THEN v ELSE data[y][c]
    BY <1>1, <2>2 DEF Put, Doc
  <2>4. UNCHANGED <<copies, mounted, damaged>>  BY <1>9 DEF SetRef, Apart
  <2>5. Away(p)  BY <2>3, <2>4 DEF Away, SameAt
  <2>6. ASSUME doing[p] = "delete" PROVE Lessens
    <3>1. \A y \in Ix, c \in Key :
             data'[y][c] = IF y = x /\ c = chunk[p] THEN NoRef ELSE data[y][c]
      BY <2>3, <2>6
    <3> QED  BY <3>1, <2>4 DEF Lessens
  <2> QED  BY <2>4, <2>5, <2>6
<1>10. CASE SetRouter(p)
  BY <1>10, PutAway, RouterIx DEF SetRouter, Away, SameAt, Lessens, Apart
<1>11. CASE Save(p) \/ Saved(p) \/ NotSaved(p)
  BY <1>11
  DEF Save, Saved, NotSaved, Marshal, OpenFile, Fill, SaveFails, Away, SameAt, Lessens, Apart
<1> QED
  BY <1>2, <1>3, <1>4, <1>5, <1>6, <1>7, <1>8, <1>9, <1>10, <1>11 DEF Step

LEMMA HoldsSame ==
  ASSUME SInv, SInv', NEW c \in Key, SameAt(c), NEW b \in Backend
  PROVE  Holds(b, c)' <=> Holds(b, c)
<1>1. CASE Local(b)
  <2>1. 0 \in 0..MaxWrites  BY StoreAssumption
  <2> QED  BY <1>1, <2>1 DEF SameAt, Holds, Local
<1>2. CASE ~Local(b)
  <2>1. b \in Ix /\ data'[b][c] = data[b][c]  BY <1>2, RouterIx DEF SameAt
  <2>2. /\ copies[b] \subseteq (Key \X (0..MaxWrites))
        /\ copies'[b] \subseteq (Key \X (0..MaxWrites))
    BY DEF SInv, TypeOK
  <2>3. \A n \in 0..MaxWrites : <<c, n>> \in copies'[b] <=> <<c, n>> \in copies[b]  BY DEF SameAt
  <2>4. \A v : <<c, v>> \in copies'[b] <=> <<c, v>> \in copies[b]
    BY <2>2, <2>3
  <2> QED  BY <1>2, <2>1, <2>4 DEF Holds, Local
<1> QED  BY <1>1, <1>2

LEMMA ReadableSame ==
  ASSUME SInv, SInv', NEW c \in Key, SameAt(c), mounted' = mounted
  PROVE  Readable(c)' <=> Readable(c)
<1>1. data'[Router][c] = data[Router][c] /\ data[Router][c] \in Backend \cup {NoRef}
  BY RouterIx DEF SameAt, SInv, RouterOK, RouterDoc
<1>2. CASE data[Router][c] = NoRef  BY <1>1, <1>2 DEF Readable
<1>3. CASE data[Router][c] \in Backend
  <2>1. Holds(data[Router][c], c)' <=> Holds(data[Router][c], c)
    <3> DEFINE b == data[Router][c]
    <3>1. Holds(b, c)' <=> Holds(b, c)
      <4> PICK a \in Backend : a = data[Router][c]  BY <1>3
      <4>1. Holds(a, c)' <=> Holds(a, c)  BY HoldsSame
      <4> QED  BY <4>1, <1>1 DEF Holds, Local
    <3> QED  BY <3>1
  <2> QED  BY <1>1, <2>1 DEF Readable, Holds, Local
<1> QED  BY <1>1, <1>2, <1>3

LEMMA ReadableLess ==
  ASSUME SInv, SInv', Lessens, mounted' = mounted, NEW c \in Key, Readable(c)'
  PROVE  Readable(c)
<1>1. data'[Router][c] # NoRef /\ mounted /\ Holds(data[Router][c], c)'
  BY RouterIx DEF Readable, Lessens
<1>2. data'[Router][c] = data[Router][c] /\ data[Router][c] \in Backend
  BY <1>1, RouterIx DEF Lessens, SInv, RouterOK, RouterDoc
<1> PICK b \in Backend : b = data[Router][c]  BY <1>2
<1>3. Holds(b, c)'  BY <1>1, <1>2 DEF Holds, Local
<1>4. copies'[b] \subseteq copies[b]  BY DEF Lessens
<1>5. Holds(b, c)
  <2>1. CASE Local(b)  BY <1>3, <1>4, <2>1 DEF Holds, Local
  <2>2. CASE ~Local(b)
    <3>1. b \in Ix  BY <2>2, RouterIx
    <3>2. data'[b][c] \in {data[b][c], NoRef}  BY <3>1 DEF Lessens
    <3> QED  BY <1>3, <1>4, <2>2, <3>2 DEF Holds, Local
  <2> QED  BY <2>1, <2>2
<1> QED  BY <1>1, <1>2, <1>5 DEF Readable

-----------------------------------------------------------------------------
\* What a call that no other met knows of its own chunk.

Promise(p) ==
    Busy(p) /\ p \notin contested =>
        /\ doing[p] = "write" =>
              /\ pc[p] = "setRef" => <<chunk[p], id[p]>> \in copies[to[p]]
              /\ pc[p] \in {"saveRef", "setRouter", "saveRouter"} => Holds(to[p], chunk[p])
              /\ pc[p] = "saveRouter" => data[Router][chunk[p]] = to[p]
        /\ doing[p] = "delete" /\ pc[p] = "saveRouter" => data[Router][chunk[p]] = NoRef

Meets ==
    \A p, q \in Caller :
        p # q /\ Busy(p) /\ Busy(q) /\ chunk[p] = chunk[q] => p \in contested /\ q \in contested

PInv == SInv /\ Meets /\ \A p \in Caller : Promise(p)

\* A step leaves the other calls' variables alone.
LEMMA StepOthers ==
  ASSUME SInv, NEW p \in Caller, Step(p), NEW q \in Caller, q # p
  PROVE  /\ doing'[q] = doing[q] /\ chunk'[q] = chunk[q] /\ pc'[q] = pc[q]
         /\ to'[q] = to[q] /\ id'[q] = id[q] /\ old'[q] = old[q]
         /\ q \in contested => q \in contested'
<1>1. StoreTypeOK  BY SplitType DEF SInv
<1>2. ASSUME NEW r, Return(p, r)
      PROVE  /\ doing'[q] = doing[q] /\ chunk'[q] = chunk[q] /\ pc'[q] = pc[q]
             /\ to'[q] = to[q] /\ id'[q] = id[q] /\ old'[q] = old[q]
             /\ q \in contested => q \in contested'
  BY <1>1, <1>2 DEF Return, StoreTypeOK
<1>3. ASSUME NEW s, Goto(p, s), UNCHANGED <<doing, chunk, id, contested>>, to'[q] = to[q],
             old'[q] = old[q]
      PROVE  /\ doing'[q] = doing[q] /\ chunk'[q] = chunk[q] /\ pc'[q] = pc[q]
             /\ to'[q] = to[q] /\ id'[q] = id[q] /\ old'[q] = old[q]
             /\ q \in contested => q \in contested'
  BY <1>1, <1>3 DEF Goto, StoreTypeOK
<1>4. CASE Pick(p) \/ Lookup(p)
  BY <1>1, <1>2, <1>3, <1>4 DEF Pick, Lookup, Succeed, StoreTypeOK
<1>5. CASE DeleteOld(p) \/ Upload(p) \/ Truncate(p) \/ FillCopy(p)
  BY <1>2, <1>3, <1>5 DEF DeleteOld, Upload, Truncate, FillCopy, Fail, Stay
<1>6. CASE RemoveAsset(p) \/ RemoveEntry(p) \/ RemoveFile(p)
  BY <1>2, <1>3, <1>6 DEF RemoveAsset, RemoveEntry, RemoveFile, Fail, Stay
<1>7. CASE SetRef(p) \/ SetRouter(p)
  BY <1>3, <1>7 DEF SetRef, SetRouter, Stay
<1>8. CASE Save(p) \/ Saved(p) \/ NotSaved(p)
  BY <1>2, <1>3, <1>8 DEF Save, Saved, NotSaved, Succeed, Fail, Stay, callVars
<1> QED  BY <1>4, <1>5, <1>6, <1>7, <1>8 DEF Step

\* A step ends its call or changes nothing but where it is.
LEMMA StepOwn ==
  ASSUME SInv, NEW p \in Caller, Step(p)
  PROVE  /\ Busy(p) /\ chunk[p] \in Key
         /\ \/ UNCHANGED <<doing, chunk, id, contested>>
            \/ Return(p, "ok") \/ Return(p, "failed")
<1>1. pc[p] # "idle"
  <2>1. CallOK(p)  BY DEF SInv, CallInv
  <2>2. CASE Save(p) \/ Saved(p) \/ NotSaved(p)
    BY <2>1, <2>2 DEF Save, Saved, NotSaved, Marshal, OpenFile, Fill, SaveFails, CallOK, Writing
  <2>3. CASE SetRef(p) \/ SetRouter(p)  BY <2>3 DEF SetRef, SetRouter
  <2>4. CASE RemoveAsset(p) \/ RemoveEntry(p) \/ RemoveFile(p)
    BY <2>4 DEF RemoveAsset, RemoveEntry, RemoveFile
  <2>5. CASE Pick(p) \/ Lookup(p) \/ DeleteOld(p) \/ Upload(p) \/ Truncate(p) \/ FillCopy(p)
    BY <2>5 DEF Pick, Lookup, DeleteOld, Upload, Truncate, FillCopy
  <2> QED  BY <2>2, <2>3, <2>4, <2>5 DEF Step
<1>2. Busy(p) /\ chunk[p] \in Key  BY <1>1, BusyFacts
<1>3. CASE Pick(p) \/ Lookup(p) \/ SetRef(p) \/ SetRouter(p)
  BY <1>2, <1>3 DEF Pick, Lookup, SetRef, SetRouter, Stay, Succeed
<1>4. CASE DeleteOld(p) \/ Upload(p) \/ Truncate(p) \/ FillCopy(p)
  BY <1>2, <1>4 DEF DeleteOld, Upload, Truncate, FillCopy, Fail, Stay
<1>5. CASE RemoveAsset(p) \/ RemoveEntry(p) \/ RemoveFile(p)
  BY <1>2, <1>5 DEF RemoveAsset, RemoveEntry, RemoveFile, Fail, Stay
<1>6. CASE Save(p) \/ Saved(p) \/ NotSaved(p)
  BY <1>2, <1>6 DEF Save, Saved, NotSaved, Succeed, Fail, Stay, callVars
<1> QED  BY <1>3, <1>4, <1>5, <1>6 DEF Step

LEMMA StepMeets ==
  ASSUME SInv, Meets, NEW p \in Caller, Step(p)
  PROVE  Meets'
<1>1. SUFFICES ASSUME NEW q \in Caller, NEW r \in Caller, q # r,
                      Busy(q)', Busy(r)', chunk'[q] = chunk'[r]
               PROVE  q \in contested' /\ r \in contested'
  BY DEF Meets
<1>2. CASE UNCHANGED <<doing, chunk, id, contested>>
  BY <1>1, <1>2 DEF Meets, Busy
<1>3. CASE Return(p, "ok") \/ Return(p, "failed")
  <2>1. ~Busy(p)'  BY <1>3, SplitType, ReturnType DEF SInv, Busy
  <2>2. q # p /\ r # p  BY <1>1, <2>1
  <2>3. Busy(q) /\ Busy(r) /\ chunk[q] = chunk[r]
    BY <1>1, <2>2, StepOthers DEF Busy
  <2> QED  BY <1>1, <2>2, <2>3, StepOthers DEF Meets
<1> QED  BY <1>2, <1>3, StepOwn

\* A call keeps what it knows over a step that is away from its chunk.
LEMMA PromiseKept ==
  ASSUME SInv, SInv', NEW q \in Caller, Promise(q), Busy(q)',
         doing'[q] = doing[q], chunk'[q] = chunk[q], pc'[q] = pc[q], to'[q] = to[q], id'[q] = id[q],
         q \in contested => q \in contested',
         q \notin contested' => SameAt(chunk[q])
  PROVE  Promise(q)'
<1> SUFFICES ASSUME q \notin contested' PROVE Promise(q)'
  BY DEF Promise
<1>1. Busy(q) /\ q \notin contested /\ CallOK(q) /\ chunk[q] \in Key /\ SameAt(chunk[q])
  BY DEF Busy, SInv, CallInv, TypeOK
<1>2. data'[Router][chunk[q]] = data[Router][chunk[q]]  BY <1>1, RouterIx DEF SameAt
<1>3. ASSUME doing[q] = "write", pc[q] \in {"setRef", "saveRef", "setRouter", "saveRouter"}
      PROVE  /\ to[q] \in Backend /\ id[q] \in 0..MaxWrites
             /\ <<chunk[q], id[q]>> \in copies'[to[q]] <=> <<chunk[q], id[q]>> \in copies[to[q]]
             /\ Holds(to[q], chunk[q])' <=> Holds(to[q], chunk[q])
  <2>1. to[q] \in Backend /\ id[q] \in 0..MaxWrites
    BY <1>1, <1>3 DEF CallOK, SInv, TypeOK
  <2>2. \A b \in Backend : Holds(b, chunk[q])' <=> Holds(b, chunk[q])
    <3> PICK c \in Key : c = chunk[q]  BY <1>1
    <3> TAKE b \in Backend
    <3>1. Holds(b, c)' <=> Holds(b, c)  BY <1>1, HoldsSame
    <3> QED  BY <3>1 DEF Holds, Local
  <2>3. Holds(to[q], chunk[q])' <=> Holds(to[q], chunk[q])
    <3> PICK b \in Backend : b = to[q]  BY <2>1
    <3>1. Holds(b, chunk[q])' <=> Holds(b, chunk[q])  BY <2>2
    <3> QED  BY <3>1 DEF Holds, Local
  <2> QED  BY <1>1, <2>1, <2>3 DEF SameAt
<1> QED  BY <1>1, <1>2, <1>3 DEF Promise

\* What a step of p promises of p.

LEMMA NoPromise ==
  ASSUME NEW p, pc'[p] \notin {"setRef", "saveRef", "setRouter", "saveRouter"}
  PROVE  Promise(p)'
  BY DEF Promise

LEMMA StillPromise ==
  ASSUME NEW p, Promise(p), UNCHANGED <<data, copies, callVars, contested>>
  PROVE  Promise(p)'
  BY DEF Promise, Holds, Local, Busy, callVars

LEMMA SetPromise ==
  ASSUME SInv, SInv', NEW p \in Caller, Promise(p), SetRef(p) \/ SetRouter(p)
  PROVE  Promise(p)'
<1>1. /\ CallOK(p) /\ StoreTypeOK /\ to[p] \in Backend /\ chunk[p] \in Key
      /\ UNCHANGED <<doing, chunk, to, id, contested, copies>> /\ to[p] # Router
  BY SplitType, BusyFacts, StoreAssumption DEF SInv, CallInv, CallOK, SetRef, SetRouter, Stay
<1>2. CASE SetRef(p)
  <2>1. pc'[p] = "saveRef" /\ ~Local(to[p]) /\ to[p] \in Ix
    BY <1>1, <1>2, RouterIx DEF SetRef, Goto, StoreTypeOK, CallOK
  <2>2. ASSUME doing[p] = "write" PROVE data'[to[p]][chunk[p]] = id[p] /\ id[p] # NoRef
    <3>1. Put(p, to[p], chunk[p], id[p])  BY <1>2, <2>2 DEF SetRef
    <3>2. data \in [Ix -> Doc]  BY SplitType, IndexTypes DEF SInv
    <3>3. id[p] # NoRef  BY <1>1, <2>2, RefFacts, IndexAssumption DEF CallOK
    <3> QED  BY <1>1, <2>1, <3>1, <3>2, <3>3 DEF Put, Doc
  <2> QED  BY <1>1, <1>2, <2>1, <2>2 DEF Promise, Busy, Holds, Local, SetRef
<1>3. CASE SetRouter(p)
  <2>1. pc[p] = "setRouter" /\ pc'[p] = "saveRouter" /\ data \in [Ix -> Doc]
    BY <1>1, <1>3, SplitType, IndexTypes DEF SetRouter, Goto, StoreTypeOK, SInv
  <2>2. \A b \in Backend : data'[b] = data[b]
    BY <1>3, <2>1, StoreAssumption DEF SetRouter, Put
  <2>3. Holds(to[p], chunk[p])' <=> Holds(to[p], chunk[p])
    BY <1>1, <2>2 DEF Holds, Local
  <2>4. data'[Router][chunk[p]] = IF doing[p] = "write" THEN to[p] ELSE NoRef
    BY <1>1, <1>3, <2>1, RouterIx DEF SetRouter, Put, Doc
  <2> QED  BY <1>1, <2>1, <2>3, <2>4 DEF Promise, Busy
<1> QED  BY <1>2, <1>3

LEMMA StepPromise ==
  ASSUME SInv, SInv', NEW p \in Caller, Promise(p), Step(p)
  PROVE  Promise(p)'
<1>1. CallOK(p) /\ StoreTypeOK  BY SplitType DEF SInv, CallInv
<1>2. ASSUME NEW r \in {"ok", "failed"}, Return(p, r) PROVE Promise(p)'
  BY <1>1, <1>2, ReturnType DEF Promise, Busy
<1>3. ASSUME NEW s, Goto(p, s) PROVE pc'[p] = s
  BY <1>1, <1>3 DEF Goto, StoreTypeOK
<1>4. CASE Pick(p)
  <2> PICK s \in {"truncate", "deleteOld", "upload"} : Goto(p, s)  BY <1>4 DEF Pick
  <2> QED  BY <1>3, NoPromise
<1>5. CASE DeleteOld(p)
  <2>1. CASE Goto(p, "upload")  BY <1>3, <2>1, NoPromise
  <2>2. CASE Fail(p)  BY <1>2, <2>2 DEF Fail
  <2> QED  BY <1>5, <2>1, <2>2 DEF DeleteOld
<1>6. CASE Truncate(p)
  <2>1. CASE Goto(p, "fill")  BY <1>3, <2>1, NoPromise
  <2> QED  BY <1>2, <1>6, <2>1 DEF Truncate, Fail
<1>7. CASE Lookup(p)
  <2>1. CASE Goto(p, "remove")  BY <1>3, <2>1, NoPromise
  <2> QED  BY <1>2, <1>7, <2>1 DEF Lookup, Succeed
<1>8. CASE Upload(p)
  <2>1. CASE Goto(p, "setRef") /\ Stay /\ AddCopy(to[p], <<chunk[p], id[p]>>)
    <3>1. pc'[p] = "setRef" /\ UNCHANGED <<doing, chunk, to, id>> /\ doing[p] = "write"
      BY <1>1, <1>3, <1>8, <2>1 DEF Stay, Upload, CallOK
    <3>2. to[p] \in Backend  BY <1>1, <1>8 DEF Upload, CallOK
    <3>3. <<chunk[p], id[p]>> \in copies'[to[p]]
      BY <1>1, <2>1, <3>2 DEF AddCopy, StoreTypeOK
    <3> QED  BY <3>1, <3>3 DEF Promise
  <2> QED  BY <1>2, <1>8, <2>1 DEF Upload, Fail
<1>9. CASE FillCopy(p)
  <2>1. CASE Goto(p, "setRouter") /\ Stay /\ AddCopy(to[p], <<chunk[p], 0>>)
    <3>1. pc'[p] = "setRouter" /\ UNCHANGED <<doing, chunk, to, id>> /\ doing[p] = "write"
      BY <1>1, <1>3, <1>9, <2>1 DEF Stay, FillCopy, CallOK
    <3>2. to[p] \in Backend /\ Local(to[p])  BY <1>1, <1>9 DEF FillCopy, CallOK
    <3>3. <<chunk[p], 0>> \in copies'[to[p]]
      BY <1>1, <2>1, <3>2 DEF AddCopy, StoreTypeOK
    <3> QED  BY <3>1, <3>2, <3>3 DEF Promise, Holds, Local
  <2> QED  BY <1>2, <1>9, <2>1 DEF FillCopy, Fail
<1>10. CASE RemoveAsset(p) \/ RemoveEntry(p) \/ RemoveFile(p)
  <2>1. doing[p] = "delete"  BY <1>1, <1>10 DEF RemoveAsset, RemoveEntry, RemoveFile, CallOK
  <2>2. ASSUME NEW s \in {"setRef", "setRouter"}, Goto(p, s), Stay PROVE Promise(p)'
    BY <1>3, <2>1, <2>2 DEF Promise, Stay
  <2>3. \/ \E s \in {"setRef", "setRouter"} : Goto(p, s) /\ Stay
        \/ Return(p, "failed")
    BY <1>10 DEF RemoveAsset, RemoveEntry, RemoveFile, Fail
  <2> QED  BY <1>2, <2>2, <2>3
<1>11. CASE SetRef(p) \/ SetRouter(p)  BY <1>11, SetPromise
<1>12. CASE Save(p)
  BY <1>12, StillPromise DEF Save, Marshal, OpenFile
<1>13. CASE Saved(p)
  <2>1. CASE pc[p] = "saveRef"
    <3>1. pc'[p] = "setRouter" /\ UNCHANGED <<doing, chunk, to, id, contested, data, copies>>
      BY <1>3, <1>13, <2>1 DEF Saved, Stay, Fill
    <3> QED  BY <2>1, <3>1 DEF Promise, Holds, Local, Busy
  <2> QED  BY <1>2, <1>13, <2>1 DEF Saved, Succeed
<1>14. CASE NotSaved(p)  BY <1>2, <1>14 DEF NotSaved, Fail
<1> QED
  BY <1>4, <1>5, <1>6, <1>7, <1>8, <1>9, <1>10, <1>11, <1>12, <1>13, <1>14 DEF Step

-----------------------------------------------------------------------------
\* The promises hold, and every step is one of BlobStore's.

LEMMA BeginPInv ==
  ASSUME PInv, SInv', NEW p \in Caller, NEW d \in {"write", "delete"}, NEW c \in Key, Begin(p, d, c)
  PROVE  PInv'
<1> DEFINE others == {q \in Caller : Busy(q) /\ chunk[q] = c}
<1>1. /\ StoreTypeOK /\ ~Busy(p)
      /\ contested' = IF others = {} THEN contested ELSE contested \cup others \cup {p}
  BY SplitType DEF PInv, SInv, Begin
<1>2. /\ doing'[p] = d /\ chunk'[p] = c /\ pc'[p] \in {"pick", "lookup"}
      /\ \A q \in Caller : q # p => /\ doing'[q] = doing[q] /\ chunk'[q] = chunk[q]
                                    /\ pc'[q] = pc[q] /\ id'[q] = id[q]
      /\ UNCHANGED <<to, copies, data>>
  BY <1>1 DEF Begin, StoreTypeOK, Goto, indexVars
<1>3. Meets'
  <2> SUFFICES ASSUME NEW q \in Caller, NEW r \in Caller, q # r,
                      Busy(q)', Busy(r)', chunk'[q] = chunk'[r]
               PROVE  q \in contested' /\ r \in contested'
    BY DEF Meets
  <2>1. CASE q # p /\ r # p
    BY <1>1, <1>2, <2>1 DEF Meets, Busy, PInv
  <2>2. CASE q = p
    <3>1. r \in others  BY <1>2, <2>2 DEF Busy
    <3> QED  BY <1>1, <2>2, <3>1
  <2>3. CASE r = p
    <3>1. q \in others  BY <1>2, <2>3 DEF Busy
    <3> QED  BY <1>1, <2>3, <3>1
  <2> QED  BY <2>1, <2>2, <2>3
<1>4. ASSUME NEW q \in Caller PROVE Promise(q)'
  <2>1. CASE q = p  BY <1>2, <2>1, NoPromise
  <2>2. CASE q # p
    <3>1. Promise(q) /\ (q \in contested => q \in contested')  BY <1>1 DEF PInv
    <3> QED  BY <1>2, <2>2, <3>1 DEF Promise, Holds, Local, Busy
  <2> QED  BY <2>1, <2>2
<1> QED  BY <1>3, <1>4 DEF PInv

LEMMA StepPInv ==
  ASSUME PInv, SInv', NEW p \in Caller, Step(p)
  PROVE  PInv'
<1>1. SInv /\ Meets /\ Busy(p) /\ Away(p)  BY StepOwn, StepAway DEF PInv
<1>2. ASSUME NEW q \in Caller PROVE Promise(q)'
  <2>1. CASE q = p  BY <1>1, <2>1, StepPromise DEF PInv
  <2>2. CASE q # p /\ Busy(q)'
    <3>1. /\ doing'[q] = doing[q] /\ chunk'[q] = chunk[q] /\ pc'[q] = pc[q]
          /\ to'[q] = to[q] /\ id'[q] = id[q] /\ (q \in contested => q \in contested')
      BY <1>1, <2>2, StepOthers
    <3>2. q \notin contested' => SameAt(chunk[q])
      <4>1. Busy(q) /\ chunk[q] \in Key
        BY <1>1, <2>2, <3>1 DEF Busy, SInv, TypeOK
      <4>2. q \notin contested' => chunk[q] # chunk[p]
        BY <1>1, <2>2, <3>1, <4>1 DEF Meets
      <4> QED  BY <1>1, <4>1, <4>2 DEF Away
    <3> QED  BY <1>1, <2>2, <3>1, <3>2, PromiseKept DEF PInv
  <2>3. CASE ~Busy(q)'  BY <2>3 DEF Promise
  <2> QED  BY <2>1, <2>2, <2>3
<1>3. Meets'  BY <1>1, StepMeets
<1> QED  BY <1>2, <1>3 DEF PInv

LEMMA NextPInv == PInv /\ [Next]_vars => PInv'
<1> SUFFICES ASSUME PInv, [Next]_vars PROVE PInv'
  OBVIOUS
<1>1. SInv'  BY NextSInv DEF PInv
<1>2. CASE Crash
  <2>1. \A p \in Caller : ~Busy(p)'  BY <1>2 DEF Crash, Busy
  <2> QED  BY <1>1, <2>1 DEF PInv, Promise, Meets
<1>3. ASSUME NEW p \in Caller, NEW d \in Does[p], NEW c \in Key, Begin(p, d, c) PROVE PInv'
  <2>1. d \in {"write", "delete"}  BY StoreAssumption
  <2> QED  BY <1>1, <1>3, <2>1, BeginPInv
<1>4. CASE UNCHANGED vars
  <2>1. UNCHANGED <<data, copies, callVars, contested>>  BY <1>4 DEF vars, indexVars, ghostVars
  <2>2. \A p \in Caller : Promise(p)'  BY <2>1, StillPromise DEF PInv
  <2>3. Meets'  BY <2>1 DEF PInv, Meets, Busy, callVars
  <2> QED  BY <1>1, <2>2, <2>3 DEF PInv
<1> QED  BY <1>1, <1>2, <1>3, <1>4, StepPInv DEF Next

LEMMA InitPInv == Init => PInv
  BY InitSInv DEF Init, PInv, Promise, Meets, Busy

\* A step of p is one of Change, Succeed and Fail.
LEMMA StepRefines ==
  ASSUME PInv, SInv', NEW p \in Caller, Step(p)
  PROVE  Blobs!Change(p) \/ Blobs!Succeed(p) \/ Blobs!Fail(p)
<1>1. SInv /\ Promise(p) /\ Busy(p) /\ chunk[p] \in Key /\ CallOK(p)
  BY StepOwn DEF PInv, SInv, CallInv
<1>2. /\ Away(p) /\ mounted' = mounted /\ damaged' = damaged
      /\ doing[p] = "delete" => Lessens
  BY <1>1, StepAway
<1>3. Blobs!OnlyOf(p)
  <2>1. \A c \in Key : c # chunk[p] => (Readable(c)' <=> Readable(c))
    BY <1>1, <1>2, ReadableSame DEF Away
  <2> QED  BY <2>1 DEF Blobs!OnlyOf
<1>4. doing[p] = "delete" => {c \in Key : Readable(c)}' \subseteq {c \in Key : Readable(c)}
  BY <1>1, <1>2, ReadableLess
<1>5. CASE UNCHANGED <<doing, chunk, id, contested>>
  BY <1>1, <1>2, <1>3, <1>4, <1>5 DEF Blobs!Change, Blobs!Busy, Busy
<1>6. CASE Return(p, "failed")
  BY <1>1, <1>2, <1>3, <1>4, <1>6 DEF Blobs!Fail, Blobs!End, Blobs!Busy, Busy, Return
<1>7. CASE Return(p, "ok")
  <2>1. (Lookup(p) /\ data[Router][chunk[p]] = NoRef) \/ (Saved(p) /\ pc[p] = "saveRouter")
    <3>1. doing'[p] = "ok" /\ doing[p] # "ok"
      BY <1>1, <1>7, SplitType, ReturnType DEF SInv, Busy
    <3>2. CASE Pick(p) \/ SetRef(p) \/ SetRouter(p) \/ Save(p) \/ RemoveEntry(p)
      BY <3>1, <3>2 DEF Pick, SetRef, SetRouter, Save, RemoveEntry, Stay, callVars
    <3>3. ASSUME Stay \/ Fail(p) PROVE FALSE
      <4>1. Return(p, "failed") => doing'[p] = "failed"
        BY <1>1, SplitType, ReturnType DEF SInv
      <4> QED  BY <3>1, <3>3, <4>1 DEF Stay, Fail
    <3>4. CASE \/ DeleteOld(p) \/ Upload(p) \/ Truncate(p) \/ FillCopy(p) \/ RemoveAsset(p)
               \/ RemoveFile(p) \/ NotSaved(p)
      BY <3>3, <3>4 DEF DeleteOld, Upload, Truncate, FillCopy, RemoveAsset, RemoveFile, NotSaved
    <3>5. CASE Lookup(p)
      BY <3>1, <3>5 DEF Lookup
    <3>6. CASE Saved(p)
      BY <1>1, <3>3, <3>6 DEF Saved, Fill, CallOK
    <3> QED  BY <3>2, <3>4, <3>5, <3>6 DEF Step
  <2>2. UNCHANGED <<data, copies>>  BY <2>1 DEF Lookup, Saved, Fill, indexVars
  <2>3. {c \in Key : Readable(c)}' = {c \in Key : Readable(c)}
    BY <1>2, <2>2 DEF Readable, Holds, Local
  <2>4. p \notin contested => (chunk[p] \in {c \in Key : Readable(c)} <=> doing[p] = "write")
    <3>1. CASE Lookup(p) /\ data[Router][chunk[p]] = NoRef
      BY <1>1, <3>1 DEF Lookup, CallOK, Readable
    <3>2. CASE Saved(p) /\ pc[p] = "saveRouter"
      <4>1. mounted  BY <1>1 DEF CallOK
      <4>2. p \notin contested /\ doing[p] = "write" => Readable(chunk[p])
        <5>1. to[p] # NoRef  BY <1>1, <3>2, RefFacts, IndexAssumption DEF CallOK
        <5> QED  BY <1>1, <3>2, <4>1, <5>1 DEF Promise, Readable
      <4>3. p \notin contested /\ doing[p] = "delete" => ~Readable(chunk[p])
        BY <1>1, <3>2 DEF Promise, Readable
      <4> QED  BY <1>1, <4>2, <4>3 DEF Busy
    <3> QED  BY <2>1, <3>1, <3>2
  <2> QED  BY <1>1, <1>2, <1>7, <2>3, <2>4 DEF Blobs!Succeed, Blobs!End, Blobs!Busy, Busy, Return
<1> QED  BY <1>1, <1>5, <1>6, <1>7, StepOwn

\* A chunk no call is about keeps its entries over a crash, unless an index was suspect.
LEMMA CrashSame ==
  ASSUME SInv, Crash, suspect = {}, NEW c \in Key, \A q \in Caller : ~(Busy(q) /\ chunk[q] = c)
  PROVE  SameAt(c) /\ Loadable
<1>1. ASSUME NEW x \in Ix PROVE file[x] \in Doc /\ data'[x][c] = data[x][c]
  <2>1. file[x] \in Doc /\ Behind(x, file[x], {"marshal"} \cup Writing)
    BY DEF SInv, IndexInv
  <2>2. data'[x] = file[x]  BY <2>1 DEF Crash, Reload
  <2>3. file[x][c] = data[x][c]
    <3> SUFFICES ASSUME file[x][c] # data[x][c] PROVE FALSE
      OBVIOUS
    <3> PICK q \in Caller : stage[q] \in {"marshal"} \cup Writing /\ work[q] = <<x, c>>
      BY <2>1 DEF Behind
    <3>1. CallOK(q)  BY DEF SInv, CallInv
    <3>2. stage[q] # "none" /\ work[q][2] = c  BY DEF Writing
    <3> QED  BY <3>1, <3>2 DEF CallOK
  <2> QED  BY <2>1, <2>2, <2>3
<1> QED  BY <1>1 DEF SameAt, Crash, Loadable

\* A crash spares what no call was about, unless an index was suspect: a file that is
\* not holds its index but for the changes under way.
LEMMA CrashRefines ==
  ASSUME SInv, SInv', Crash
  PROVE  Blobs!Crash
<1>1. /\ doing' = [p \in Caller |-> "none"] /\ chunk' = [p \in Caller |-> NoKey]
      /\ contested' = {} /\ (damaged => damaged') /\ (damaged' \/ suspect = {})
  BY DEF Crash
<1>2. ASSUME suspect = {}, NEW c \in Key, \A q \in Caller : ~(Busy(q) /\ chunk[q] = c)
      PROVE  Readable(c)' <=> Readable(c)
  <2>1. SameAt(c) /\ Loadable  BY <1>2, CrashSame
  <2>2. mounted' = mounted
    BY <2>1 DEF Crash, SInv, TypeOK
  <2> QED  BY <2>1, <2>2, ReadableSame
<1> QED  BY <1>1, <1>2 DEF Blobs!Crash, Blobs!Busy, Busy

LEMMA NextRefines == PInv /\ [Next]_vars => [Blobs!Next]_(Blobs!blobVars)
<1> SUFFICES ASSUME PInv, [Next]_vars PROVE [Blobs!Next]_(Blobs!blobVars)
  OBVIOUS
<1>1. SInv'  BY NextSInv DEF PInv
<1>2. CASE Crash  BY <1>1, <1>2, CrashRefines DEF PInv, Blobs!Next
<1>3. ASSUME NEW p \in Caller, Step(p) PROVE Blobs!Next
  BY <1>1, <1>3, StepRefines DEF Blobs!Next
<1>4. ASSUME NEW p \in Caller, NEW d \in Does[p], NEW c \in Key, Begin(p, d, c) PROVE Blobs!Next
  <2>1. d \in {"write", "delete"}  BY StoreAssumption
  <2>2. {e \in Key : Readable(e)}' = {e \in Key : Readable(e)}
    BY <1>4 DEF Begin, Readable, Holds, Local, indexVars
  <2>3. Blobs!Begin(p, d, c)
    BY <1>4, <2>2 DEF Begin, Blobs!Begin, Blobs!Busy, Busy
  <2> QED  BY <2>1, <2>3 DEF Blobs!Next
<1>5. CASE UNCHANGED vars
  <2>1. {e \in Key : Readable(e)}' = {e \in Key : Readable(e)}
    BY <1>5 DEF vars, Readable, Holds, Local, indexVars
  <2> QED  BY <1>5, <2>1 DEF vars, callVars, ghostVars, Blobs!blobVars
<1> QED  BY <1>2, <1>3, <1>4, <1>5 DEF Next

\* Whatever backends, limits and failures: after a write that returned nil a chunk can
\* be read, after such a delete it cannot, a call touches its own chunk only, and a
\* restart loses nothing but chunks of calls under way, unless an index was suspect.
THEOREM StoreRefinesBlobStore == Spec => ImplementsBlobStore
<1>1. Init => Blobs!Init
  <2> SUFFICES ASSUME Init PROVE Blobs!Init
    OBVIOUS
  <2>1. {e \in Key : Readable(e)} = {}
    BY RouterIx DEF Init, IndexInit, Blank, Readable
  <2> QED  BY <2>1 DEF Init, Blobs!Init
<1> QED  BY <1>1, InitPInv, NextPInv, NextRefines, PTL DEF Spec, Blobs!Spec, ImplementsBlobStore

-----------------------------------------------------------------------------
\* The copies of a chunk, while no call on it failed or met another.

\* The asset id that leads to the copy of c at b.
Asset(b, c) == IF Local(b) THEN 0 ELSE data[b][c]

None(c) == \A b \in Backend, n \in 0..MaxWrites : <<c, n>> \notin copies[b]

AtMost(c, a, m) ==
    \A b \in Backend, n \in 0..MaxWrites : <<c, n>> \in copies[b] => b = a /\ n = m

Only(c, a, m) == <<c, m>> \in copies[a] /\ AtMost(c, a, m)

Consistent(c) ==
    IF data[Router][c] = NoRef THEN None(c)
    ELSE Only(c, data[Router][c], Asset(data[Router][c], c))

\* What the call p has made of the copies of its chunk c.
Placed(p, c) ==
    /\ pc[p] \in {"pick", "lookup", "saveRouter"} => Consistent(c)
    /\ pc[p] = "deleteOld" => Kind[to[p]] = "github" /\ AtMost(c, to[p], old[p])
    /\ pc[p] = "upload" => None(c) \/ Refused(to[p], c)
    /\ pc[p] = "truncate" => AtMost(c, to[p], 0)
    /\ pc[p] = "fill" => None(c)
    /\ pc[p] = "remove" => Only(c, to[p], IF Local(to[p]) THEN 0 ELSE old[p])
    /\ doing[p] = "write" =>
          /\ pc[p] = "setRef" => Only(c, to[p], id[p])
          /\ pc[p] \in {"saveRef", "setRouter"} => Only(c, to[p], Asset(to[p], c))
    /\ doing[p] = "delete" /\ pc[p] \in {"setRef", "saveRef", "setRouter"} => None(c)

Tidy(c) ==
    /\ \A p, q \in Caller : chunk[p] = c /\ chunk[q] = c => p = q
    /\ (\A p \in Caller : chunk[p] # c) => Consistent(c)
    /\ \A p \in Caller : chunk[p] = c => Placed(p, c)

\* The remote backends number their assets from 1: no id is NoRef.
RemoteIds ==
    \A b \in Backend, c \in Key, n \in 0..MaxWrites :
        ~Local(b) /\ <<c, n>> \in copies[b] => n # NoRef

OInv == SInv /\ RemoteIds /\ (~damaged => \A c \in Key \ disturbed : Tidy(c))

LEMMA InCopies ==
  ASSUME SInv, NEW b \in Backend, NEW c, NEW n, <<c, n>> \in copies[b]
  PROVE  c \in Key /\ n \in 0..MaxWrites
  BY SplitType DEF SInv, StoreTypeOK

LEMMA ConsistentFound ==
  ASSUME SInv, NEW c \in Key, Consistent(c)
  PROVE  Copies(c) = Found(c)
<1>1. data[Router][c] \in Backend \cup {NoRef}
  BY DEF SInv, RouterOK, RouterDoc
<1>2. CASE data[Router][c] = NoRef
  <2>1. Copies(c) = {}
    BY <1>2 DEF Consistent, None, Copies
  <2> QED  BY <1>2, <2>1 DEF Found
<1>3. CASE data[Router][c] # NoRef
  <2> PICK b \in Backend : b = data[Router][c]  BY <1>1, <1>3
  <2> PICK m : m = Asset(b, c)  OBVIOUS
  <2>1. <<c, m>> \in copies[b] /\ AtMost(c, b, m)
    BY <1>3 DEF Consistent, Only
  <2>2. m \in 0..MaxWrites  BY <2>1, InCopies
  <2>3. \A a \in Backend, n \in 0..MaxWrites :
           <<a, <<c, n>>>> \in Copies(c) <=> <<a, <<c, n>>>> = <<b, <<c, m>>>>
    BY <2>1 DEF Copies, AtMost
  <2>4. ASSUME NEW at \in Copies(c)
        PROVE  \E a \in Backend, n \in 0..MaxWrites : at = <<a, <<c, n>>>>
    BY DEF Copies
  <2>5. Copies(c) = {<<b, <<c, m>>>>}
    BY <2>2, <2>3, <2>4
  <2> QED  BY <1>3, <2>5 DEF Found, Asset
<1> QED  BY <1>2, <1>3

\* A chunk that a step is away from keeps what is known of it.
LEMMA SameCopies ==
  ASSUME SInv, SInv', NEW c \in Key, SameAt(c)
  PROVE  /\ None(c)' <=> None(c)
         /\ \A b \in Backend : \A n : <<c, n>> \in copies'[b] <=> <<c, n>> \in copies[b]
         /\ \A b \in Backend : data'[Router][c] = data[Router][c]
                               /\ (~Local(b) => data'[b][c] = data[b][c])
<1>1. \A b \in Backend : \A n : <<c, n>> \in copies'[b] \cup copies[b] => n \in 0..MaxWrites
  BY DEF SInv, TypeOK
<1> QED  BY <1>1, RouterIx DEF SameAt, None

LEMMA ConsistentSame ==
  ASSUME SInv, SInv', NEW c \in Key, SameAt(c), Consistent(c)
  PROVE  Consistent(c)'
<1>1. data'[Router][c] = data[Router][c] /\ data[Router][c] \in Backend \cup {NoRef}
  BY RouterIx DEF SameAt, SInv, RouterOK, RouterDoc
<1>2. CASE data[Router][c] = NoRef
  BY <1>1, <1>2, SameCopies DEF Consistent
<1>3. CASE data[Router][c] # NoRef
  <2> PICK b \in Backend : b = data[Router][c]  BY <1>1, <1>3
  <2>1. Asset(b, c)' = Asset(b, c)  BY SameCopies DEF Asset, Local
  <2> PICK m : m = Asset(b, c)  OBVIOUS
  <2>2. Only(c, b, m)  BY <1>3 DEF Consistent
  <2>3. Only(c, b, m)'  BY <2>2, SameCopies DEF Only, AtMost
  <2>4. Only(c, data[Router][c], Asset(data[Router][c], c))'
    BY <1>1, <2>1, <2>3 DEF Only, AtMost, Asset, Local
  <2> QED  BY <1>1, <1>3, <2>4 DEF Consistent
<1> QED  BY <1>2, <1>3

LEMMA PlacedSame ==
  ASSUME SInv, SInv', NEW c \in Key, SameAt(c), NEW q \in Caller, chunk[q] = c, Placed(q, c),
         doing'[q] = doing[q], pc'[q] = pc[q], to'[q] = to[q], id'[q] = id[q], old'[q] = old[q]
  PROVE  Placed(q, c)'
<1>1. CallOK(q) /\ pc[q] # "idle"
  <2>1. Busy(q)  BY StoreAssumption DEF SInv, TypeOK
  <2> QED  BY <2>1 DEF SInv, CallInv, CallOK
<1>2. pc[q] \in {"pick", "lookup", "saveRouter"} => Consistent(c)'
  BY ConsistentSame DEF Placed
<1>3. CASE pc[q] \in {"pick", "lookup"}
  BY <1>2, <1>3 DEF Placed
<1>4. CASE pc[q] \notin {"pick", "lookup"}
  <2> PICK b \in Backend : b = to[q]  BY <1>1, <1>4 DEF CallOK
  <2>1. \A m : AtMost(c, b, m)' <=> AtMost(c, b, m)  BY SameCopies DEF AtMost
  <2>2. \A m : Only(c, b, m)' <=> Only(c, b, m)  BY <2>1, SameCopies DEF Only
  <2>3. Asset(b, c)' = Asset(b, c)  BY SameCopies DEF Asset, Local
  <2>4. Refused(b, c) => Refused(b, c)'
    <3> SUFFICES ASSUME Kind[b] = "github", NEW copy \in copies[b], copy[1] = c
                 PROVE  \E other \in copies'[b] : other[1] = c
      BY DEF Refused
    <3>1. copy = <<c, copy[2]>>  BY DEF SInv, TypeOK
    <3>2. <<c, copy[2]>> \in copies'[b]  BY <3>1, SameCopies
    <3> QED  BY <3>2
  <2>5. None(c)' <=> None(c)  BY SameCopies
  <2> QED
    BY <1>2, <1>4, <2>1, <2>2, <2>3, <2>4, <2>5
    DEF Placed, AtMost, Only, Asset, Refused, Local
<1> QED  BY <1>3, <1>4

\* One copy added where there is none, or the only one dropped.
LEMMA AddOne ==
  ASSUME SInv, NEW c \in Key, NEW b \in Backend, NEW m \in 0..MaxWrites,
         None(c), AddCopy(b, <<c, m>>)
  PROVE  Only(c, b, m)'
<1>1. copies \in [Backend -> SUBSET (Key \X (0..MaxWrites))]  BY DEF SInv, TypeOK
<1> QED  BY <1>1 DEF None, AddCopy, Only, AtMost

LEMMA DropOne ==
  ASSUME SInv, NEW c \in Key, NEW b \in Backend, NEW m,
         AtMost(c, b, m), DropCopy(b, <<c, m>>)
  PROVE  None(c)'
<1>1. copies \in [Backend -> SUBSET (Key \X (0..MaxWrites))]  BY DEF SInv, TypeOK
<1> QED  BY <1>1 DEF None, DropCopy, AtMost

LEMMA SameNone ==
  ASSUME UNCHANGED copies
  PROVE  \A c : /\ None(c)' <=> None(c)
                /\ \A a, m : Only(c, a, m)' <=> Only(c, a, m)
                /\ \A a, m : AtMost(c, a, m)' <=> AtMost(c, a, m)
                /\ \A a : Refused(a, c)' <=> Refused(a, c)
  BY DEF None, Only, AtMost, Refused

-----------------------------------------------------------------------------
\* What a step of p makes of the copies of its own chunk c.

Leaves(p, c) ==
    \/ chunk'[p] = c /\ Placed(p, c)'
    \/ chunk'[p] # c /\ Consistent(c)'

\* What p goes on to at pc s needs no more than this of the copies.
LEMMA GoLeaves ==
  ASSUME SInv, NEW p \in Caller, NEW c \in Key, chunk[p] = c, NEW s \in PCs, Goto(p, s),
         chunk' = chunk
  PROVE  pc'[p] = s /\ chunk'[p] = c
  BY SplitType DEF SInv, StoreTypeOK, Goto

LEMMA FailDisturbs ==
  ASSUME NEW p \in Caller, NEW c, chunk[p] = c, c \notin disturbed'
  PROVE  ~Fail(p) /\ ~Disturb({chunk[p]})
  BY DEF Fail, Disturb

LEMMA PickLeaves ==
  ASSUME SInv, NEW p \in Caller, NEW c \in Key, chunk[p] = c, Placed(p, c), c \notin disturbed',
         Pick(p)
  PROVE  Leaves(p, c)
<1>1. Consistent(c)  BY DEF Pick, Placed
<1>2. PICK b \in Roomiest :
         /\ to' = [to EXCEPT ![p] = b]
         /\ old' = [old EXCEPT ![p] = IF Kind[b] = "github" THEN data[b][c] ELSE NoRef]
         /\ Goto(p, IF Local(b) THEN "truncate" ELSE IF old'[p] # NoRef THEN "deleteOld" ELSE "upload")
         /\ data[Router][c] = NoRef \/ (data[Router][c] = b /\ Replaces(b))
  BY FailDisturbs DEF Pick
<1>3. b \in Backend /\ UNCHANGED <<copies, chunk, doing, data, id>>
  BY DEF Roomiest, Pick, indexVars
<1>4. to'[p] = b /\ old'[p] = IF Kind[b] = "github" THEN data[b][c] ELSE NoRef
  BY <1>2, SplitType DEF SInv, StoreTypeOK
<1>5. None(c) \/ (Replaces(b) /\ Only(c, b, Asset(b, c)))
  BY <1>1, <1>2 DEF Consistent
<1>6. CASE Local(b)
  <2>1. pc'[p] = "truncate" /\ chunk'[p] = c  BY <1>2, <1>3, <1>6, GoLeaves DEF PCs
  <2>2. AtMost(c, b, 0)  BY <1>5, <1>6 DEF Asset, Only, None, AtMost
  <2>3. AtMost(c, b, 0)'  BY <1>3, <2>2, SameNone
  <2> QED  BY <1>4, <2>1, <2>3 DEF Leaves, Placed, AtMost
<1>7. CASE ~Local(b) /\ old'[p] # NoRef
  <2>1. pc'[p] = "deleteOld" /\ chunk'[p] = c  BY <1>2, <1>3, <1>7, GoLeaves DEF PCs
  <2>2. Kind[b] = "github" /\ old'[p] = Asset(b, c)  BY <1>4, <1>7 DEF Asset
  <2> PICK m : m = Asset(b, c)  OBVIOUS
  <2>3. AtMost(c, b, m)  BY <1>5 DEF Only, None, AtMost
  <2>4. AtMost(c, b, m)'  BY <1>3, <2>3, SameNone
  <2> QED  BY <1>4, <2>1, <2>2, <2>4 DEF Leaves, Placed, AtMost
<1>8. CASE ~Local(b) /\ old'[p] = NoRef
  <2>1. pc'[p] = "upload" /\ chunk'[p] = c  BY <1>2, <1>3, <1>8, GoLeaves DEF PCs
  <2>2. None(c) \/ Refused(b, c)
    BY <1>5, <1>8 DEF Replaces, Local, Only, Refused
  <2>3. None(c)' \/ Refused(b, c)'  BY <1>3, <2>2, SameNone
  <2> QED  BY <1>4, <2>1, <2>3 DEF Leaves, Placed, Refused
<1> QED  BY <1>6, <1>7, <1>8

LEMMA DeleteOldLeaves ==
  ASSUME SInv, NEW p \in Caller, NEW c \in Key, chunk[p] = c, Placed(p, c), c \notin disturbed',
         DeleteOld(p)
  PROVE  Leaves(p, c)
<1>0. /\ DropCopy(to[p], <<c, old[p]>>) \/ UNCHANGED copies
      /\ Goto(p, "upload") /\ UNCHANGED <<chunk, to>>
  <2>1. ~Fail(p)  BY FailDisturbs
  <2> QED  BY <2>1 DEF DeleteOld, Stay
<1>1. /\ Kind[to[p]] = "github" /\ AtMost(c, to[p], old[p])
      /\ to[p] \in Backend /\ UNCHANGED <<chunk, to>>
  BY <1>0 DEF DeleteOld, Placed, SInv, CallInv, CallOK
<1>2. pc'[p] = "upload" /\ chunk'[p] = c  BY <1>0, <1>1, GoLeaves DEF PCs
<1> PICK b \in Backend : b = to[p]  BY <1>1
<1> PICK m : m = old[p]  OBVIOUS
<1>3. CASE DropCopy(b, <<c, m>>)
  <2>1. None(c)'  BY <1>1, <1>3, DropOne
  <2> QED  BY <1>2, <2>1 DEF Leaves, Placed
<1>4. CASE UNCHANGED copies
  <2>1. None(c) \/ Refused(b, c)
    BY <1>1 DEF AtMost, None, Refused
  <2>2. None(c)' \/ Refused(b, c)'  BY <1>4, <2>1, SameNone
  <2> QED  BY <1>1, <1>2, <2>2 DEF Leaves, Placed, Refused
<1> QED  BY <1>0, <1>3, <1>4

LEMMA UploadLeaves ==
  ASSUME SInv, NEW p \in Caller, NEW c \in Key, chunk[p] = c, Placed(p, c), c \notin disturbed',
         Upload(p)
  PROVE  Leaves(p, c)
<1>1. /\ to[p] \in Backend /\ id[p] \in 0..MaxWrites /\ doing[p] = "write"
      /\ ~Refused(to[p], c) /\ AddCopy(to[p], <<c, id[p]>>) /\ Goto(p, "setRef")
      /\ UNCHANGED <<chunk, to, id, doing>>
  BY FailDisturbs DEF Upload, SInv, TypeOK, CallInv, CallOK, Stay
<1>2. pc'[p] = "setRef" /\ chunk'[p] = c  BY <1>1, GoLeaves DEF PCs
<1>3. None(c)  BY <1>1 DEF Upload, Placed
<1> PICK b \in Backend : b = to[p]  BY <1>1
<1> PICK m \in 0..MaxWrites : m = id[p]  BY <1>1
<1>4. Only(c, b, m)'  BY <1>1, <1>3, AddOne
<1> QED  BY <1>1, <1>2, <1>4 DEF Leaves, Placed, Only, AtMost

LEMMA TruncateLeaves ==
  ASSUME SInv, NEW p \in Caller, NEW c \in Key, chunk[p] = c, Placed(p, c), c \notin disturbed',
         Truncate(p)
  PROVE  Leaves(p, c)
<1>1. /\ to[p] \in Backend /\ DropCopy(to[p], <<c, 0>>) /\ Goto(p, "fill")
      /\ AtMost(c, to[p], 0) /\ UNCHANGED chunk
  BY FailDisturbs DEF Truncate, SInv, CallInv, CallOK, Stay, Placed
<1>2. pc'[p] = "fill" /\ chunk'[p] = c  BY <1>1, GoLeaves DEF PCs
<1> PICK b \in Backend : b = to[p]  BY <1>1
<1>3. None(c)'  BY <1>1, DropOne
<1> QED  BY <1>2, <1>3 DEF Leaves, Placed

LEMMA FillCopyLeaves ==
  ASSUME SInv, NEW p \in Caller, NEW c \in Key, chunk[p] = c, Placed(p, c), c \notin disturbed',
         FillCopy(p)
  PROVE  Leaves(p, c)
<1>1. /\ to[p] \in Backend /\ Local(to[p]) /\ doing[p] = "write" /\ None(c)
  BY DEF FillCopy, SInv, CallInv, CallOK, Placed
<1>0. /\ AddCopy(to[p], <<c, 0>>) /\ Goto(p, "setRouter") /\ UNCHANGED <<chunk, to, doing>>
  <2>1. ~Fail(p)  BY FailDisturbs
  <2> QED  BY <2>1 DEF FillCopy, Stay
<1>a. 0 \in 0..MaxWrites  BY StoreAssumption
<1>2. pc'[p] = "setRouter" /\ chunk'[p] = c  BY <1>0, GoLeaves DEF PCs
<1> PICK b \in Backend : b = to[p]  BY <1>1
<1>3. Only(c, b, 0)'  BY <1>0, <1>a, <1>1, AddOne
<1> QED  BY <1>0, <1>1, <1>2, <1>3 DEF Leaves, Placed, Only, AtMost, Asset, Local

LEMMA LookupLeaves ==
  ASSUME SInv, NEW p \in Caller, NEW c \in Key, chunk[p] = c, Placed(p, c), Lookup(p)
  PROVE  Leaves(p, c)
<1>1. Consistent(c) /\ UNCHANGED <<data, copies>>  BY DEF Lookup, Placed, indexVars
<1>2. CASE Succeed(p)
  <2>1. chunk'[p] # c
    BY <1>2, SplitType, StoreAssumption DEF Succeed, Return, SInv, StoreTypeOK
  <2>2. Consistent(c)'
    BY <1>1 DEF Consistent, Only, AtMost, None, Asset, Local
  <2> QED  BY <2>1, <2>2 DEF Leaves
<1>3. CASE data[Router][c] # NoRef
  <2>1. data[Router][c] \in Backend  BY <1>3 DEF SInv, RouterOK, RouterDoc
  <2> PICK b \in Backend : b = data[Router][c]  BY <2>1
  <2>2. /\ to' = [to EXCEPT ![p] = b]
        /\ old' = [old EXCEPT ![p] = IF Local(b) THEN NoRef ELSE data[b][c]]
        /\ Goto(p, "remove") /\ UNCHANGED chunk
    BY <1>3 DEF Lookup
  <2>3. to'[p] = b /\ old'[p] = IF Local(b) THEN NoRef ELSE data[b][c]
    BY <2>2, SplitType DEF SInv, StoreTypeOK
  <2>4. pc'[p] = "remove" /\ chunk'[p] = c  BY <2>2, GoLeaves DEF PCs
  <2> PICK m : m = Asset(b, c)  OBVIOUS
  <2>5. Only(c, b, m)  BY <1>1, <1>3 DEF Consistent
  <2>6. Only(c, b, m)'  BY <1>1, <2>5, SameNone
  <2>7. m = IF Local(b) THEN 0 ELSE old'[p]  BY <2>3 DEF Asset
  <2> QED  BY <2>3, <2>4, <2>6, <2>7 DEF Leaves, Placed, Only, AtMost, Local
<1> QED  BY <1>2, <1>3 DEF Lookup

\* A delete that has removed the copy.
LEMMA Removed ==
  ASSUME SInv, NEW p \in Caller, NEW c \in Key, chunk[p] = c, pc[p] = "remove",
         Placed(p, c), NEW s \in {"setRef", "setRouter"}, Goto(p, s), UNCHANGED <<chunk, doing>>,
         DropCopy(to[p], <<c, IF Local(to[p]) THEN 0 ELSE old[p]>>)
  PROVE  Leaves(p, c)
<1>1. /\ to[p] \in Backend /\ doing[p] = "delete"
      /\ AtMost(c, to[p], IF Local(to[p]) THEN 0 ELSE old[p])
  BY DEF SInv, CallInv, CallOK, Placed, Only
<1>2. pc'[p] = s /\ chunk'[p] = c  BY GoLeaves DEF PCs
<1> PICK b \in Backend : b = to[p]  BY <1>1
<1> PICK m : m = IF Local(to[p]) THEN 0 ELSE old[p]  OBVIOUS
<1>3. None(c)'
  <2>1. AtMost(c, b, m) /\ DropCopy(b, <<c, m>>)  BY <1>1
  <2> QED  BY <2>1, DropOne
<1> QED  BY <1>1, <1>2, <1>3 DEF Leaves, Placed

LEMMA RemoveLeaves ==
  ASSUME SInv, RemoteIds, NEW p \in Caller, NEW c \in Key, chunk[p] = c, Placed(p, c),
         c \notin disturbed', RemoveAsset(p) \/ RemoveEntry(p) \/ RemoveFile(p)
  PROVE  Leaves(p, c)
<1>1. to[p] \in Backend /\ pc[p] = "remove"
  BY DEF RemoveAsset, RemoveEntry, RemoveFile, SInv, CallInv, CallOK
<1>2. CASE RemoveAsset(p)
  <2>1. DropCopy(to[p], <<c, old[p]>>) /\ Goto(p, "setRef") /\ Stay
    BY <1>2, FailDisturbs DEF RemoveAsset
  <2>2. ~Local(to[p])  BY <1>2 DEF RemoveAsset, Local
  <2> QED  BY <1>1, <2>1, <2>2, Removed DEF Stay
<1>3. CASE RemoveFile(p)
  <2>1. DropCopy(to[p], <<c, 0>>) /\ Goto(p, "setRouter") /\ Stay
    BY <1>3, FailDisturbs DEF RemoveFile
  <2> QED  BY <1>1, <1>3, <2>1, Removed DEF Stay, RemoveFile
<1>4. CASE RemoveEntry(p)
  <2>1. ~Local(to[p]) /\ old[p] = NoRef  BY <1>4, FailDisturbs DEF RemoveEntry
  <2> PICK b \in Backend : b = to[p]  BY <1>1
  <2>2. <<c, NoRef>> \in copies[b]  BY <1>1, <2>1 DEF Placed, Only
  <2>3. NoRef \in 0..MaxWrites  BY <2>2, InCopies
  <2> QED  BY <2>1, <2>2, <2>3 DEF RemoteIds
<1> QED  BY <1>2, <1>3, <1>4

LEMMA SetRefLeaves ==
  ASSUME SInv, NEW p \in Caller, NEW c \in Key, chunk[p] = c, Placed(p, c), SetRef(p)
  PROVE  Leaves(p, c)
<1>1. /\ to[p] \in Backend /\ ~Local(to[p]) /\ doing[p] \in {"write", "delete"}
      /\ UNCHANGED <<copies, chunk, doing, to, id>> /\ to[p] \in Ix /\ pc[p] = "setRef"
  BY BusyFacts, RouterIx DEF SetRef, SInv, CallInv, CallOK, Stay
<1>2. pc'[p] = "saveRef" /\ chunk'[p] = c  BY <1>1, GoLeaves DEF SetRef, PCs
<1>3. CASE doing[p] = "delete"
  <2>1. None(c)'  BY <1>1, <1>3, SameNone DEF Placed
  <2> QED  BY <1>1, <1>2, <1>3, <2>1 DEF Leaves, Placed
<1>4. CASE doing[p] = "write"
  <2> PICK b \in Ix : b = to[p]  BY <1>1
  <2> PICK m : m = id[p]  OBVIOUS
  <2>1. Put(p, b, chunk[p], m)  BY <1>4 DEF SetRef
  <2>2. data'[b][c] = m  BY <2>1, PutAway
  <2>3. Only(c, b, m)'  BY <1>1, <1>4, SameNone DEF Placed
  <2> QED  BY <1>1, <1>2, <1>4, <2>2, <2>3 DEF Leaves, Placed, Only, AtMost, Asset, Local
<1> QED  BY <1>1, <1>3, <1>4

LEMMA SetRouterLeaves ==
  ASSUME SInv, NEW p \in Caller, NEW c \in Key, chunk[p] = c, Placed(p, c), SetRouter(p)
  PROVE  Leaves(p, c)
<1>1. /\ to[p] \in Backend /\ doing[p] \in {"write", "delete"} /\ to[p] # Router
      /\ UNCHANGED <<copies, chunk, doing, to>> /\ pc[p] = "setRouter" /\ to[p] # NoRef
  BY BusyFacts, StoreAssumption, RefFacts, IndexAssumption DEF SetRouter, SInv, CallInv, CallOK, Stay
<1>2. pc'[p] = "saveRouter" /\ chunk'[p] = c  BY <1>1, GoLeaves DEF SetRouter, PCs
<1>3. CASE doing[p] = "delete"
  <2>1. None(c)'  BY <1>1, <1>3, SameNone DEF Placed
  <2>2. Put(p, Router, chunk[p], NoRef)  BY <1>3 DEF SetRouter
  <2>3. data'[Router][c] = NoRef  BY <2>2, PutAway, RouterIx
  <2> QED  BY <1>1, <1>2, <1>3, <2>1, <2>3 DEF Leaves, Placed, Consistent
<1>4. CASE doing[p] = "write"
  <2> PICK b \in Backend : b = to[p]  BY <1>1
  <2> PICK m : m = Asset(b, c)  OBVIOUS
  <2>1. Put(p, Router, chunk[p], b)  BY <1>4 DEF SetRouter
  <2>2. data'[Router][c] = b  BY <2>1, PutAway, RouterIx
  <2>3. Asset(b, c)' = m
    <3>1. ~Local(b) => b \in Ix /\ data'[b][c] = data[b][c]
      BY <1>1, <2>1, PutAway, RouterIx
    <3> QED  BY <3>1 DEF Asset, Local
  <2>4. Only(c, b, m)'  BY <1>1, <1>4, SameNone DEF Placed
  <2>5. Consistent(c)'
    BY <1>1, <2>2, <2>3, <2>4 DEF Consistent, Only, AtMost, Asset, Local
  <2> QED  BY <1>2, <1>4, <2>5 DEF Leaves, Placed
<1> QED  BY <1>1, <1>3, <1>4

\* Neither a Save nor its end changes an entry or a copy.
LEMMA SaveLeaves ==
  ASSUME SInv, NEW p \in Caller, NEW c \in Key, chunk[p] = c, Placed(p, c), c \notin disturbed',
         Save(p) \/ Saved(p) \/ NotSaved(p)
  PROVE  Leaves(p, c)
<1>1. UNCHANGED <<data, copies>>
  BY DEF Save, Saved, NotSaved, Marshal, OpenFile, Fill, SaveFails
<1>2. Consistent(c) => Consistent(c)'
  BY <1>1 DEF Consistent, Only, AtMost, None, Asset, Local
<1>3. CASE Save(p)
  <2>1. UNCHANGED callVars  BY <1>3 DEF Save
  <2>2. Placed(p, c)'
    BY <1>1, <1>2, <2>1 DEF callVars, Placed, None, Only, AtMost, Refused, Asset, Local
  <2> QED  BY <2>1, <2>2 DEF Leaves, callVars
<1>4. CASE Saved(p) /\ pc[p] = "saveRef"
  <2>1. Goto(p, "setRouter") /\ UNCHANGED <<doing, chunk, to>>  BY <1>4 DEF Saved, Stay
  <2>2. pc'[p] = "setRouter" /\ chunk'[p] = c  BY <2>1, GoLeaves DEF PCs
  <2> QED
    BY <1>1, <1>4, <2>1, <2>2 DEF Leaves, Placed, None, Only, AtMost, Asset, Local
<1>5. CASE Saved(p) /\ pc[p] # "saveRef"
  <2>1. Return(p, "ok") /\ pc[p] = "saveRouter"
    BY <1>5, EndFacts DEF Saved, Succeed
  <2>2. chunk'[p] # c
    BY <2>1, SplitType, StoreAssumption DEF Return, SInv, StoreTypeOK
  <2> QED  BY <1>2, <2>1, <2>2 DEF Leaves, Placed
<1>6. ~NotSaved(p)  BY FailDisturbs DEF NotSaved
<1> QED  BY <1>3, <1>4, <1>5, <1>6

LEMMA StepLeaves ==
  ASSUME SInv, RemoteIds, NEW p \in Caller, NEW c \in Key, chunk[p] = c, Placed(p, c),
         c \notin disturbed', Step(p)
  PROVE  Leaves(p, c)
<1>1. CASE Pick(p) \/ DeleteOld(p) \/ Upload(p) \/ Truncate(p) \/ FillCopy(p)
  BY <1>1, PickLeaves, DeleteOldLeaves, UploadLeaves, TruncateLeaves, FillCopyLeaves
<1>2. CASE Lookup(p) \/ RemoveAsset(p) \/ RemoveEntry(p) \/ RemoveFile(p)
  BY <1>2, LookupLeaves, RemoveLeaves
<1>3. CASE SetRef(p) \/ SetRouter(p) \/ Save(p) \/ Saved(p) \/ NotSaved(p)
  BY <1>3, SetRefLeaves, SetRouterLeaves, SaveLeaves
<1> QED  BY <1>1, <1>2, <1>3 DEF Step

-----------------------------------------------------------------------------
\* Every step keeps the chunks tidy.

LEMMA StepDisturbs ==
  ASSUME NEW p \in Caller, Step(p)
  PROVE  disturbed \subseteq disturbed' /\ damaged' = damaged
  BY DEF Step, Pick, DeleteOld, Upload, Truncate, FillCopy, Lookup, RemoveAsset, RemoveEntry,
         RemoveFile, SetRef, SetRouter, Save, Saved, NotSaved, Succeed, Fail, Disturb, Apart

LEMMA StepTidy ==
  ASSUME SInv, SInv', RemoteIds, NEW p \in Caller, Step(p), NEW c \in Key,
         c \notin disturbed', Tidy(c)
  PROVE  Tidy(c)'
<1>1. \A q \in Caller : q # p => /\ doing'[q] = doing[q] /\ chunk'[q] = chunk[q]
                                 /\ pc'[q] = pc[q] /\ to'[q] = to[q] /\ id'[q] = id[q]
                                 /\ old'[q] = old[q]
  BY StepOthers
<1>2. chunk'[p] = chunk[p] \/ chunk'[p] # c
  <2>1. CASE Return(p, "ok") \/ Return(p, "failed")
    <3>1. chunk'[p] = NoKey  BY <2>1, SplitType DEF Return, SInv, StoreTypeOK
    <3> QED  BY <3>1, StoreAssumption
  <2> QED  BY <2>1, StepOwn
<1>3. \A q, r \in Caller : chunk'[q] = c /\ chunk'[r] = c => q = r
  BY <1>1, <1>2 DEF Tidy
<1>4. CASE chunk[p] = c
  <2>1. Leaves(p, c)  BY <1>4, StepLeaves DEF Tidy
  <2>2. \A q \in Caller : q # p => chunk'[q] # c  BY <1>1, <1>4 DEF Tidy
  <2> QED  BY <1>3, <2>1, <2>2 DEF Tidy, Leaves
<1>5. CASE chunk[p] # c
  <2>1. SameAt(c)  BY <1>5, StepAway DEF Away
  <2>2. chunk'[p] # c  BY <1>2, <1>5
  <2>3. ASSUME \A q \in Caller : chunk'[q] # c PROVE Consistent(c)'
    <3>1. \A q \in Caller : chunk[q] # c  BY <1>1, <1>5, <2>3
    <3> QED  BY <2>1, <3>1, ConsistentSame DEF Tidy
  <2>4. ASSUME NEW q \in Caller, chunk'[q] = c PROVE Placed(q, c)'
    <3>1. q # p /\ chunk[q] = c /\ Placed(q, c)  BY <1>1, <2>2, <2>4 DEF Tidy
    <3> QED  BY <1>1, <2>1, <3>1, PlacedSame
  <2> QED  BY <1>3, <2>3, <2>4 DEF Tidy
<1> QED  BY <1>4, <1>5

LEMMA StepRemoteIds ==
  ASSUME SInv, RemoteIds, NEW p \in Caller, Step(p)
  PROVE  RemoteIds'
<1>1. CASE Upload(p)
  <2>1. id[p] \in 1..MaxWrites /\ to[p] \in Backend /\ id[p] # NoRef
    BY <1>1, RefFacts, IndexAssumption DEF Upload, SInv, CallInv, CallOK
  <2>2. UNCHANGED copies \/ AddCopy(to[p], <<chunk[p], id[p]>>)  BY <1>1 DEF Upload
  <2> QED  BY <2>1, <2>2, SplitType DEF RemoteIds, AddCopy, SInv, StoreTypeOK, Local
<1>2. CASE FillCopy(p)
  <2>1. to[p] \in Backend /\ Local(to[p])
    BY <1>2 DEF FillCopy, SInv, CallInv, CallOK
  <2>2. UNCHANGED copies \/ AddCopy(to[p], <<chunk[p], 0>>)  BY <1>2 DEF FillCopy
  <2> QED  BY <2>1, <2>2, SplitType DEF RemoteIds, AddCopy, SInv, StoreTypeOK, Local
<1>3. CASE UNCHANGED copies \/ \E b \in Backend : \E copy : DropCopy(b, copy)
  BY <1>3, SplitType DEF RemoteIds, DropCopy, SInv, StoreTypeOK, Local
<1>4. CASE DeleteOld(p) \/ Truncate(p) \/ RemoveAsset(p) \/ RemoveFile(p)
  <2>1. to[p] \in Backend
    BY <1>4 DEF DeleteOld, Truncate, RemoveAsset, RemoveFile, SInv, CallInv, CallOK
  <2> QED  BY <1>3, <1>4, <2>1 DEF DeleteOld, Truncate, RemoveAsset, RemoveFile
<1>5. CASE \/ Pick(p) \/ Lookup(p) \/ RemoveEntry(p) \/ SetRef(p) \/ SetRouter(p)
           \/ Save(p) \/ Saved(p) \/ NotSaved(p)
  BY <1>3, <1>5 DEF Pick, Lookup, RemoveEntry, SetRef, SetRouter, Save, Saved, NotSaved
<1> QED  BY <1>1, <1>2, <1>4, <1>5 DEF Step

LEMMA BeginTidy ==
  ASSUME SInv, NEW p \in Caller, NEW d \in {"write", "delete"}, NEW b \in Key, Begin(p, d, b),
         NEW c \in Key, c \notin disturbed', Tidy(c)
  PROVE  Tidy(c)'
<1>1. chunk[p] = NoKey  BY DEF Begin, SInv, TypeOK
<1>2. /\ doing'[p] = d /\ chunk'[p] = b /\ pc'[p] \in {"pick", "lookup"}
      /\ \A q \in Caller : q # p => /\ doing'[q] = doing[q] /\ chunk'[q] = chunk[q]
                                    /\ pc'[q] = pc[q] /\ id'[q] = id[q]
      /\ UNCHANGED <<to, old, copies, data>>
  BY SplitType DEF Begin, SInv, StoreTypeOK, Goto, indexVars
<1>3. Consistent(c) => Consistent(c)'
  BY <1>2 DEF Consistent, Only, AtMost, None, Asset, Local
<1>4. b = c => \A q \in Caller : chunk[q] # c
  <2> SUFFICES ASSUME b = c, NEW q \in Caller, chunk[q] = c PROVE FALSE
    OBVIOUS
  <2>1. Busy(q)  BY StoreAssumption DEF SInv, TypeOK
  <2> QED  BY <2>1 DEF Begin, Disturb
<1>5. ASSUME NEW q \in Caller, q # p, Placed(q, c) PROVE Placed(q, c)'
  BY <1>2, <1>3, <1>5 DEF Placed, None, Only, AtMost, Refused, Asset, Local
<1>6. CASE b = c
  <2>1. Placed(p, c)'  BY <1>2, <1>3, <1>4, <1>6 DEF Placed, Tidy
  <2> QED  BY <1>2, <1>4, <1>6, <2>1 DEF Tidy
<1>7. CASE b # c
  <2>1. \A q \in Caller : chunk'[q] = c <=> chunk[q] = c  BY <1>1, <1>2, <1>7, StoreAssumption
  <2> QED  BY <1>2, <1>3, <1>5, <1>7, <2>1 DEF Tidy
<1> QED  BY <1>6, <1>7

LEMMA NextOInv == OInv /\ [Next]_vars => OInv'
<1> SUFFICES ASSUME OInv, [Next]_vars PROVE OInv'
  OBVIOUS
<1>1. SInv /\ RemoteIds /\ SInv'  BY NextSInv DEF OInv
<1>2. ASSUME NEW p \in Caller, Step(p) PROVE OInv'
  <2>1. RemoteIds'  BY <1>1, <1>2, StepRemoteIds
  <2>2. ASSUME ~damaged', NEW c \in Key \ disturbed' PROVE Tidy(c)'
    <3>1. ~damaged /\ c \notin disturbed  BY <1>2, <2>2, StepDisturbs
    <3> QED  BY <1>1, <1>2, <2>2, <3>1, StepTidy DEF OInv
  <2> QED  BY <1>1, <2>1, <2>2 DEF OInv
<1>3. ASSUME NEW p \in Caller, NEW d \in Does[p], NEW b \in Key, Begin(p, d, b) PROVE OInv'
  <2>1. d \in {"write", "delete"}  BY StoreAssumption
  <2>2. RemoteIds'  BY <1>1, <1>3 DEF Begin, RemoteIds, Local
  <2>3. disturbed \subseteq disturbed' /\ damaged' = damaged  BY <1>3 DEF Begin, Disturb
  <2>4. ASSUME ~damaged', NEW c \in Key \ disturbed' PROVE Tidy(c)'
    <3>1. Tidy(c)  BY <2>3, <2>4 DEF OInv
    <3> QED  BY <1>1, <1>3, <2>1, <2>4, <3>1, BeginTidy
  <2> QED  BY <1>1, <2>2, <2>4 DEF OInv
<1>4. CASE Crash
  <2>1. RemoteIds'  BY <1>1, <1>4 DEF Crash, RemoteIds, Local
  <2>2. ASSUME ~damaged', NEW c \in Key \ disturbed' PROVE Tidy(c)'
    <3>1. ~damaged /\ suspect = {} /\ c \notin disturbed
      BY <1>4, <2>2 DEF Crash, Disturb
    <3>2. \A q \in Caller : ~(Busy(q) /\ chunk[q] = c)
      BY <1>4, <2>2 DEF Crash, Disturb
    <3>3. \A q \in Caller : chunk[q] # c
      BY <1>1, <3>2, StoreAssumption DEF SInv, TypeOK
    <3>4. SameAt(c)  BY <1>1, <1>4, <3>1, <3>2, CrashSame
    <3>5. Consistent(c)'  BY <1>1, <3>1, <3>3, <3>4, ConsistentSame DEF OInv, Tidy
    <3>6. \A q \in Caller : chunk'[q] # c  BY <1>4, StoreAssumption DEF Crash
    <3> QED  BY <3>5, <3>6 DEF Tidy
  <2> QED  BY <1>1, <2>1, <2>2 DEF OInv
<1>5. CASE UNCHANGED vars
  <2>1. UNCHANGED <<data, copies, callVars, damaged, disturbed>>
    BY <1>5 DEF vars, indexVars, ghostVars
  <2>2. RemoteIds'  BY <1>1, <2>1 DEF RemoteIds, Local
  <2>3. ASSUME NEW c, Tidy(c) PROVE Tidy(c)'
    <3>1. Consistent(c) => Consistent(c)'
      BY <2>1 DEF Consistent, Only, AtMost, None, Asset, Local
    <3>2. ASSUME NEW q \in Caller, Placed(q, c) PROVE Placed(q, c)'
      BY <2>1, <3>1, <3>2 DEF callVars, Placed, None, Only, AtMost, Refused, Asset, Local
    <3> QED  BY <2>1, <2>3, <3>1, <3>2 DEF Tidy, callVars
  <2> QED  BY <1>1, <2>1, <2>2, <2>3 DEF OInv
<1> QED  BY <1>2, <1>3, <1>4, <1>5 DEF Next

LEMMA InitOInv == Init => OInv
<1> SUFFICES ASSUME Init PROVE OInv
  OBVIOUS
<1>1. /\ copies = [b \in Backend |-> {}] /\ chunk = [p \in Caller |-> NoKey]
      /\ data = [x \in Ix |-> Blank]
  BY DEF Init, IndexInit
<1>2. RemoteIds  BY <1>1 DEF RemoteIds
<1>3. ASSUME NEW c \in Key PROVE Tidy(c)
  <2>1. \A p \in Caller : chunk[p] # c  BY <1>1, StoreAssumption
  <2>2. Consistent(c)  BY <1>1, RouterIx DEF Consistent, None, Blank
  <2> QED  BY <2>1, <2>2 DEF Tidy
<1> QED  BY <1>2, <1>3, InitSInv DEF OInv

\* Whatever backends, limits and callers: as long as no call on a chunk has failed, met
\* another or moved it, and no restart came while an index was suspect, the chunk has the
\* one copy its indexes lead to between calls, or none and no entry.
THEOREM OneCopyCorrect == Spec => []OneCopy
<1>1. OInv => OneCopy
  BY ConsistentFound DEF OInv, OneCopy, Tidy
<1> QED  BY <1>1, InitOInv, NextOInv, PTL DEF Spec

=============================================================================
