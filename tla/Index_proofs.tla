---------------------------- MODULE Index_proofs -----------------------------
(***************************************************************************)
(* Proofs about Index, for any number of indexes, callers and references   *)
(* and any finite set of keys: what the file of an index holds when no     *)
(* change of it is under way.                                              *)
(***************************************************************************)
EXTENDS Index, TLAPS

IInv == IndexTypeOK /\ IndexInv

\* The index a caller is at work on.
LEMMA WorkType ==
  ASSUME IndexTypeOK, NEW p \in Caller, stage[p] # "none"
  PROVE  work[p] \in Ix \X Key /\ work[p][1] \in Ix /\ work[p][2] \in Key
  BY DEF IndexTypeOK

LEMMA BlankIsDoc == Blank \in Doc
  BY DEF Blank, Doc

LEMMA InitIInv == IndexInit => IInv
<1> SUFFICES ASSUME IndexInit PROVE IInv
  OBVIOUS
<1>1. IndexTypeOK  BY BlankIsDoc DEF IndexInit, IndexTypeOK
<1>2. IndexInv  BY BlankIsDoc DEF IndexInit, IndexInv, Behind
<1> QED  BY <1>1, <1>2 DEF IInv

-----------------------------------------------------------------------------
\* Types.

LEMMA FinishType ==
  ASSUME IndexTypeOK, NEW p \in Caller, Finish(p)
  PROVE  /\ stage' \in [Caller -> {"none", "marshal"} \cup Writing]
         /\ work' \in [Caller -> (Ix \X Key) \cup {NoWork}]
         /\ \A q \in Caller : stage'[q] = "none" <=> work'[q] = NoWork
         /\ snap' \in [Caller -> Doc]
         /\ alone' \subseteq Caller
  BY BlankIsDoc DEF IndexTypeOK, Finish

LEMMA PutType ==
  ASSUME IndexTypeOK, NEW p \in Caller, NEW x \in Ix, NEW k \in Key, NEW v \in Ref \cup {NoRef},
         Put(p, x, k, v)
  PROVE  IndexTypeOK'
<1>1. data[x] \in Doc  BY DEF IndexTypeOK
<1>2. [data[x] EXCEPT ![k] = v] \in Doc  BY <1>1 DEF Doc
<1>3. data' \in [Ix -> Doc]  BY <1>2 DEF Put, IndexTypeOK
<1>4. <<x, k>> \in Ix \X Key /\ <<x, k>> # NoWork  BY IndexAssumption
<1>5. /\ stage' \in [Caller -> {"none", "marshal"} \cup Writing]
      /\ work' \in [Caller -> (Ix \X Key) \cup {NoWork}]
  BY <1>4 DEF Put, IndexTypeOK
<1>6. \A q \in Caller : stage'[q] = "none" <=> work'[q] = NoWork
  BY <1>4 DEF Put, IndexTypeOK
<1> QED  BY <1>3, <1>5, <1>6 DEF Put, IndexTypeOK

LEMMA MarshalType ==
  ASSUME IndexTypeOK, NEW p \in Caller, Marshal(p)
  PROVE  IndexTypeOK'
<1>1. work[p][1] \in Ix  BY WorkType DEF Marshal
<1>2. snap' \in [Caller -> Doc]  BY <1>1 DEF Marshal, IndexTypeOK
<1>3. stage' \in [Caller -> {"none", "marshal"} \cup Writing]
  BY DEF Marshal, IndexTypeOK, Writing
<1>4. \A q \in Caller : stage'[q] = "none" <=> work'[q] = NoWork
  BY DEF Marshal, IndexTypeOK
<1>5. alone' \subseteq Caller  BY DEF Marshal, IndexTypeOK
<1> QED  BY <1>2, <1>3, <1>4, <1>5 DEF Marshal, IndexTypeOK

LEMMA OpenFileType ==
  ASSUME IndexTypeOK, NEW p \in Caller, OpenFile(p)
  PROVE  IndexTypeOK'
<1>1. work[p][1] \in Ix  BY WorkType DEF OpenFile
<1>2. file' \in [Ix -> Doc \cup {Empty, Garbled}] /\ suspect' \subseteq Ix
  BY <1>1 DEF OpenFile, IndexTypeOK
<1>3. stage' \in [Caller -> {"none", "marshal"} \cup Writing]
  BY DEF OpenFile, IndexTypeOK, Writing
<1>4. \A q \in Caller : stage'[q] = "none" <=> work'[q] = NoWork
  BY DEF OpenFile, IndexTypeOK
<1> QED  BY <1>2, <1>3, <1>4 DEF OpenFile, IndexTypeOK

LEMMA FillType ==
  ASSUME IndexTypeOK, NEW p \in Caller, Fill(p)
  PROVE  IndexTypeOK'
<1>1. work[p][1] \in Ix /\ snap[p] \in Doc  BY WorkType DEF Fill, IndexTypeOK
<1>2. Overlay(file[work[p][1]], snap[p]) \subseteq Doc \cup {Empty, Garbled}
  BY <1>1 DEF Overlay
<1>3. file' \in [Ix -> Doc \cup {Empty, Garbled}] /\ suspect' \subseteq Ix
  BY <1>1, <1>2 DEF Fill, IndexTypeOK
<1> QED  BY <1>3, FinishType DEF Fill, IndexTypeOK

LEMMA SaveFailsType ==
  ASSUME IndexTypeOK, NEW p \in Caller, SaveFails(p)
  PROVE  IndexTypeOK'
<1>1. work[p][1] \in Ix  BY WorkType DEF SaveFails, Writing
<1>2. file' \in [Ix -> Doc \cup {Empty, Garbled}] /\ suspect' \subseteq Ix
  BY <1>1 DEF SaveFails, IndexTypeOK
<1> QED  BY <1>2, FinishType DEF SaveFails, IndexTypeOK

LEMMA ReloadType == ASSUME IndexTypeOK, Reload PROVE IndexTypeOK'
  BY BlankIsDoc DEF Reload, IndexTypeOK

-----------------------------------------------------------------------------
\* The invariant, one action at a time.

LEMMA PutInv ==
  ASSUME IInv, NEW p \in Caller, NEW x \in Ix, NEW k \in Key, NEW v \in Ref \cup {NoRef},
         Put(p, x, k, v)
  PROVE  IndexInv'
<1>1. /\ data \in [Ix -> Doc] /\ stage \in [Caller -> {"none", "marshal"} \cup Writing]
      /\ work \in [Caller -> (Ix \X Key) \cup {NoWork}] /\ alone \subseteq Caller
  BY DEF IInv, IndexTypeOK
<1>2. /\ \A y \in Ix, j \in Key : <<y, j>> # <<x, k>> => data'[y][j] = data[y][j]
      /\ stage[p] = "none" /\ stage'[p] = "marshal" /\ work'[p] = <<x, k>>
      /\ \A q \in Caller : q # p => stage'[q] = stage[q] /\ work'[q] = work[q]
      /\ UNCHANGED <<file, snap, alone, suspect>>
  BY <1>1 DEF Put, Doc
<1>3. ASSUME NEW y \in Ix, NEW d, NEW S, "marshal" \in S, "none" \notin S, Behind(y, d, S)
      PROVE  \A j \in Key : d[j] # data'[y][j] =>
                 \E q \in Caller : stage'[q] \in S /\ work'[q] = <<y, j>>
  <2> SUFFICES ASSUME NEW j \in Key, d[j] # data'[y][j]
               PROVE  \E q \in Caller : stage'[q] \in S /\ work'[q] = <<y, j>>
    OBVIOUS
  <2>1. CASE <<y, j>> = <<x, k>>
    BY <1>2, <1>3, <2>1
  <2>2. CASE <<y, j>> # <<x, k>>
    <3>1. PICK q \in Caller : stage[q] \in S /\ work[q] = <<y, j>>
      BY <1>2, <1>3, <2>2 DEF Behind
    <3>2. q # p  BY <1>2, <1>3, <3>1
    <3> QED  BY <1>2, <3>1, <3>2
  <2> QED  BY <2>1, <2>2
<1>4. ASSUME NEW y \in Ix \ suspect'
      PROVE  (file[y] \in Doc /\ Behind(y, file[y], {"marshal"} \cup Writing))'
  <2>1. file[y] \in Doc /\ Behind(y, file[y], {"marshal"} \cup Writing)
    BY <1>2, <1>4 DEF IInv, IndexInv
  <2>2. Behind(y, file[y], {"marshal"} \cup Writing)'
    BY <1>2, <1>3, <2>1 DEF Writing, Behind
  <2> QED  BY <1>2, <2>1, <2>2
<1>5. ASSUME NEW q \in alone'
      PROVE  (/\ stage[q] \in Writing
              /\ At(work[q][1], Writing) = {q}
              /\ Behind(work[q][1], snap[q], {"marshal"})
              /\ stage[q] = "fill" => file[work[q][1]] = Empty)'
  <2>1. /\ q \in Caller /\ stage[q] \in Writing
        /\ At(work[q][1], Writing) = {q}
        /\ Behind(work[q][1], snap[q], {"marshal"})
        /\ stage[q] = "fill" => file[work[q][1]] = Empty
    BY <1>1, <1>2, <1>5 DEF IInv, IndexInv
  <2>2. q # p  BY <1>2, <2>1 DEF Writing
  <2>3. stage'[q] = stage[q] /\ work'[q] = work[q] /\ work[q][1] \in Ix
    BY <1>2, <2>1, <2>2, WorkType DEF IInv, Writing
  <2>4. At(work[q][1], Writing)' = {q}
    BY <1>2, <2>1, <2>3 DEF At, Writing
  <2>5. Behind(work[q][1], snap[q], {"marshal"})'
    <3>1. Behind(work[q][1], snap[q], {"marshal"})  BY <2>1
    <3>2. \A j \in Key : snap[q][j] # data'[work[q][1]][j] =>
             \E r \in Caller : stage'[r] \in {"marshal"} /\ work'[r] = <<work[q][1], j>>
      BY <1>3, <2>3, <3>1
    <3> QED  BY <1>2, <2>3, <3>2 DEF Behind
  <2>6. stage'[q] \in Writing /\ (stage'[q] = "fill" => file'[work'[q][1]] = Empty)
    BY <1>2, <2>1, <2>3
  <2> QED  BY <2>4, <2>5, <2>6 DEF Writing
<1> QED  BY <1>4, <1>5 DEF IndexInv

LEMMA MarshalInv ==
  ASSUME IInv, NEW p \in Caller, Marshal(p)
  PROVE  IndexInv'
<1> DEFINE x == work[p][1]
<1>1. /\ stage \in [Caller -> {"none", "marshal"} \cup Writing] /\ alone \subseteq Caller
      /\ snap \in [Caller -> Doc] /\ x \in Ix /\ data[x] \in Doc
  BY WorkType DEF IInv, IndexTypeOK, Marshal
<1>2. /\ stage[p] = "marshal" /\ stage'[p] = "open" /\ snap'[p] = data[x]
      /\ \A q \in Caller : q # p => stage'[q] = stage[q] /\ snap'[q] = snap[q]
      /\ UNCHANGED <<data, file, work, suspect>>
  BY <1>1 DEF Marshal
<1>3. ASSUME NEW y \in Ix \ suspect'
      PROVE  (file[y] \in Doc /\ Behind(y, file[y], {"marshal"} \cup Writing))'
  <2>1. file[y] \in Doc /\ Behind(y, file[y], {"marshal"} \cup Writing)
    BY <1>2, <1>3 DEF IInv, IndexInv
  <2>2. \A q \in Caller : stage[q] \in {"marshal"} \cup Writing => stage'[q] \in {"marshal"} \cup Writing
    BY <1>2 DEF Writing
  <2>3. Behind(y, file[y], {"marshal"} \cup Writing)'
    BY <1>2, <2>1, <2>2 DEF Writing, Behind
  <2> QED  BY <1>2, <2>1, <2>3
<1>4. ASSUME NEW q \in alone'
      PROVE  (/\ stage[q] \in Writing
              /\ At(work[q][1], Writing) = {q}
              /\ Behind(work[q][1], snap[q], {"marshal"})
              /\ stage[q] = "fill" => file[work[q][1]] = Empty)'
  <2>1. CASE q = p
    <3>1. At(x, Writing) = {}
      <4>1. p \notin alone  BY <1>2 DEF IInv, IndexInv, Writing
      <4> QED  BY <4>1, <1>4, <2>1 DEF Marshal
    <3>2. At(x, Writing)' = {p}  BY <1>1, <1>2, <3>1 DEF At, Writing
    <3>3. Behind(x, snap[p], {"marshal"})'  BY <1>2 DEF Behind
    <3> QED  BY <1>2, <2>1, <3>2, <3>3 DEF Writing
  <2>2. CASE q # p
    <3>1. /\ q \in alone /\ q \in Caller /\ stage[q] \in Writing
          /\ At(work[q][1], Writing) = {q}
          /\ Behind(work[q][1], snap[q], {"marshal"})
          /\ stage[q] = "fill" => file[work[q][1]] = Empty
      BY <1>1, <1>4, <2>2 DEF IInv, IndexInv, Marshal
    <3>2. q \notin At(x, Writing)
      BY <1>4, <2>2 DEF Marshal
    <3>3. work[q][1] # x  BY <3>1, <3>2 DEF At
    <3>4. At(work[q][1], Writing)' = {q}
      BY <1>1, <1>2, <2>2, <3>1, <3>3 DEF At, Writing
    <3>5. Behind(work[q][1], snap[q], {"marshal"})'
      BY <1>2, <2>2, <3>1, <3>3 DEF Behind
    <3> QED  BY <1>2, <2>2, <3>1, <3>4, <3>5 DEF Writing
  <2> QED  BY <2>1, <2>2
<1> QED  BY <1>3, <1>4 DEF IndexInv

LEMMA OpenFileInv ==
  ASSUME IInv, NEW p \in Caller, OpenFile(p)
  PROVE  IndexInv'
<1> DEFINE x == work[p][1]
<1>1. /\ stage \in [Caller -> {"none", "marshal"} \cup Writing] /\ alone \subseteq Caller
      /\ file \in [Ix -> Doc \cup {Empty, Garbled}] /\ x \in Ix
  BY WorkType DEF IInv, IndexTypeOK, OpenFile
<1>2. /\ stage[p] = "open" /\ stage'[p] = "fill"
      /\ \A q \in Caller : q # p => stage'[q] = stage[q]
      /\ file'[x] = Empty /\ \A y \in Ix : y # x => file'[y] = file[y]
      /\ suspect' = suspect \cup {x}
      /\ UNCHANGED <<data, work, snap, alone>>
  BY <1>1 DEF OpenFile
<1>3. ASSUME NEW y \in Ix \ suspect'
      PROVE  (file[y] \in Doc /\ Behind(y, file[y], {"marshal"} \cup Writing))'
  <2>1. y # x /\ file[y] \in Doc /\ Behind(y, file[y], {"marshal"} \cup Writing)
    BY <1>2, <1>3 DEF IInv, IndexInv
  <2>2. \A q \in Caller : stage[q] \in {"marshal"} \cup Writing => stage'[q] \in {"marshal"} \cup Writing
    BY <1>2 DEF Writing
  <2>3. Behind(y, file[y], {"marshal"} \cup Writing)'
    BY <1>2, <2>1, <2>2 DEF Writing, Behind
  <2> QED  BY <1>2, <2>1, <2>3
<1>4. ASSUME NEW q \in alone'
      PROVE  (/\ stage[q] \in Writing
              /\ At(work[q][1], Writing) = {q}
              /\ Behind(work[q][1], snap[q], {"marshal"})
              /\ stage[q] = "fill" => file[work[q][1]] = Empty)'
  <2>1. /\ q \in Caller /\ stage[q] \in Writing
        /\ At(work[q][1], Writing) = {q}
        /\ Behind(work[q][1], snap[q], {"marshal"})
        /\ stage[q] = "fill" => file[work[q][1]] = Empty
    BY <1>1, <1>2, <1>4 DEF IInv, IndexInv
  <2>2. work[q][1] \in Ix  BY <2>1, WorkType DEF IInv, Writing
  <2>3. At(work[q][1], Writing)' = {q}
    BY <1>1, <1>2, <2>1 DEF At, Writing
  <2>4. Behind(work[q][1], snap[q], {"marshal"})'
    BY <1>2, <2>1 DEF Behind
  <2>5. stage'[q] \in Writing  BY <1>2, <2>1 DEF Writing
  <2>6. file'[work[q][1]] = Empty \/ (q # p /\ file'[work[q][1]] = file[work[q][1]])
    BY <1>2, <2>1, <2>2
  <2> QED  BY <1>2, <2>1, <2>3, <2>4, <2>5, <2>6 DEF Writing
<1> QED  BY <1>3, <1>4 DEF IndexInv

\* The end of a Save: what it leaves to the others.
LEMMA FinishOthers ==
  ASSUME IInv, NEW p \in Caller, stage[p] \in Writing, Finish(p), UNCHANGED data,
         \A y \in Ix : y # work[p][1] => file'[y] = file[y],
         NEW q \in alone'
  PROVE  (/\ stage[q] \in Writing
          /\ At(work[q][1], Writing) = {q}
          /\ Behind(work[q][1], snap[q], {"marshal"})
          /\ stage[q] = "fill" => file[work[q][1]] = Empty)'
<1>1. /\ stage \in [Caller -> {"none", "marshal"} \cup Writing] /\ alone \subseteq Caller
      /\ work \in [Caller -> (Ix \X Key) \cup {NoWork}] /\ snap \in [Caller -> Doc]
  BY DEF IInv, IndexTypeOK
<1>2. /\ stage'[p] = "none" /\ q # p /\ q \in Caller
      /\ \A r \in Caller : r # p => stage'[r] = stage[r] /\ work'[r] = work[r] /\ snap'[r] = snap[r]
  BY <1>1 DEF Finish
<1>3. /\ stage[q] \in Writing
      /\ At(work[q][1], Writing) = {q}
      /\ Behind(work[q][1], snap[q], {"marshal"})
      /\ stage[q] = "fill" => file[work[q][1]] = Empty
  BY <1>1, <1>2 DEF IInv, IndexInv, Finish
<1>4. work[q][1] \in Ix /\ work[q][1] # work[p][1]
  BY <1>2, <1>3, WorkType DEF IInv, At, Writing
<1>5. At(work[q][1], Writing)' = {q}
  BY <1>2, <1>3 DEF At, Writing
<1>6. Behind(work[q][1], snap[q], {"marshal"})'
  <2>1. \A r \in Caller : stage[r] = "marshal" => stage'[r] = "marshal" /\ work'[r] = work[r]
    BY <1>2 DEF Writing
  <2> QED  BY <1>2, <1>3, <2>1 DEF Behind
<1> QED  BY <1>2, <1>3, <1>4, <1>5, <1>6 DEF Writing

\* An index apart from the one whose Save ended is as it was.
LEMMA FinishElsewhere ==
  ASSUME IInv, NEW p \in Caller, stage[p] \in Writing, Finish(p), UNCHANGED data,
         NEW y \in Ix \ suspect, y # work[p][1], file'[y] = file[y]
  PROVE  (file[y] \in Doc /\ Behind(y, file[y], {"marshal"} \cup Writing))'
<1>1. /\ stage \in [Caller -> {"none", "marshal"} \cup Writing]
      /\ work \in [Caller -> (Ix \X Key) \cup {NoWork}]
  BY DEF IInv, IndexTypeOK
<1>2. file[y] \in Doc /\ Behind(y, file[y], {"marshal"} \cup Writing)
  BY DEF IInv, IndexInv
<1>3. \A r \in Caller : r # p => stage'[r] = stage[r] /\ work'[r] = work[r]
  BY <1>1 DEF Finish
<1>4. Behind(y, file[y], {"marshal"} \cup Writing)'
  BY <1>2, <1>3 DEF Behind, Writing
<1> QED  BY <1>2, <1>4

LEMMA FillInv ==
  ASSUME IInv, NEW p \in Caller, Fill(p)
  PROVE  IndexInv'
<1> DEFINE x == work[p][1]
<1>1. /\ file \in [Ix -> Doc \cup {Empty, Garbled}] /\ x \in Ix /\ snap[p] \in Doc
      /\ stage \in [Caller -> {"none", "marshal"} \cup Writing]
      /\ work \in [Caller -> (Ix \X Key) \cup {NoWork}]
  BY WorkType DEF IInv, IndexTypeOK, Fill
<1>2. /\ stage[p] = "fill" /\ stage[p] \in Writing /\ Finish(p) /\ UNCHANGED data
      /\ \A y \in Ix : y # x => file'[y] = file[y]
      /\ suspect' = IF p \in alone THEN suspect \ {x} ELSE suspect \cup {x}
  BY <1>1 DEF Fill, Writing
<1>3. ASSUME NEW y \in Ix \ suspect'
      PROVE  (file[y] \in Doc /\ Behind(y, file[y], {"marshal"} \cup Writing))'
  <2>1. CASE y # x
    BY <1>2, <1>3, <2>1, FinishElsewhere
  <2>2. CASE y = x
    <3>1. p \in alone  BY <1>2, <1>3, <2>2
    <3>2. file[x] = Empty /\ Behind(x, snap[p], {"marshal"})
      BY <1>2, <3>1 DEF IInv, IndexInv
    <3>3. file'[x] = snap[p]
      BY <1>1, <3>2 DEF Fill, Overlay
    <3>4. \A r \in Caller : stage[r] = "marshal" => stage'[r] = "marshal" /\ work'[r] = work[r]
      BY <1>1, <1>2 DEF Finish
    <3>5. Behind(x, snap[p], {"marshal"}) => \A k \in Key : snap[p][k] # data'[x][k] =>
             \E q \in Caller : stage'[q] \in {"marshal"} \cup Writing /\ work'[q] = <<x, k>>
      BY <1>2, <3>4 DEF Behind
    <3>6. Behind(y, file[y], {"marshal"} \cup Writing)'
      BY <2>2, <3>2, <3>3, <3>5 DEF Behind, Writing
    <3> QED  BY <1>1, <2>2, <3>3, <3>6
  <2> QED  BY <2>1, <2>2
<1> QED  BY <1>2, <1>3, FinishOthers DEF IndexInv

LEMMA SaveFailsInv ==
  ASSUME IInv, NEW p \in Caller, SaveFails(p)
  PROVE  IndexInv'
<1> DEFINE x == work[p][1]
<1>1. file \in [Ix -> Doc \cup {Empty, Garbled}]
  BY DEF IInv, IndexTypeOK
<1>2. /\ stage[p] \in Writing /\ Finish(p) /\ UNCHANGED data
      /\ \A y \in Ix : y # x => file'[y] = file[y]
      /\ suspect' = suspect \cup {x}
  BY <1>1 DEF SaveFails
<1>3. ASSUME NEW y \in Ix \ suspect'
      PROVE  (file[y] \in Doc /\ Behind(y, file[y], {"marshal"} \cup Writing))'
  BY <1>2, <1>3, FinishElsewhere
<1> QED  BY <1>2, <1>3, FinishOthers DEF IndexInv

LEMMA ReloadInv ==
  ASSUME IInv, Reload
  PROVE  IndexInv'
<1>1. \A y \in Ix \ suspect' : file'[y] \in Doc /\ data'[y] = file'[y]
  BY DEF Reload
<1>2. ASSUME NEW y \in Ix \ suspect'
      PROVE  (file[y] \in Doc /\ Behind(y, file[y], {"marshal"} \cup Writing))'
  BY <1>1, <1>2 DEF Behind
<1> QED  BY <1>2 DEF IndexInv, Reload

LEMMA NextIInv == IInv /\ [IndexNext]_indexVars => IInv'
<1> SUFFICES ASSUME IInv, [IndexNext]_indexVars PROVE IInv'
  OBVIOUS
<1>1. CASE Reload  BY <1>1, ReloadType, ReloadInv DEF IInv
<1>2. ASSUME NEW p \in Caller, Marshal(p) PROVE IInv'
  BY <1>2, MarshalType, MarshalInv DEF IInv
<1>3. ASSUME NEW p \in Caller, OpenFile(p) PROVE IInv'
  BY <1>3, OpenFileType, OpenFileInv DEF IInv
<1>4. ASSUME NEW p \in Caller, Fill(p) PROVE IInv'
  BY <1>4, FillType, FillInv DEF IInv
<1>5. ASSUME NEW p \in Caller, SaveFails(p) PROVE IInv'
  BY <1>5, SaveFailsType, SaveFailsInv DEF IInv
<1>6. ASSUME NEW p \in Caller, NEW x \in Ix, NEW k \in Key, NEW v \in Ref \cup {NoRef},
             Put(p, x, k, v)
      PROVE  IInv'
  BY <1>6, PutType, PutInv DEF IInv
<1>7. CASE UNCHANGED indexVars
  <2>1. UNCHANGED <<data, file, stage, work, snap, alone, suspect>>  BY <1>7 DEF indexVars
  <2>2. IndexTypeOK'  BY <2>1 DEF IInv, IndexTypeOK
  <2>3. IndexInv'  BY <2>1 DEF IInv, IndexInv, Behind, At
  <2> QED  BY <2>2, <2>3 DEF IInv
<1> QED  BY <1>1, <1>2, <1>3, <1>4, <1>5, <1>6, <1>7 DEF IndexNext

LEMMA IndexInvariance == IndexSpec => []IInv
  BY InitIInv, NextIInv, PTL DEF IndexSpec

LEMMA IInvFile == IInv => FileHoldsIndex
<1> SUFFICES ASSUME IInv, NEW x \in Ix \ suspect, At(x, {"marshal"} \cup Writing) = {}
             PROVE  file[x] = data[x]
  BY DEF FileHoldsIndex
<1>1. file[x] \in Doc /\ data[x] \in Doc  BY DEF IInv, IndexInv, IndexTypeOK
<1>2. \A k \in Key : file[x][k] = data[x][k]
  <2>1. Behind(x, file[x], {"marshal"} \cup Writing)  BY DEF IInv, IndexInv
  <2> QED  BY <2>1 DEF Behind, At
<1> QED  BY <1>1, <1>2 DEF Doc

\* Whatever the interleaving of Set, Delete and Save of any number of goroutines,
\* an index at rest whose last Saves succeeded one by one is on disk as it is in
\* memory: changing data under one lock and writing the file under none
\* (index.go:45-76) loses an entry only where two Saves meet.
THEOREM FileHoldsIndexCorrect == IndexSpec => []FileHoldsIndex
  BY IndexInvariance, IInvFile, PTL

=============================================================================
