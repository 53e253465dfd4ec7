-------------------------------- MODULE Index --------------------------------
(***************************************************************************)
(* The JSON-persisted maps of internal/store/index.go: the router's index  *)
(* and one per remote backend.  A Set or Delete is followed by a Save; the *)
(* lock is held over the change and over json.Marshal, and no lock over    *)
(* os.WriteFile, which truncates the file and then fills it.               *)
(***************************************************************************)
EXTENDS Naturals, FiniteSets

CONSTANTS
    Ix,          \* the indexes of the process
    Key,         \* chunk ids
    Ref,         \* what an entry holds
    NoRef,       \* no entry
    Caller,      \* goroutines
    NoWork,
    Empty,       \* a truncated file
    Garbled      \* a file that json.Unmarshal refuses

VARIABLES
    data,        \* Index.data
    file,        \* what is at Index.dbPath
    stage,       \* where each caller is between a change and the end of its Save
    work,        \* the index and key it changed
    snap,        \* raw, what its Save marshalled
    alone,       \* Saves past their Marshal that met no other on their index
    suspect      \* indexes whose last completed write failed or met another

indexVars == <<data, file, stage, work, snap, alone, suspect>>

\* A document is the entries it holds; NewIndex loads a file that is not there as Blank.
Doc == [Key -> Ref \cup {NoRef}]
Blank == [k \in Key |-> NoRef]
Len(d) == Cardinality({k \in Key : d[k] # NoRef})

ASSUME IndexAssumption ==
    /\ IsFiniteSet(Key)
    /\ NoRef \notin Ref /\ NoWork \notin Ix \X Key
    /\ Empty \notin Doc /\ Garbled \notin Doc /\ Empty # Garbled

Writing == {"open", "fill"}

\* The callers at these stages of a change of x.
At(x, stages) == {p \in Caller : stage[p] \in stages /\ work[p][1] = x}

IndexInit ==
    /\ data = [x \in Ix |-> Blank]
    /\ file = [x \in Ix |-> Blank]
    /\ stage = [p \in Caller |-> "none"]
    /\ work = [p \in Caller |-> NoWork]
    /\ snap = [p \in Caller |-> Blank]
    /\ alone = {}
    /\ suspect = {}

Finish(p) ==
    /\ stage' = [stage EXCEPT ![p] = "none"]
    /\ work' = [work EXCEPT ![p] = NoWork]
    /\ snap' = [snap EXCEPT ![p] = Blank]
    /\ alone' = alone \ {p}

-----------------------------------------------------------------------------
\* Set, or Delete with v = NoRef.  The caller's next step is Save.
Put(p, x, k, v) ==
    /\ stage[p] = "none"
    /\ data' = [data EXCEPT ![x] = [@ EXCEPT ![k] = v]]
    /\ stage' = [stage EXCEPT ![p] = "marshal"]
    /\ work' = [work EXCEPT ![p] = <<x, k>>]
    /\ UNCHANGED <<file, snap, alone, suspect>>

\* Mutant of Marshal: what was marshalled before the change is written.
MarshalEarlier(p) ==
    /\ stage[p] = "marshal"
    /\ LET x == work[p][1]
           others == At(x, Writing)
       IN  /\ snap' = [snap EXCEPT ![p] = [data[x] EXCEPT ![work[p][2]] = NoRef]]
           /\ alone' = IF others = {} THEN alone \cup {p} ELSE alone \ others
    /\ stage' = [stage EXCEPT ![p] = "open"]
    /\ UNCHANGED <<data, file, work, suspect>>

\* Save up to the unlock.
Marshal(p) ==
    /\ stage[p] = "marshal"
    /\ LET x == work[p][1]
           others == At(x, Writing)
       IN  /\ snap' = [snap EXCEPT ![p] = data[x]]
           /\ alone' = IF others = {} THEN alone \cup {p} ELSE alone \ others
    /\ stage' = [stage EXCEPT ![p] = "open"]
    /\ UNCHANGED <<data, file, work, suspect>>

\* WriteFile opens the file with O_TRUNC ...
OpenFile(p) ==
    /\ stage[p] = "open"
    /\ file' = [file EXCEPT ![work[p][1]] = Empty]
    /\ suspect' = suspect \cup {work[p][1]}
    /\ stage' = [stage EXCEPT ![p] = "fill"]
    /\ UNCHANGED <<data, work, snap, alone>>

\* ... and writes raw at its start.  Over what another Save has just written the tail
\* of a longer document stays; documents of as many entries may differ in length.
Overlay(old, raw) ==
    IF old = Empty \/ old = raw \/ (old \in Doc /\ Len(raw) > Len(old)) THEN {raw}
    ELSE IF old \in Doc /\ Len(raw) < Len(old) THEN {Garbled}
    ELSE {raw, Garbled}

Fill(p) ==
    /\ stage[p] = "fill"
    /\ LET x == work[p][1]
       IN  /\ \E f \in Overlay(file[x], snap[p]) : file' = [file EXCEPT ![x] = f]
           /\ suspect' = IF p \in alone THEN suspect \ {x} ELSE suspect \cup {x}
    /\ Finish(p)
    /\ UNCHANGED data

\* The open fails, or the write stops short.
SaveFails(p) ==
    /\ stage[p] \in Writing
    /\ LET x == work[p][1]
       IN  /\ \/ UNCHANGED file
              \/ stage[p] = "fill" /\ file' = [file EXCEPT ![x] = Garbled]
           /\ suspect' = suspect \cup {x}
    /\ Finish(p)
    /\ UNCHANGED data

\* The process dies and is started again: NewIndex reads each file.
Loadable == \A x \in Ix : file[x] \in Doc

\* Mutant of Reload: the error of json.Unmarshal is ignored.
ReloadUnparsed ==
    /\ data' = file
    /\ suspect' = {x \in Ix : file[x] \notin Doc}
    /\ stage' = [p \in Caller |-> "none"]
    /\ work' = [p \in Caller |-> NoWork]
    /\ snap' = [p \in Caller |-> Blank]
    /\ alone' = {}
    /\ UNCHANGED file

Reload ==
    /\ data' = [x \in Ix |-> IF file[x] \in Doc THEN file[x] ELSE Blank]
    /\ suspect' = {x \in Ix : file[x] \notin Doc}
    /\ stage' = [p \in Caller |-> "none"]
    /\ work' = [p \in Caller |-> NoWork]
    /\ snap' = [p \in Caller |-> Blank]
    /\ alone' = {}
    /\ UNCHANGED file

IndexNext ==
    \/ Reload
    \/ \E p \in Caller :
          \/ Marshal(p) \/ OpenFile(p) \/ Fill(p) \/ SaveFails(p)
          \/ \E x \in Ix, k \in Key, v \in Ref \cup {NoRef} : Put(p, x, k, v)

IndexSpec == IndexInit /\ [][IndexNext]_indexVars

-----------------------------------------------------------------------------

IndexTypeOK ==
    /\ data \in [Ix -> Doc]
    /\ file \in [Ix -> Doc \cup {Empty, Garbled}]
    /\ stage \in [Caller -> {"none", "marshal"} \cup Writing]
    /\ work \in [Caller -> (Ix \X Key) \cup {NoWork}]
    /\ \A p \in Caller : stage[p] = "none" <=> work[p] = NoWork
    /\ snap \in [Caller -> Doc]
    /\ alone \subseteq Caller
    /\ suspect \subseteq Ix

\* With no change of an index under way, its file holds exactly its entries, so that
\* a restart loses none and revives none, unless a Save failed or two Saves of it
\* overlapped and none has run by itself since (index.go:45-76).  A change made while
\* another caller's Save runs is not lost to that Save.
FileHoldsIndex ==
    \A x \in Ix \ suspect :
        At(x, {"marshal"} \cup Writing) = {} => file[x] = data[x]

\* The inductive strengthening: a file not suspect differs from the map only at keys
\* whose change is under way, and a Save that met no other holds all but the changes
\* that wait for their Marshal.
Behind(x, d, stages) ==
    \A k \in Key : d[k] # data[x][k] =>
        \E p \in Caller : stage[p] \in stages /\ work[p] = <<x, k>>

IndexInv ==
    /\ \A x \in Ix \ suspect :
          file[x] \in Doc /\ Behind(x, file[x], {"marshal"} \cup Writing)
    /\ \A p \in alone :
          /\ stage[p] \in Writing
          /\ At(work[p][1], Writing) = {p}
          /\ Behind(work[p][1], snap[p], {"marshal"})
          /\ stage[p] = "fill" => file[work[p][1]] = Empty

=============================================================================
