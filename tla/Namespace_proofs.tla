-------------------------- MODULE Namespace_proofs --------------------------
(***************************************************************************)
(* Proofs about Namespace, for any finite set of inode numbers, any names  *)
(* and any number of failures and crashes: every statement is one step of  *)
(* FileTree, the nodes form a tree, a rename keeps its source, and nlink   *)
(* drifts by at most one per failure.                                      *)
(***************************************************************************)
EXTENDS Namespace, TLAPS, FiniteSetTheorems

LEMMA NoPlace == Nowhere \notin Place
  BY NamespaceAssumption DEF Place, Tree!Place, Tree!Ino

-----------------------------------------------------------------------------
\* The steps of op.

LEMMA GotoOp ==
  ASSUME op \in Operation, NEW pc \in {"idle", "bump", "dropParent", "clear", "dropTarget",
                                       "move", "leave", "enter"},
         Goto(pc)
  PROVE  op' \in Operation /\ op'.pc = pc /\ op'.from = op.from /\ op'.to = op.to
  BY DEF Goto, Operation

LEMMA NoOpOp == NoOp \in Operation /\ NoOp.pc = "idle" /\ NoOp.from = Nowhere /\ NoOp.to = Nowhere
  BY DEF NoOp, Operation

LEMMA StartOp ==
  ASSUME NEW pc \in {"bump", "dropParent"}, NEW at \in Place,
         op' = [NoOp EXCEPT !.pc = pc, !.to = at]
  PROVE  op' \in Operation /\ op'.pc = pc /\ op'.to = at
  BY DEF NoOp, Operation

-----------------------------------------------------------------------------
\* What a step of FileTree keeps.

TreeInv == Tree!TypeOK /\ Tree!IsTree

LEMMA AddKeepsTree ==
  ASSUME TreeInv, NEW i \in Node, NEW at \in Place, NEW k \in {"file", "dir"},
         Tree!Add(i, at, k)
  PROVE  TreeInv'
<1> USE DEF TreeInv, Tree!TypeOK, Tree!Add, Tree!Live, Tree!IsDir, Place, Tree!Place, Tree!Ino
<1>1. Tree!TypeOK'  BY NoPlace
<1>2. Live' = Live \cup {i} /\ i \notin Live  BY DEF Live
<1>3. \A j \in Live : place'[j] = place[j]  BY <1>2 DEF Live
<1>4. Tree!NamesUnique'
  BY <1>2, <1>3 DEF Tree!IsTree, Tree!NamesUnique, Tree!Free, Live
<1>5. Tree!ParentsAreDirs'
  BY <1>2, <1>3 DEF Tree!IsTree, Tree!ParentsAreDirs, Live
<1>6. \A j \in Live : place[j][1] # i
  BY <1>2, NamespaceAssumption DEF Tree!IsTree, Tree!ParentsAreDirs, Live
<1>7. ASSUME NEW S \in SUBSET Live', S # {}, \A j \in S : place'[j][1] \in S PROVE FALSE
  <2>1. S \ {i} \in SUBSET Live  BY <1>2
  <2>2. \A j \in S \ {i} : place[j][1] \in S \ {i}  BY <1>7, <1>3, <1>6, <2>1
  <2>3. S \ {i} = {}  BY <2>1, <2>2 DEF Tree!IsTree, Tree!Rooted, Live
  <2>4. S = {i} /\ place'[i][1] = i  BY <2>3, <1>7
  <2> QED  BY <2>4, <1>2, NamespaceAssumption DEF Live
<1>8. Tree!Rooted'  BY <1>7 DEF Tree!Rooted, Live
<1> QED  BY <1>1, <1>4, <1>5, <1>8 DEF Tree!IsTree

LEMMA RemoveKeepsTree ==
  ASSUME TreeInv, NEW i \in Node, Tree!Remove(i)
  PROVE  TreeInv'
<1> USE DEF TreeInv, Tree!TypeOK, Tree!Remove, Tree!Live, Tree!IsDir, Place, Tree!Place, Tree!Ino
<1>1. Tree!TypeOK'  BY NoPlace
<1>2. Live' = Live \ {i} /\ i \in Live  BY DEF Live
<1>3. \A j \in Live' : place'[j] = place[j] /\ kind'[j] = kind[j] /\ place[j][1] # i
  BY <1>2 DEF Live, Tree!Children
<1>4. Tree!NamesUnique'
  BY <1>2, <1>3 DEF Tree!IsTree, Tree!NamesUnique, Live
<1>5. Tree!ParentsAreDirs'
  BY <1>2, <1>3 DEF Tree!IsTree, Tree!ParentsAreDirs, Live
<1>6. Tree!Rooted'
  BY <1>2, <1>3 DEF Tree!IsTree, Tree!Rooted, Live
<1> QED  BY <1>1, <1>4, <1>5, <1>6 DEF Tree!IsTree

LEMMA MoveKeepsTree ==
  ASSUME TreeInv, NEW i \in Node, NEW at \in Place, Tree!Move(i, at)
  PROVE  TreeInv'
<1> USE DEF TreeInv, Tree!TypeOK, Tree!Move, Tree!Live, Tree!IsDir, Place, Tree!Place, Tree!Ino
<1>1. Tree!TypeOK'  BY NoPlace
<1>2. Live' = Live /\ i \in Live /\ (\A j \in Live \ {i} : place'[j] = place[j]) /\ place'[i] = at
  BY DEF Live
<1>3. Tree!NamesUnique'
  BY <1>2 DEF Tree!IsTree, Tree!NamesUnique, Tree!Free, Live
<1>4. Tree!ParentsAreDirs'
  BY <1>2 DEF Tree!IsTree, Tree!ParentsAreDirs, Live
<1>5. ASSUME NEW S \in SUBSET Live', S # {}, \A j \in S : place'[j][1] \in S PROVE FALSE
  <2>1. CASE i \notin S
    BY <2>1, <1>2, <1>5 DEF Tree!IsTree, Tree!Rooted, Live
  <2>2. CASE i \in S
    <3>1. at[1] \in S /\ at[1] \in Live  BY <2>2, <1>2, <1>5
    <3>2. at[1] # Root  BY <3>1, NamespaceAssumption DEF Live
    <3>3. kind[at[1]] = "dir"  BY <3>2
    <3>4. CASE kind[i] # "dir"
      \* i has no children, so nothing in S but i could lead to it.
      <4>1. \A j \in Live : place[j][1] # i
        BY <3>4, <1>2, NamespaceAssumption DEF Tree!IsTree, Tree!ParentsAreDirs, Live
      <4>2. at[1] # i  BY <3>3, <3>4
      <4>3. S \ {i} # {} /\ S \ {i} \in SUBSET Live  BY <3>1, <4>2, <1>2
      <4>4. \A j \in S \ {i} : place[j][1] \in S \ {i}  BY <4>1, <1>2, <1>5
      <4> QED  BY <4>3, <4>4 DEF Tree!IsTree, Tree!Rooted, Live
    <3>5. CASE kind[i] = "dir"
      <4>1. PICK T \in SUBSET Live : /\ at[1] \in T /\ i \notin T
                                     /\ \A j \in T : place[j][1] \in T \cup {Root}
        BY <3>5, <3>2 DEF Tree!OutOf, Tree!Within, Live
      <4>2. S \cap T # {} /\ S \cap T \in SUBSET Live  BY <4>1, <3>1
      <4>3. \A j \in S \cap T : place[j][1] \in S \cap T
        BY <4>1, <1>2, <1>5, NamespaceAssumption DEF Live
      <4> QED  BY <4>2, <4>3 DEF Tree!IsTree, Tree!Rooted, Live
    <3> QED  BY <3>4, <3>5
  <2> QED  BY <2>1, <2>2
<1>6. Tree!Rooted'  BY <1>5 DEF Tree!Rooted, Live
<1> QED  BY <1>1, <1>3, <1>4, <1>6 DEF Tree!IsTree

-----------------------------------------------------------------------------
\* What the running handler relies on at each statement.

RenameGoesOn(i) ==
    /\ i \in Live /\ place[i] = op.from /\ op.from # op.to
    /\ IsDir(op.to[1])
    /\ IsDir(i) => Tree!OutOf(op.to[1], i)

OpInv ==
    /\ op.pc # "idle" => op.to \in Place
    /\ op.pc \in {"clear", "dropTarget", "move"} => \E i \in Live : RenameGoesOn(i)
    /\ op.pc \in {"dropTarget", "move"} => Free(op.to)
    /\ op.pc \in {"leave", "enter"} =>
          /\ op.from \in Place /\ op.from[1] # op.to[1]
          /\ \E i \in Live : IsAt(i, op.to) /\ IsDir(i)

SInv == TypeOK /\ Tree!IsTree /\ OpInv

LEMMA InitSInv == Init => SInv
<1> SUFFICES ASSUME Init PROVE SInv
  OBVIOUS
<1>1. Tree!TypeOK  BY NoPlace DEF Init, Tree!Init, Tree!TypeOK, Place
<1>2. Live = {}  BY DEF Init, Tree!Init, Live, Tree!Live
<1>3. Tree!IsTree
  BY <1>2 DEF Live, Tree!IsTree, Tree!NamesUnique, Tree!ParentsAreDirs, Tree!Rooted
<1>4. TypeOK  BY <1>1, NoOpOp, NamespaceAssumption DEF Init, TypeOK
<1>5. OpInv  BY NoOpOp DEF Init, OpInv
<1> QED  BY <1>3, <1>4, <1>5 DEF SInv

\* The statements that leave the tree alone.
LEMMA AdjustSInv ==
  ASSUME SInv, NEW i \in Ino, NEW n \in Int,
         NEW pc \in {"idle", "bump", "dropParent", "clear", "dropTarget", "move", "leave",
                     "enter"},
         Adjust(i, n, pc),
         \/ pc = "idle"
         \/ pc = "move" /\ op.pc = "dropTarget"
         \/ pc = "enter" /\ op.pc = "leave"
  PROVE  SInv'
<1>1. UNCHANGED <<place, kind>> /\ Live' = Live  BY DEF Adjust, Live, Tree!Live
<1>2. \/ op' = NoOp
      \/ pc # "idle" /\ op' \in Operation /\ op'.pc = pc /\ op'.from = op.from /\ op'.to = op.to
  BY GotoOp DEF Adjust, Return, SInv, TypeOK
<1>3. TypeOK'
  <2>1. op' \in Operation  BY <1>2, NoOpOp
  <2>2. faults' \in 0..MaxFaults
    BY NamespaceAssumption DEF Adjust, Works, Fails, SInv, TypeOK
  <2>3. nlink' \in [Ino -> Int]  BY DEF Adjust, AddLinks, SInv, TypeOK
  <2>4. Tree!TypeOK'  BY <1>1 DEF SInv, TypeOK, Tree!TypeOK
  <2> QED  BY <2>1, <2>2, <2>3, <2>4 DEF TypeOK
<1>4. Tree!IsTree'
  BY <1>1 DEF SInv, Tree!IsTree, Tree!NamesUnique, Tree!ParentsAreDirs, Tree!Rooted, Tree!IsDir,
              Live, Tree!Live
<1>5. OpInv'
  <2>1. CASE op' = NoOp  BY <2>1, NoOpOp DEF OpInv
  <2>2. CASE op'.pc = "move" /\ op.pc = "dropTarget" /\ op'.from = op.from /\ op'.to = op.to
    BY <2>2, <1>1 DEF SInv, OpInv, RenameGoesOn, Free, Tree!Free, IsDir, Tree!IsDir, Tree!OutOf,
                      Tree!Within, Live, Tree!Live, IsAt
  <2>3. CASE op'.pc = "enter" /\ op.pc = "leave" /\ op'.from = op.from /\ op'.to = op.to
    BY <2>3, <1>1 DEF SInv, OpInv, IsDir, Tree!IsDir, Live, Tree!Live, IsAt
  <2> QED  BY <2>1, <2>2, <2>3, <1>2
<1> QED  BY <1>3, <1>4, <1>5 DEF SInv

LEMMA CrashSInv == SInv /\ Crash => SInv'
<1> SUFFICES ASSUME SInv, Crash PROVE SInv'
  OBVIOUS
<1>1. UNCHANGED <<place, kind, nlink>> /\ op' = NoOp  BY DEF Crash, Return
<1>2. TypeOK'
  BY <1>1, NoOpOp, NamespaceAssumption
  DEF Crash, Fails, SInv, TypeOK, Tree!TypeOK
<1>3. Tree!IsTree'
  BY <1>1 DEF SInv, Tree!IsTree, Tree!NamesUnique, Tree!ParentsAreDirs, Tree!Rooted, Tree!IsDir,
              Tree!Live
<1>4. OpInv'  BY <1>1, NoOpOp DEF OpInv
<1> QED  BY <1>2, <1>3, <1>4 DEF SInv

\* The statements that are steps of the tree.
LEMMA InsertIsAdd ==
  ASSUME NEW i \in Node, NEW at \in Place, NEW k \in {"file", "dir"}, Insert(i, at, k)
  PROVE  Tree!Add(i, at, k)
  BY DEF Insert, Tree!Add, Live, IsDir, Free

LEMMA DeleteIsRemove ==
  ASSUME NEW i \in Live, DeleteRow(i)
  PROVE  Tree!Remove(i)
  BY DEF DeleteRow, Tree!Remove, Live, Children

LEMMA InsertSInv ==
  ASSUME SInv, NEW i \in Node, NEW at \in Place, Mknod(i, at) \/ Mkdir(i, at)
  PROVE  SInv'
<1>1. TreeInv'
  BY InsertIsAdd, AddKeepsTree DEF Mknod, Mkdir, SInv, TypeOK, TreeInv
<1>2. /\ op' \in Operation /\ op'.pc \in {"idle", "bump"}
      /\ op'.pc # "idle" => op'.to \in Place
  BY StartOp DEF Mknod, Mkdir, Insert, Idle, SInv, TypeOK
<1>3. TypeOK'
  <2>1. nlink' \in [Ino -> Int] /\ UNCHANGED faults
    BY DEF Mknod, Mkdir, Insert, SInv, TypeOK, Ino, Tree!Ino
  <2> QED  BY <1>1, <1>2, <2>1 DEF TreeInv, TypeOK, SInv
<1>4. OpInv'  BY <1>2 DEF OpInv
<1> QED  BY <1>1, <1>3, <1>4 DEF SInv, TreeInv

LEMMA DeleteType ==
  ASSUME SInv, NEW i \in Live, DeleteRow(i)
  PROVE  TreeInv' /\ nlink' \in [Ino -> Int]
<1>1. TreeInv'
  BY DeleteIsRemove, RemoveKeepsTree DEF SInv, TypeOK, TreeInv, Live, Tree!Live
<1>2. nlink \in [Ino -> Int]  BY DEF SInv, TypeOK
<1>3. i \in Ino  BY DEF Live, Tree!Live, Ino, Tree!Ino
<1>4. nlink' \in [Ino -> Int]  BY <1>2, <1>3 DEF DeleteRow
<1> QED  BY <1>1, <1>4

LEMMA UnlinkSInv ==
  ASSUME SInv, NEW i \in Node, Unlink(i)
  PROVE  SInv'
<1>1. TreeInv' /\ nlink' \in [Ino -> Int]  BY DeleteType DEF Unlink
<1>2. TypeOK'  BY <1>1 DEF Unlink, SInv, TypeOK, TreeInv
<1>3. OpInv'  BY DEF Unlink, Idle, OpInv
<1> QED  BY <1>1, <1>2, <1>3 DEF SInv, TreeInv

LEMMA RmdirSInv ==
  ASSUME SInv, NEW i \in Node, Rmdir(i)
  PROVE  SInv'
<1>1. TreeInv' /\ nlink' \in [Ino -> Int]  BY DeleteType DEF Rmdir
<1>2. place[i] \in Place
  BY DEF Rmdir, SInv, TypeOK, Tree!TypeOK, Live, Tree!Live, Place
<1>3. op' \in Operation /\ op'.pc = "dropParent" /\ op'.to \in Place
  BY <1>2, StartOp DEF Rmdir
<1>4. TypeOK'  BY <1>1, <1>3 DEF Rmdir, SInv, TypeOK, TreeInv
<1>5. OpInv'  BY <1>3 DEF OpInv
<1> QED  BY <1>1, <1>4, <1>5 DEF SInv, TreeInv

LEMMA RenameSInv ==
  ASSUME SInv, NEW i \in Node, NEW to \in Place, Rename(i, to)
  PROVE  SInv'
<1>1. UNCHANGED <<place, kind, nlink, faults>> /\ Live' = Live
  BY DEF Rename, Live, Tree!Live
<1>2. i \in Live /\ place[i] \in Place
  BY DEF Rename, RenameAllowed, SInv, TypeOK, Tree!TypeOK, Live, Tree!Live, Place
<1>3. /\ op' \in Operation /\ op'.from = place[i] /\ op'.to = to
      /\ (op'.pc = "move" /\ Free(to)) \/ op'.pc = "clear"
  BY <1>2 DEF Rename, Operation
<1>4. TypeOK'
  BY <1>1, <1>3 DEF SInv, TypeOK, Tree!TypeOK
<1>5. Tree!IsTree'
  BY <1>1 DEF SInv, Tree!IsTree, Tree!NamesUnique, Tree!ParentsAreDirs, Tree!Rooted, Tree!IsDir,
              Tree!Live
<1>6. RenameGoesOn(i)'
  BY <1>1, <1>2, <1>3 DEF Rename, RenameAllowed, RenameGoesOn, IsDir, Tree!IsDir, Tree!OutOf,
                          Tree!Within, Live, Tree!Live
<1>7. Free(to)' <=> Free(to)  BY <1>1 DEF Free, Tree!Free, Tree!Live
<1>8. OpInv'  BY <1>1, <1>2, <1>3, <1>6, <1>7 DEF OpInv
<1> QED  BY <1>4, <1>5, <1>8 DEF SInv

LEMMA ClearSInv == SInv /\ ClearTarget => SInv'
<1> SUFFICES ASSUME SInv, ClearTarget PROVE SInv'
  OBVIOUS
<1>1. CASE Return /\ UNCHANGED <<place, kind, nlink>>
  <2>1. TypeOK'
    BY <1>1, NoOpOp DEF ClearTarget, Return, SInv, TypeOK, Tree!TypeOK
  <2>2. Tree!IsTree'
    BY <1>1 DEF SInv, Tree!IsTree, Tree!NamesUnique, Tree!ParentsAreDirs, Tree!Rooted, Tree!IsDir,
                Tree!Live
  <2>3. OpInv'  BY <1>1, NoOpOp DEF Return, OpInv
  <2> QED  BY <2>1, <2>2, <2>3 DEF SInv
<1>2. CASE \E j \in Live : /\ IsAt(j, op.to) /\ DeleteRow(j)
                           /\ Goto(IF IsDir(j) THEN "dropTarget" ELSE "move")
  <2>1. PICK j \in Live : /\ IsAt(j, op.to) /\ DeleteRow(j)
                          /\ Goto(IF IsDir(j) THEN "dropTarget" ELSE "move")
    BY <1>2
  <2>2. TreeInv' /\ nlink' \in [Ino -> Int]  BY <2>1, DeleteType
  <2>3. /\ op' \in Operation /\ op'.pc \in {"dropTarget", "move"}
        /\ op'.from = op.from /\ op'.to = op.to
    BY <2>1, GotoOp DEF SInv, TypeOK
  <2>4. TypeOK'  BY <2>2, <2>3 DEF ClearTarget, SInv, TypeOK, TreeInv
  <2>5. PICK i \in Live : RenameGoesOn(i)  BY DEF ClearTarget, SInv, OpInv
  <2>6. /\ Live' = Live \ {j} /\ i # j
        /\ \A k \in Live' : place'[k] = place[k] /\ kind'[k] = kind[k] /\ place[k][1] # j
    BY <2>1, <2>5
    DEF DeleteRow, RenameGoesOn, IsAt, Live, Tree!Live, Children, Tree!Children, SInv, TypeOK,
        Tree!TypeOK
  <2>7. op.to[1] # j
    BY <2>1 DEF DeleteRow, IsAt, Children, Tree!Children, Live
  <2>8. IsDir(op.to[1])' /\ (IsDir(i)' <=> IsDir(i))
    <3>1. op.to[1] = Root \/ op.to[1] \in Live \ {j}
      BY <2>5, <2>7 DEF RenameGoesOn, IsDir, Tree!IsDir, Live, Tree!Live
    <3> QED  BY <3>1, <2>3, <2>5, <2>6 DEF RenameGoesOn, IsDir, Tree!IsDir
  <2>9. ASSUME IsDir(i) PROVE Tree!OutOf(op.to[1], i)'
    <3>1. CASE op.to[1] = Root  BY <3>1, <2>3 DEF Tree!OutOf
    <3>2. CASE op.to[1] # Root
      <4>1. PICK T \in SUBSET Live : /\ op.to[1] \in T /\ i \notin T
                                     /\ \A k \in T : place[k][1] \in T \cup {Root}
        BY <2>5, <2>9, <3>2 DEF RenameGoesOn, Tree!OutOf, Tree!Within, Live
      <4>2. T \ {j} \in SUBSET Live'  BY <2>6
      <4>3. op.to[1] \in T \ {j} /\ i \notin T \ {j}  BY <4>1, <2>7
      <4>4. \A k \in T \ {j} : place'[k][1] \in (T \ {j}) \cup {Root}
        BY <4>1, <4>2, <2>6
      <4>5. ~Tree!Within(op.to[1], i)'
        BY <4>2, <4>3, <4>4, <2>3 DEF Tree!Within, Live
      <4> QED  BY <4>5, <2>3 DEF Tree!OutOf
    <3> QED  BY <3>1, <3>2
  <2>10. RenameGoesOn(i)'
    BY <2>3, <2>5, <2>6, <2>8, <2>9 DEF RenameGoesOn
  <2>11. Free(op.to)'
    <3>1. \A k \in Live' : place'[k] # op.to
      BY <2>1, <2>6 DEF SInv, Tree!IsTree, Tree!NamesUnique, IsAt, Live
    <3> QED  BY <3>1, <2>3 DEF Free, Tree!Free, Live
  <2>12. OpInv'
    BY <2>3, <2>5, <2>6, <2>10, <2>11 DEF OpInv, ClearTarget, SInv
  <2> QED  BY <2>2, <2>4, <2>12 DEF SInv, TreeInv
<1> QED  BY <1>1, <1>2 DEF ClearTarget

LEMMA MoveIsMove ==
  ASSUME SInv, op.pc = "move", NEW i \in Live, IsAt(i, op.from),
         place' = [place EXCEPT ![i] = op.to], UNCHANGED kind
  PROVE  Tree!Move(i, op.to)
<1>1. PICK j \in Live : RenameGoesOn(j)  BY DEF SInv, OpInv
<1>2. j = i
  BY <1>1 DEF RenameGoesOn, IsAt, SInv, Tree!IsTree, Tree!NamesUnique, Live
<1> QED
  BY <1>1, <1>2 DEF RenameGoesOn, SInv, OpInv, Tree!Move, Live, IsDir, Free

LEMMA MoveSInv == SInv /\ MoveRow => SInv'
<1> SUFFICES ASSUME SInv, MoveRow PROVE SInv'
  OBVIOUS
<1>1. op.to \in Place /\ faults' \in 0..MaxFaults
  BY NamespaceAssumption DEF MoveRow, SInv, OpInv, TypeOK, Works, Fails
<1>2. CASE Return /\ UNCHANGED place
  <2>1. TypeOK'
    BY <1>1, <1>2, NoOpOp DEF MoveRow, Return, SInv, TypeOK, Tree!TypeOK
  <2>2. Tree!IsTree'
    BY <1>2 DEF MoveRow, SInv, Tree!IsTree, Tree!NamesUnique, Tree!ParentsAreDirs, Tree!Rooted,
                Tree!IsDir, Tree!Live
  <2>3. OpInv'  BY <1>2, NoOpOp DEF Return, OpInv
  <2> QED  BY <2>1, <2>2, <2>3 DEF SInv
<1>3. CASE \E i \in Live :
             /\ IsAt(i, op.from)
             /\ place' = [place EXCEPT ![i] = op.to]
             /\ IF IsDir(i) /\ op.from[1] # op.to[1] THEN Goto("leave") ELSE Return
  <2>1. PICK i \in Live :
             /\ IsAt(i, op.from)
             /\ place' = [place EXCEPT ![i] = op.to]
             /\ IF IsDir(i) /\ op.from[1] # op.to[1] THEN Goto("leave") ELSE Return
    BY <1>3
  <2>2. i \in Node /\ place[i] \in Place /\ place[i] = op.from
    BY <2>1 DEF IsAt, SInv, TypeOK, Tree!TypeOK, Live, Tree!Live, Place
  <2>3. TreeInv'
    BY <1>1, <2>1, <2>2, MoveIsMove, MoveKeepsTree DEF MoveRow, SInv, TypeOK, TreeInv
  <2>4. \/ op' = NoOp
        \/ /\ op' \in Operation /\ op'.pc = "leave" /\ op'.from = op.from /\ op'.to = op.to
           /\ IsDir(i) /\ op.from[1] # op.to[1]
    BY <2>1, GotoOp DEF Return, SInv, TypeOK
  <2>5. TypeOK'
    <3>1. op' \in Operation  BY <2>4, NoOpOp
    <3> QED  BY <1>1, <2>3, <3>1 DEF MoveRow, SInv, TypeOK, TreeInv
  <2>6. OpInv'
    <3>1. CASE op' = NoOp  BY <3>1, NoOpOp DEF OpInv
    <3>2. CASE op'.pc = "leave" /\ op'.from = op.from /\ op'.to = op.to
      <4>1. i \in Live' /\ IsAt(i, op.to)' /\ IsDir(i)'
        BY <2>1, <2>2, <2>4, <3>2, NoOpOp
        DEF MoveRow, IsAt, IsDir, Tree!IsDir, Live, Tree!Live, SInv, TypeOK, Tree!TypeOK
      <4> QED  BY <1>1, <2>2, <2>4, <3>2, <4>1, NoOpOp DEF OpInv
    <3> QED  BY <3>1, <3>2, <2>4
  <2> QED  BY <2>3, <2>5, <2>6 DEF SInv, TreeInv
<1> QED  BY <1>2, <1>3 DEF MoveRow

-----------------------------------------------------------------------------

LEMMA NextSInv == SInv /\ [Next]_vars => SInv'
<1> SUFFICES ASSUME SInv, [Next]_vars PROVE SInv'
  OBVIOUS
<1>1. \A at \in Place : at[1] \in Ino  BY DEF Place, Tree!Place, Ino
<1>2. CASE Handlers
  BY <1>2, UnlinkSInv, RmdirSInv, InsertSInv, RenameSInv DEF Handlers
<1>3. CASE BumpParent
  BY <1>1, <1>3, AdjustSInv DEF BumpParent, SInv, OpInv
<1>4. CASE DropParent
  BY <1>1, <1>4, AdjustSInv DEF DropParent, SInv, OpInv
<1>5. CASE ClearTarget  BY <1>5, ClearSInv
<1>6. CASE DropTarget
  BY <1>1, <1>6, AdjustSInv DEF DropTarget, SInv, OpInv
<1>7. CASE MoveRow  BY <1>7, MoveSInv
<1>8. CASE LeaveParent
  BY <1>1, <1>8, AdjustSInv DEF LeaveParent, SInv, OpInv
<1>9. CASE EnterParent
  BY <1>1, <1>9, AdjustSInv DEF EnterParent, SInv, OpInv
<1>10. CASE Crash  BY <1>10, CrashSInv
<1>11. CASE UNCHANGED vars
  <2>1. UNCHANGED <<place, kind, nlink, op, faults>>  BY <1>11 DEF vars
  <2>2. TypeOK'  BY <2>1 DEF SInv, TypeOK, Tree!TypeOK
  <2>3. Tree!IsTree'
    BY <2>1 DEF SInv, Tree!IsTree, Tree!NamesUnique, Tree!ParentsAreDirs, Tree!Rooted,
                Tree!IsDir, Tree!Live
  <2>4. OpInv'
    BY <2>1 DEF SInv, OpInv, RenameGoesOn, Free, Tree!Free, IsDir, Tree!IsDir, Tree!OutOf,
                Tree!Within, Live, Tree!Live, IsAt
  <2> QED  BY <2>2, <2>3, <2>4 DEF SInv
<1> QED
  BY <1>2, <1>3, <1>4, <1>5, <1>6, <1>7, <1>8, <1>9, <1>10, <1>11 DEF Next, Statements

LEMMA NamespaceInvariance == Spec => []SInv
  BY InitSInv, NextSInv, PTL DEF Spec

\* The rows, nlink and the running handler keep their types: nothing but a handler's
\* own statements changes inodes, and a row is there exactly when its place is.
THEOREM NamespaceTypeCorrect == Spec => []TypeOK
<1>1. SInv => TypeOK  BY DEF SInv
<1> QED  BY <1>1, NamespaceInvariance, PTL

\* At every step, through failures and crashes, names are unique in their directory
\* and every node is reached from the root: the foreign key and UNIQUE(parent_ino,
\* name) of the schema (meta.go:51-64), and what the kernel lets through, are enough.
THEOREM NamesFormTreeCorrect == Spec => []NamesFormTree
<1>1. SInv => NamesFormTree  BY DEF SInv, NamesFormTree
<1> QED  BY <1>1, NamespaceInvariance, PTL

\* Rename removes what is at the new name before it looks the old one up
\* (meta.go:355-365), and still finds what it moves.
THEOREM RenameKeepsSourceCorrect == Spec => []RenameKeepsSource
<1>1. SInv => RenameKeepsSource
  BY DEF SInv, OpInv, RenameGoesOn, RenameKeepsSource, IsAt
<1> QED  BY <1>1, NamespaceInvariance, PTL

-----------------------------------------------------------------------------
\* Every step is one step of FileTree or changes neither place nor kind.

LEMMA StepImplementsTree == SInv /\ [Next]_vars => [Tree!Next]_(Tree!treeVars)
<1> SUFFICES ASSUME SInv, [Next]_vars
             PROVE  Tree!Next \/ UNCHANGED <<place, kind>>
  BY DEF Tree!treeVars
<1>1. ASSUME NEW i \in Node, NEW at \in Place, Mknod(i, at) \/ Mkdir(i, at) PROVE Tree!Next
  BY <1>1, InsertIsAdd DEF Mknod, Mkdir, Tree!Next, Place
<1>2. ASSUME NEW i \in Live, DeleteRow(i) PROVE Tree!Next
  BY <1>2, DeleteIsRemove DEF Tree!Next, Live, Tree!Live
<1>3. CASE Handlers
  BY <1>1, <1>2, <1>3 DEF Handlers, Unlink, Rmdir, Rename
<1>4. CASE ClearTarget
  BY <1>2, <1>4 DEF ClearTarget
<1>5. CASE MoveRow
  <2>1. SUFFICES ASSUME NEW i \in Live, IsAt(i, op.from), place' = [place EXCEPT ![i] = op.to]
                 PROVE  Tree!Next
    BY <1>5 DEF MoveRow
  <2>2. Tree!Move(i, op.to)  BY <1>5, <2>1, MoveIsMove DEF MoveRow
  <2>3. op.to \in Place  BY <1>5 DEF MoveRow, SInv, OpInv
  <2> QED  BY <2>2, <2>3 DEF Tree!Next, Place, Live, Tree!Live
<1> QED
  BY <1>3, <1>4, <1>5
  DEF Next, Statements, BumpParent, DropParent, DropTarget, LeaveParent, EnterParent, Adjust,
      Crash, vars

\* Namespace implements FileTree: the statements of CreateNode, RemoveNode and Rename,
\* with their failures and crashes, are single additions, removals of empty nodes and
\* moves to free places outside the moved directory.
THEOREM NamespaceRefinesTree == Spec => ImplementsFileTree
<1>1. Init => Tree!Init  BY DEF Init
<1> QED  BY <1>1, NamespaceInvariance, StepImplementsTree, PTL DEF Spec, ImplementsFileTree, Tree!Spec

-----------------------------------------------------------------------------
\* The count of links.

LEMMA SubdirsFinite ==
  ASSUME NEW i
  PROVE  IsFiniteSet(Subdirs(i)) /\ Cardinality(Subdirs(i)) \in Nat
<1>1. Subdirs(i) \subseteq Node  BY DEF Subdirs, Children, Tree!Children, Tree!Live
<1> QED  BY <1>1, NamespaceAssumption, FS_Subset, FS_CardinalityType

\* A set that gains or loses one node at most.
LEMMA CountChange ==
  ASSUME NEW S, NEW T, IsFiniteSet(S), NEW x
  PROVE  /\ x \notin S /\ T = S \cup {x} => Cardinality(T) = Cardinality(S) + 1
         /\ x \in S /\ T = S \ {x} => Cardinality(T) = Cardinality(S) - 1
  BY FS_AddElement, FS_RemoveElement

LEMMA InsertLinks ==
  ASSUME SInv, NEW i \in Node, NEW at \in Place, NEW k \in {"file", "dir"}, Insert(i, at, k),
         NEW d \in Ino, IsDir(d)'
  PROVE  \/ d = i /\ k = "dir" /\ TrueLinks(d)' = 1 /\ at[1] # d
         \/ d # i /\ IsDir(d) /\ TrueLinks(d)' = TrueLinks(d) + (IF k = "dir" /\ d = at[1] THEN 1 ELSE 0)
<1> USE DEF IsDir, Tree!IsDir
<1>1. /\ Live' = Live \cup {i} /\ i \notin Live /\ i # Root
      /\ \A j \in Live : place'[j] = place[j] /\ kind'[j] = kind[j] /\ place[j][1] # i
      /\ place'[i] = at /\ kind'[i] = k /\ at[1] # i
  BY NamespaceAssumption
  DEF Insert, Live, Tree!Live, SInv, TypeOK, Tree!TypeOK, Tree!IsTree, Tree!ParentsAreDirs
<1>2. CASE d = i
  <2>1. Subdirs(d)' = {}
    BY <1>1, <1>2 DEF Subdirs, Children, Tree!Children, Live
  <2> QED  BY <1>1, <1>2, <2>1, FS_EmptySet DEF TrueLinks
<1>3. CASE d # i
  <2>1. IsDir(d)  BY <1>1, <1>3 DEF Insert, SInv, TypeOK, Tree!TypeOK
  <2>2. CASE k = "dir" /\ d = at[1]
    <3>1. Subdirs(d)' = Subdirs(d) \cup {i} /\ i \notin Subdirs(d)
      BY <1>1, <2>2, NamespaceAssumption DEF Subdirs, Children, Tree!Children, Live, Tree!Live
    <3>2. Cardinality(Subdirs(d)') = Cardinality(Subdirs(d)) + 1
      BY <3>1, SubdirsFinite, CountChange
    <3> QED  BY <1>3, <2>1, <2>2, <3>2, SubdirsFinite DEF TrueLinks
  <2>3. CASE ~(k = "dir" /\ d = at[1])
    <3>1. Subdirs(d)' = Subdirs(d)
      BY <1>1, <2>3, NamespaceAssumption DEF Subdirs, Children, Tree!Children, Live, Tree!Live
    <3> QED  BY <1>3, <2>1, <2>3, <3>1, SubdirsFinite DEF TrueLinks
  <2> QED  BY <2>2, <2>3
<1> QED  BY <1>2, <1>3

LEMMA DeleteLinks ==
  ASSUME SInv, NEW i \in Live, DeleteRow(i), NEW d \in Ino, IsDir(d)'
  PROVE  /\ d # i /\ IsDir(d)
         /\ TrueLinks(d)' = TrueLinks(d) - (IF IsDir(i) /\ d = place[i][1] THEN 1 ELSE 0)
<1> USE DEF IsDir, Tree!IsDir
<1>1. /\ Live' = Live \ {i} /\ i # Root /\ i \in Node
      /\ \A j \in Live' : place'[j] = place[j] /\ kind'[j] = kind[j]
      /\ kind'[i] = "none"
  BY NamespaceAssumption DEF DeleteRow, Live, Tree!Live, SInv, TypeOK, Tree!TypeOK
<1>2. d # i /\ IsDir(d)
  BY <1>1 DEF DeleteRow, SInv, TypeOK, Tree!TypeOK
<1>3. CASE IsDir(i) /\ d = place[i][1]
  <2>1. Subdirs(d)' = Subdirs(d) \ {i} /\ i \in Subdirs(d)
    BY <1>1, <1>3, NamespaceAssumption DEF Subdirs, Children, Tree!Children, Live, Tree!Live
  <2>2. Cardinality(Subdirs(d)') = Cardinality(Subdirs(d)) - 1
    BY <2>1, SubdirsFinite, CountChange
  <2> QED  BY <1>2, <1>3, <2>2, SubdirsFinite DEF TrueLinks
<1>4. CASE ~(IsDir(i) /\ d = place[i][1])
  <2>1. Subdirs(d)' = Subdirs(d)
    BY <1>1, <1>4, NamespaceAssumption DEF Subdirs, Children, Tree!Children, Live, Tree!Live
  <2> QED  BY <1>2, <1>4, <2>1, SubdirsFinite DEF TrueLinks
<1> QED  BY <1>3, <1>4

LEMMA MoveLinks ==
  ASSUME SInv, NEW i \in Live, NEW to \in Place,
         place' = [place EXCEPT ![i] = to], UNCHANGED kind,
         NEW d \in Ino
  PROVE  /\ IsDir(d)' <=> IsDir(d)
         /\ TrueLinks(d)' =
               IF ~IsDir(i) \/ place[i][1] = to[1] THEN TrueLinks(d)
               ELSE TrueLinks(d) + (IF d = to[1] THEN 1 ELSE 0)
                                 - (IF d = place[i][1] THEN 1 ELSE 0)
<1> USE DEF IsDir, Tree!IsDir
<1>1. /\ Live' = Live /\ i # Root /\ i \in Node
      /\ \A j \in Live : j # i => place'[j] = place[j]
      /\ place'[i] = to
  BY NamespaceAssumption DEF Live, Tree!Live, SInv, TypeOK, Tree!TypeOK
<1>2. CASE (~IsDir(i) \/ place[i][1] = to[1]) \/ (d # to[1] /\ d # place[i][1])
  <2>1. Subdirs(d)' = Subdirs(d)
    BY <1>1, <1>2 DEF Subdirs, Children, Tree!Children, Live, Tree!Live
  <2> QED  BY <1>2, <2>1, SubdirsFinite DEF TrueLinks
<1>3. CASE IsDir(i) /\ place[i][1] # to[1] /\ d = to[1]
  <2>1. Subdirs(d)' = Subdirs(d) \cup {i} /\ i \notin Subdirs(d)
    BY <1>1, <1>3 DEF Subdirs, Children, Tree!Children, Live, Tree!Live
  <2>2. Cardinality(Subdirs(d)') = Cardinality(Subdirs(d)) + 1
    BY <2>1, SubdirsFinite, CountChange
  <2> QED  BY <1>3, <2>2, SubdirsFinite DEF TrueLinks
<1>4. CASE IsDir(i) /\ place[i][1] # to[1] /\ d = place[i][1]
  <2>1. Subdirs(d)' = Subdirs(d) \ {i} /\ i \in Subdirs(d)
    BY <1>1, <1>4 DEF Subdirs, Children, Tree!Children, Live, Tree!Live
  <2>2. Cardinality(Subdirs(d)') = Cardinality(Subdirs(d)) - 1
    BY <2>1, SubdirsFinite, CountChange
  <2> QED  BY <1>4, <2>2, SubdirsFinite DEF TrueLinks
<1> QED  BY <1>2, <1>3, <1>4

-----------------------------------------------------------------------------
\* How far nlink of a directory is off, and what keeps it within bounds.

Off(d) == nlink[d] + Owed(d) - TrueLinks(d)

DInv == SInv /\ NlinkDrift

LEMMA OffType ==
  ASSUME SInv, NEW d \in Ino
  PROVE  /\ nlink[d] \in Int /\ TrueLinks(d) \in Int /\ Owed(d) \in {-1, 0, 1}
         /\ faults \in Nat
<1>1. faults \in Nat  BY NamespaceAssumption DEF SInv, TypeOK
<1>2. TrueLinks(d) \in Int  BY SubdirsFinite DEF TrueLinks
<1> QED  BY <1>1, <1>2 DEF SInv, TypeOK, Owed

\* A step that keeps every count as right as it was.
LEMMA SameOff ==
  ASSUME DInv, SInv', UNCHANGED faults,
         \A d \in Ino : IsDir(d)' => (Off(d)' = 0 \/ (IsDir(d) /\ Off(d)' = Off(d)))
  PROVE  NlinkDrift'
<1> SUFFICES ASSUME NEW d \in Ino, IsDir(d)' PROVE Off(d)' <= faults /\ -Off(d)' <= faults
  BY DEF NlinkDrift, Off
<1>1. faults \in Nat  BY OffType DEF DInv
<1>2. IsDir(d) => Off(d) <= faults /\ -Off(d) <= faults  BY DEF DInv, NlinkDrift, Off
<1> QED  BY <1>1, <1>2

\* A failed statement or a crash: what was owed is not paid.
LEMMA FailedOff ==
  ASSUME DInv, SInv', Fails, Return, UNCHANGED <<place, kind, nlink>>
  PROVE  NlinkDrift'
<1> SUFFICES ASSUME NEW d \in Ino, IsDir(d)' PROVE Off(d)' <= faults' /\ -Off(d)' <= faults'
  BY DEF NlinkDrift, Off
<1>1. IsDir(d) /\ TrueLinks(d)' = TrueLinks(d)
  BY DEF IsDir, Tree!IsDir, TrueLinks, Subdirs, Children, Tree!Children, Tree!Live
<1>2. Owed(d)' = 0  BY NoOpOp DEF Return, Owed
<1>3. /\ nlink[d] \in Int /\ TrueLinks(d) \in Int /\ Owed(d) \in {-1, 0, 1} /\ faults \in Nat
      /\ nlink[d] + Owed(d) - TrueLinks(d) <= faults
      /\ -(nlink[d] + Owed(d) - TrueLinks(d)) <= faults
  BY <1>1, OffType DEF DInv, NlinkDrift
<1>4. Off(d)' = nlink[d] - TrueLinks(d)  BY <1>1, <1>2, <1>3 DEF Off
<1>5. faults' = faults + 1  BY DEF Fails
<1> QED  BY <1>3, <1>4, <1>5

\* An UPDATE of nlink that pays what is owed to i and no other.
LEMMA PaidOff ==
  ASSUME DInv, SInv', NEW i \in Ino, NEW n \in {-1, 1}, Works, AddLinks(i, n),
         UNCHANGED <<place, kind>>, 
         \A d \in Ino : Owed(d)' = Owed(d) - (IF d = i THEN n ELSE 0)
  PROVE  NlinkDrift'
<1>1. ASSUME NEW d \in Ino, IsDir(d)' PROVE IsDir(d) /\ Off(d)' = Off(d)
  <2>1. IsDir(d) /\ TrueLinks(d)' = TrueLinks(d)
    BY <1>1 DEF IsDir, Tree!IsDir, TrueLinks, Subdirs, Children, Tree!Children, Tree!Live
  <2>2. nlink[d] \in Int /\ TrueLinks(d) \in Int /\ Owed(d) \in {-1, 0, 1}
    BY OffType DEF DInv
  <2>3. nlink'[d] = nlink[d] + (IF d = i THEN n ELSE 0)
    BY <2>2 DEF AddLinks, DInv, SInv, TypeOK
  <2>4. Owed(d)' = Owed(d) - (IF d = i THEN n ELSE 0)  OBVIOUS
  <2> QED  BY <2>1, <2>2, <2>3, <2>4 DEF Off
<1> QED  BY <1>1, SameOff DEF Works

LEMMA InsertDrift ==
  ASSUME DInv, SInv', NEW i \in Node, NEW at \in Place, Mknod(i, at) \/ Mkdir(i, at)
  PROVE  NlinkDrift'
<1>1. PICK k \in {"file", "dir"} :
          /\ Insert(i, at, k)
          /\ \/ k = "file" /\ UNCHANGED op
             \/ k = "dir" /\ op'.pc = "bump" /\ op'.to = at
  BY StartOp DEF Mknod, Mkdir
<1>2. op.pc = "idle" /\ UNCHANGED faults  BY <1>1 DEF Insert, Idle
<1>3. ASSUME NEW d \in Ino, IsDir(d)' PROVE Off(d)' = 0 \/ (IsDir(d) /\ Off(d)' = Off(d))
  <2>1. Owed(d) = 0 /\ Owed(d)' = IF k = "dir" /\ d = at[1] THEN 1 ELSE 0
    BY <1>1, <1>2 DEF Owed
  <2>2. nlink[d] \in Int /\ TrueLinks(d) \in Int  BY OffType DEF DInv
  <2>3. nlink'[d] = IF d = i THEN 1 ELSE nlink[d]
    BY <1>1 DEF Insert, DInv, SInv, TypeOK
  <2>4. \/ d = i /\ k = "dir" /\ TrueLinks(d)' = 1 /\ at[1] # d
        \/ d # i /\ IsDir(d)
           /\ TrueLinks(d)' = TrueLinks(d) + (IF k = "dir" /\ d = at[1] THEN 1 ELSE 0)
    BY <1>1, <1>3, InsertLinks DEF DInv
  <2>5. CASE d = i  BY <2>1, <2>3, <2>4, <2>5 DEF Off
  <2>6. CASE d # i  BY <2>1, <2>2, <2>3, <2>4, <2>6 DEF Off
  <2> QED  BY <2>5, <2>6
<1> QED  BY <1>2, <1>3, SameOff

\* The removal of a row, by a handler that owes its parent what it took.
LEMMA DeleteDrift ==
  ASSUME DInv, SInv', NEW i \in Live, DeleteRow(i), UNCHANGED faults,
         \A d \in Ino : Owed(d) = 0,
         \A d \in Ino : Owed(d)' = IF IsDir(i) /\ d = place[i][1] THEN -1 ELSE 0
  PROVE  NlinkDrift'
<1>1. ASSUME NEW d \in Ino, IsDir(d)' PROVE IsDir(d) /\ Off(d)' = Off(d)
  <2>1. nlink[d] \in Int /\ TrueLinks(d) \in Int  BY OffType DEF DInv
  <2>2. /\ d # i /\ IsDir(d)
        /\ TrueLinks(d)' = TrueLinks(d) - (IF IsDir(i) /\ d = place[i][1] THEN 1 ELSE 0)
    BY <1>1, DeleteLinks DEF DInv
  <2>3. nlink'[d] = nlink[d]  BY <2>2 DEF DeleteRow, DInv, SInv, TypeOK
  <2>4. Owed(d) = 0 /\ Owed(d)' = IF IsDir(i) /\ d = place[i][1] THEN -1 ELSE 0  OBVIOUS
  <2> QED  BY <2>1, <2>2, <2>3, <2>4 DEF Off
<1> QED  BY <1>1, SameOff

LEMMA RenameDrift ==
  ASSUME DInv, SInv', NEW i \in Node, NEW to \in Place, Rename(i, to)
  PROVE  NlinkDrift'
<1>1. op.pc = "idle" /\ op'.pc \in {"move", "clear"} /\ UNCHANGED <<place, kind, nlink, faults>>
  BY DEF Rename, Idle
<1>2. ASSUME NEW d \in Ino, IsDir(d)' PROVE IsDir(d) /\ Off(d)' = Off(d)
  <2>1. IsDir(d) /\ TrueLinks(d)' = TrueLinks(d)
    BY <1>1, <1>2 DEF IsDir, Tree!IsDir, TrueLinks, Subdirs, Children, Tree!Children, Tree!Live
  <2>2. Owed(d) = 0 /\ Owed(d)' = 0  BY <1>1 DEF Owed
  <2> QED  BY <1>1, <2>1, <2>2 DEF Off
<1> QED  BY <1>1, <1>2, SameOff

LEMMA RemovalDrift ==
  ASSUME DInv, SInv', NEW i \in Node, Unlink(i) \/ Rmdir(i)
  PROVE  NlinkDrift'
<1>1. i \in Live /\ DeleteRow(i) /\ UNCHANGED faults /\ op.pc = "idle"
  BY DEF Unlink, Rmdir, Idle
<1>2. place[i] \in Place
  BY <1>1 DEF DInv, SInv, TypeOK, Tree!TypeOK, Live, Tree!Live, Place
<1>3. \/ ~IsDir(i) /\ UNCHANGED op
      \/ IsDir(i) /\ op'.pc = "dropParent" /\ op'.to = place[i]
  BY <1>2, StartOp DEF Unlink, Rmdir
<1>4. \A d \in Ino : Owed(d) = 0  BY <1>1 DEF Owed
<1>5. \A d \in Ino : Owed(d)' = IF IsDir(i) /\ d = place[i][1] THEN -1 ELSE 0
  BY <1>1, <1>3 DEF Owed
<1> QED  BY <1>1, <1>4, <1>5, DeleteDrift

LEMMA ClearDrift ==
  ASSUME DInv, SInv', ClearTarget
  PROVE  NlinkDrift'
<1>1. op.pc = "clear" /\ UNCHANGED faults  BY DEF ClearTarget
<1>2. \A d \in Ino : Owed(d) = 0  BY <1>1 DEF Owed
<1>3. CASE Return /\ UNCHANGED <<place, kind, nlink>>
  <2>1. ASSUME NEW d \in Ino, IsDir(d)' PROVE IsDir(d) /\ Off(d)' = Off(d)
    <3>1. IsDir(d) /\ TrueLinks(d)' = TrueLinks(d)
      BY <1>3, <2>1 DEF IsDir, Tree!IsDir, TrueLinks, Subdirs, Children, Tree!Children, Tree!Live
    <3>2. Owed(d) = 0 /\ Owed(d)' = 0  BY <1>2, <1>3, NoOpOp DEF Return, Owed
    <3> QED  BY <1>3, <3>1, <3>2 DEF Off
  <2> QED  BY <1>1, <2>1, SameOff
<1>4. CASE \E j \in Live : /\ IsAt(j, op.to) /\ DeleteRow(j)
                           /\ Goto(IF IsDir(j) THEN "dropTarget" ELSE "move")
  <2>1. PICK j \in Live : /\ IsAt(j, op.to) /\ DeleteRow(j)
                          /\ Goto(IF IsDir(j) THEN "dropTarget" ELSE "move")
    BY <1>4
  <2>2. /\ op'.pc = (IF IsDir(j) THEN "dropTarget" ELSE "move")
        /\ op'.to = op.to /\ place[j] = op.to
    BY <2>1, GotoOp DEF DInv, SInv, TypeOK, IsAt
  <2>3. \A d \in Ino : Owed(d)' = IF IsDir(j) /\ d = place[j][1] THEN -1 ELSE 0
    BY <2>2 DEF Owed
  <2> QED  BY <1>1, <1>2, <2>1, <2>3, DeleteDrift
<1> QED  BY <1>3, <1>4 DEF ClearTarget

LEMMA MoveDrift ==
  ASSUME DInv, SInv', MoveRow
  PROVE  NlinkDrift'
<1>1. op.pc = "move" /\ UNCHANGED <<kind, nlink>>  BY DEF MoveRow
<1>2. CASE Fails /\ Return /\ UNCHANGED place  BY <1>1, <1>2, FailedOff
<1>3. CASE Works /\ \E i \in Live :
             /\ IsAt(i, op.from)
             /\ place' = [place EXCEPT ![i] = op.to]
             /\ IF IsDir(i) /\ op.from[1] # op.to[1] THEN Goto("leave") ELSE Return
  <2>1. PICK i \in Live :
             /\ IsAt(i, op.from)
             /\ place' = [place EXCEPT ![i] = op.to]
             /\ IF IsDir(i) /\ op.from[1] # op.to[1] THEN Goto("leave") ELSE Return
    BY <1>3
  <2>2. place[i] = op.from /\ op.to \in Place  BY <1>1, <2>1 DEF IsAt, DInv, SInv, OpInv
  <2>3. \/ IsDir(i) /\ op.from[1] # op.to[1]
           /\ op'.pc = "leave" /\ op'.from = op.from /\ op'.to = op.to
        \/ ~(IsDir(i) /\ op.from[1] # op.to[1]) /\ op'.pc = "idle"
    BY <2>1, GotoOp, NoOpOp DEF Return, DInv, SInv, TypeOK
  <2>4. ASSUME NEW d \in Ino, IsDir(d)' PROVE IsDir(d) /\ Off(d)' = Off(d)
    <3>0. /\ IsDir(d)' <=> IsDir(d)
          /\ TrueLinks(d)' =
               IF ~IsDir(i) \/ place[i][1] = op.to[1] THEN TrueLinks(d)
               ELSE TrueLinks(d) + (IF d = op.to[1] THEN 1 ELSE 0)
                                 - (IF d = place[i][1] THEN 1 ELSE 0)
      <4>1. UNCHANGED kind /\ place' = [place EXCEPT ![i] = op.to] /\ op.to \in Place
        BY <1>1, <2>1, <2>2
      <4> QED  BY <4>1, MoveLinks DEF DInv
    <3>1. /\ IsDir(d)
          /\ TrueLinks(d)' =
               IF ~IsDir(i) \/ op.from[1] = op.to[1] THEN TrueLinks(d)
               ELSE TrueLinks(d) + (IF d = op.to[1] THEN 1 ELSE 0)
                                 - (IF d = op.from[1] THEN 1 ELSE 0)
      BY <2>2, <2>4, <3>0
    <3>2. nlink[d] \in Int /\ TrueLinks(d) \in Int  BY OffType DEF DInv
    <3>3. Owed(d) = 0  BY <1>1 DEF Owed
    <3>4. CASE op'.pc = "idle"
      <4>1. Owed(d)' = 0  BY <3>4 DEF Owed
      <4> QED  BY <1>1, <2>3, <3>1, <3>2, <3>3, <3>4, <4>1 DEF Off
    <3>5. CASE op'.pc = "leave"
      <4>1. Owed(d)' = (IF d = op.to[1] THEN 1 ELSE 0) - (IF d = op.from[1] THEN 1 ELSE 0)
        BY <2>3, <3>5 DEF Owed
      <4> QED  BY <1>1, <2>3, <3>1, <3>2, <3>3, <3>5, <4>1 DEF Off
    <3> QED  BY <2>3, <3>4, <3>5
  <2> QED  BY <1>3, <2>4, SameOff DEF Works
<1> QED  BY <1>2, <1>3 DEF MoveRow

\* The statements on nlink.
LEMMA AdjustDrift ==
  ASSUME DInv, SInv', BumpParent \/ DropParent \/ DropTarget \/ LeaveParent \/ EnterParent
  PROVE  NlinkDrift'
<1>1. op \in Operation /\ \A at \in Place : at[1] \in Ino
  BY DEF DInv, SInv, TypeOK, Place, Tree!Place, Ino
<1>2. ASSUME NEW i \in Ino, NEW n \in {-1, 1},
             NEW pc \in {"idle", "move", "enter"}, Adjust(i, n, pc),
             Works => \A d \in Ino : Owed(d)' = Owed(d) - (IF d = i THEN n ELSE 0)
      PROVE  NlinkDrift'
  BY <1>2, PaidOff, FailedOff DEF Adjust
<1>3. ASSUME NEW pc \in {"move", "enter"}, Goto(pc)
      PROVE  op'.pc = pc /\ op'.from = op.from /\ op'.to = op.to
  BY <1>1, <1>3, GotoOp
<1>4. CASE BumpParent
  <2>1. op.pc = "bump" /\ Adjust(op.to[1], 1, "idle") /\ op.to[1] \in Ino
    BY <1>1, <1>4 DEF BumpParent, DInv, SInv, OpInv
  <2>2. op'.pc = "idle"  BY <2>1, NoOpOp DEF Adjust, Return
  <2>3. \A d \in Ino : Owed(d)' = Owed(d) - (IF d = op.to[1] THEN 1 ELSE 0)
    BY <2>1, <2>2 DEF Owed
  <2> QED  BY <1>2, <2>1, <2>3
<1>5. CASE DropParent
  <2>1. op.pc = "dropParent" /\ Adjust(op.to[1], -1, "idle") /\ op.to[1] \in Ino
    BY <1>1, <1>5 DEF DropParent, DInv, SInv, OpInv
  <2>2. op'.pc = "idle"  BY <2>1, NoOpOp DEF Adjust, Return
  <2>3. \A d \in Ino : Owed(d)' = Owed(d) - (IF d = op.to[1] THEN -1 ELSE 0)
    BY <2>1, <2>2 DEF Owed
  <2> QED  BY <1>2, <2>1, <2>3
<1>6. CASE DropTarget
  <2>1. op.pc = "dropTarget" /\ Adjust(op.to[1], -1, "move") /\ op.to[1] \in Ino
    BY <1>1, <1>6 DEF DropTarget, DInv, SInv, OpInv
  <2>2. op'.pc \in {"idle", "move"}  BY <1>3, <2>1, NoOpOp DEF Adjust, Return
  <2>3. \A d \in Ino : Owed(d)' = Owed(d) - (IF d = op.to[1] THEN -1 ELSE 0)
    BY <2>1, <2>2 DEF Owed
  <2> QED  BY <1>2, <2>1, <2>3
<1>7. CASE LeaveParent
  <2>1. /\ op.pc = "leave" /\ Adjust(op.from[1], -1, "enter") /\ op.from[1] \in Ino
        /\ op.from[1] # op.to[1]
    BY <1>1, <1>7 DEF LeaveParent, DInv, SInv, OpInv
  <2>2. ASSUME Works PROVE \A d \in Ino : Owed(d)' = Owed(d) - (IF d = op.from[1] THEN -1 ELSE 0)
    <3>1. CASE Goto("enter")
      <4>1. op'.pc = "enter" /\ op'.from = op.from /\ op'.to = op.to  BY <1>3, <3>1
      <4> QED  BY <2>1, <4>1 DEF Owed
    <3>2. CASE Fails /\ Return
      BY <2>2, <3>2, OffType DEF Works, Fails, DInv, SInv, TypeOK
    <3> QED  BY <2>1, <3>1, <3>2 DEF Adjust
  <2> QED  BY <1>2, <2>1, <2>2
<1>8. CASE EnterParent
  <2>1. op.pc = "enter" /\ Adjust(op.to[1], 1, "idle") /\ op.to[1] \in Ino
    BY <1>1, <1>8 DEF EnterParent, DInv, SInv, OpInv
  <2>2. op'.pc = "idle"  BY <2>1, NoOpOp DEF Adjust, Return
  <2>3. \A d \in Ino : Owed(d)' = Owed(d) - (IF d = op.to[1] THEN 1 ELSE 0)
    BY <2>1, <2>2 DEF Owed
  <2> QED  BY <1>2, <2>1, <2>3
<1> QED  BY <1>4, <1>5, <1>6, <1>7, <1>8

LEMMA InitDInv == Init => DInv
<1> SUFFICES ASSUME Init PROVE NlinkDrift
  BY InitSInv DEF DInv
<1>1. SInv /\ faults \in Nat  BY InitSInv, NamespaceAssumption DEF Init
<1> SUFFICES ASSUME NEW d \in Ino, IsDir(d) PROVE Off(d) = 0
  BY <1>1 DEF NlinkDrift, Off
<1>2. d = Root /\ nlink[d] = 2 /\ Owed(d) = 0
  BY NoOpOp DEF Init, Tree!Init, IsDir, Tree!IsDir, Owed
<1>3. Subdirs(d) = {}
  BY DEF Init, Tree!Init, Subdirs, Children, Tree!Children, Tree!Live
<1> QED  BY <1>2, <1>3, FS_EmptySet DEF Off, TrueLinks

LEMMA NextDInv == DInv /\ [Next]_vars => DInv'
<1> SUFFICES ASSUME DInv, [Next]_vars PROVE NlinkDrift'
  BY NextSInv DEF DInv
<1>1. SInv'  BY NextSInv DEF DInv
<1>2. CASE Handlers
  BY <1>1, <1>2, RemovalDrift, InsertDrift, RenameDrift DEF Handlers
<1>3. CASE ClearTarget  BY <1>1, <1>3, ClearDrift
<1>4. CASE MoveRow  BY <1>1, <1>4, MoveDrift
<1>5. CASE Crash  BY <1>1, <1>5, FailedOff DEF Crash
<1>6. CASE UNCHANGED vars
  <2>1. UNCHANGED <<place, kind, nlink, op, faults>>  BY <1>6 DEF vars
  <2> QED
    BY <2>1 DEF DInv, NlinkDrift, IsDir, Tree!IsDir, TrueLinks, Subdirs, Children,
                Tree!Children, Tree!Live, Owed
<1> QED  BY <1>1, <1>2, <1>3, <1>4, <1>5, <1>6, AdjustDrift DEF Next, Statements

\* nlink of a directory is the count of its subdirectories, less what the running
\* handler still owes, up to one for each failure or crash: the statements of
\* CreateNode, RemoveNode and Rename on nlink (meta.go:195-200, 218-223, 373-381)
\* balance along every path, and without a failure the count is exact.
THEOREM NlinkDriftCorrect == Spec => []NlinkDrift
<1>1. DInv => NlinkDrift  BY DEF DInv
<1> QED  BY <1>1, InitDInv, NextDInv, PTL DEF Spec

=============================================================================
