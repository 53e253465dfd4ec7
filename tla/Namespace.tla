----------------------------- MODULE Namespace ------------------------------
(***************************************************************************)
(* Names and directories: the handlers Mkdir, Rmdir, Mknod, Create, Unlink *)
(* and Rename of internal/fs/bumfs.go with CreateNode, RemoveNode and      *)
(* Rename of internal/meta/meta.go, one step per SQL statement that        *)
(* changes inodes.  No transaction holds the statements of one handler     *)
(* together: any of them may fail, and the process may die between two.    *)
(*                                                                         *)
(* Each handler holds fs.mu throughout, so at most one runs: op.  The      *)
(* contents of files are in BumFS.                                         *)
(***************************************************************************)
EXTENDS Integers, FiniteSets

CONSTANTS
    Root, Node, Name, Nowhere,
    MaxFaults    \* bound: statements that fail, and crashes

VARIABLES
    place,       \* inodes.parent_ino and inodes.name
    kind,        \* the type bits of inodes.mode, "none" without a row
    nlink,       \* inodes.nlink, 0 without a row
    op,          \* the handler that holds fs.mu
    faults       \* statements that failed, and crashes, so far

vars == <<place, kind, nlink, op, faults>>

Tree == INSTANCE FileTree

Ino == Tree!Ino
Place == Tree!Place
Live == Tree!Live
IsDir(i) == Tree!IsDir(i)
Children(i) == Tree!Children(i)
Free(at) == Tree!Free(at)

ASSUME NamespaceAssumption ==
    /\ Root \notin Node /\ Nowhere \notin (Node \cup {Root}) \X Name
    /\ IsFiniteSet(Node)
    /\ MaxFaults \in Nat

\* A handler works on one or two places; pc is the statement it comes to.
Operation ==
    [pc   : {"idle", "bump", "dropParent", "clear", "dropTarget", "move", "leave", "enter"},
     from : Place \cup {Nowhere},
     to   : Place \cup {Nowhere}]

NoOp == [pc |-> "idle", from |-> Nowhere, to |-> Nowhere]
Idle == op.pc = "idle"

\* LookupChild: the node at a place.
IsAt(i, at) == i \in Live /\ place[i] = at

Init ==
    /\ Tree!Init
    /\ nlink = [i \in Ino |-> IF i = Root THEN 2 ELSE 0]
    /\ op = NoOp
    /\ faults = 0

-----------------------------------------------------------------------------
Works == UNCHANGED faults
Fails == faults < MaxFaults /\ faults' = faults + 1

Goto(pc) == op' = [op EXCEPT !.pc = pc]
Return == op' = NoOp

AddLinks(i, n) == nlink' = [nlink EXCEPT ![i] = @ + n]

\* One UPDATE of nlink and what follows it.  Where it fails the handler returns.
Adjust(i, n, pc) ==
    /\ \/ Works /\ AddLinks(i, n) /\ (IF pc = "idle" THEN Return ELSE Goto(pc))
       \/ Fails /\ UNCHANGED nlink /\ Return
    /\ UNCHANGED <<place, kind>>

\* The first statement of CreateNode.  UNIQUE(parent_ino, name) refuses a taken name.
Insert(i, at, k) ==
    /\ Idle /\ i \in Node \ Live /\ IsDir(at[1]) /\ Free(at)
    /\ place' = [place EXCEPT ![i] = at]
    /\ kind' = [kind EXCEPT ![i] = k]
    /\ nlink' = [nlink EXCEPT ![i] = 1]
    /\ UNCHANGED faults

\* Mutant of DeleteRow: no foreign key on parent_ino.
DeleteRowUnchecked(i) ==
    /\ place' = [place EXCEPT ![i] = Nowhere]
    /\ kind' = [kind EXCEPT ![i] = "none"]
    /\ nlink' = [nlink EXCEPT ![i] = 0]

\* Mutant of DeleteRow: the row stays, without a name.
DeleteRowHalf(i) ==
    /\ Children(i) = {}
    /\ place' = [place EXCEPT ![i] = Nowhere]
    /\ nlink' = [nlink EXCEPT ![i] = 0]
    /\ UNCHANGED kind

\* DELETE FROM inodes.  The foreign key on parent_ino refuses a node with children.
DeleteRow(i) ==
    /\ Children(i) = {}
    /\ place' = [place EXCEPT ![i] = Nowhere]
    /\ kind' = [kind EXCEPT ![i] = "none"]
    /\ nlink' = [nlink EXCEPT ![i] = 0]

-----------------------------------------------------------------------------
\* The handlers, up to their first statement; the kernel has looked up the names.

Mknod(i, at) == Insert(i, at, "file") /\ UNCHANGED op

Mkdir(i, at) == Insert(i, at, "dir") /\ op' = [NoOp EXCEPT !.pc = "bump", !.to = at]

Unlink(i) ==
    /\ Idle /\ i \in Live /\ ~IsDir(i)
    /\ DeleteRow(i)
    /\ UNCHANGED <<op, faults>>

\* ListDir finds the directory empty, RemoveNode deletes it.
Rmdir(i) ==
    /\ Idle /\ i \in Live /\ IsDir(i)
    /\ DeleteRow(i)
    /\ op' = [NoOp EXCEPT !.pc = "dropParent", !.to = place[i]]
    /\ UNCHANGED faults

\* What the kernel lets through: not a directory into itself or over one it is in,
\* and over an existing name only a node of the same kind.
RenameAllowed(i, to) ==
    /\ i \in Live /\ IsDir(to[1]) /\ to # place[i]
    /\ \A j \in Live : place[j] = to => kind[j] = kind[i] /\ Tree!OutOf(place[i][1], j)
    /\ IsDir(i) => Tree!OutOf(to[1], i)

Rename(i, to) ==
    /\ Idle /\ RenameAllowed(i, to)
    /\ op' = [pc |-> IF Free(to) THEN "move" ELSE "clear", from |-> place[i], to |-> to]
    /\ UNCHANGED <<place, kind, nlink, faults>>

-----------------------------------------------------------------------------
\* The statements that follow.

BumpParent == op.pc = "bump" /\ Adjust(op.to[1], 1, "idle")

DropParent == op.pc = "dropParent" /\ Adjust(op.to[1], -1, "idle")

\* Mutant of ClearTarget: the lookup before RemoveNode takes the old place.
ClearSource ==
    /\ op.pc = "clear"
    /\ \E j \in Live :
          /\ IsAt(j, op.from) /\ DeleteRow(j)
          /\ Goto(IF IsDir(j) THEN "dropTarget" ELSE "move")
    /\ UNCHANGED faults

\* RemoveNode of the rename's target.  Where it fails the rename ends.
ClearTarget ==
    /\ op.pc = "clear"
    /\ \/ \E j \in Live :
             /\ IsAt(j, op.to) /\ DeleteRow(j)
             /\ Goto(IF IsDir(j) THEN "dropTarget" ELSE "move")
       \/ Return /\ UNCHANGED <<place, kind, nlink>>
    /\ UNCHANGED faults

DropTarget == op.pc = "dropTarget" /\ Adjust(op.to[1], -1, "move")

\* The source is looked up only now; nlink needs care when a directory changes parents.
MoveRow ==
    /\ op.pc = "move"
    /\ \/ /\ Works
          /\ \E i \in Live :
                /\ IsAt(i, op.from)
                /\ place' = [place EXCEPT ![i] = op.to]
                /\ IF IsDir(i) /\ op.from[1] # op.to[1] THEN Goto("leave") ELSE Return
       \/ Fails /\ Return /\ UNCHANGED place
    /\ UNCHANGED <<kind, nlink>>

LeaveParent == op.pc = "leave" /\ Adjust(op.from[1], -1, "enter")

\* Mutant of EnterParent: the old parent is counted up again.
EnterOldParent == op.pc = "enter" /\ Adjust(op.from[1], 1, "idle")

EnterParent == op.pc = "enter" /\ Adjust(op.to[1], 1, "idle")

\* The process dies and is started again; SQLite keeps every statement that was done.
Crash ==
    /\ Fails
    /\ Return
    /\ UNCHANGED <<place, kind, nlink>>

Handlers ==
    \E i \in Node :
        \/ Unlink(i) \/ Rmdir(i)
        \/ \E at \in Place : Mknod(i, at) \/ Mkdir(i, at) \/ Rename(i, at)

Statements ==
    BumpParent \/ DropParent \/ ClearTarget \/ DropTarget \/ MoveRow \/ LeaveParent \/ EnterParent

Next == Handlers \/ Statements \/ Crash

Spec == Init /\ [][Next]_vars

-----------------------------------------------------------------------------

TypeOK ==
    /\ Tree!TypeOK
    /\ nlink \in [Ino -> Int]
    /\ op \in Operation
    /\ faults \in 0..MaxFaults

\* CreateNode starts every directory at 1, ensureRoot the root at 2, and each
\* subdirectory adds one.
Subdirs(i) == {j \in Children(i) : IsDir(j)}
TrueLinks(i) == (IF i = Root THEN 2 ELSE 1) + Cardinality(Subdirs(i))

\* What the running handler still has to add to nlink of directory i.
Owed(i) ==
    IF op.pc \in {"bump", "enter"} /\ i = op.to[1] THEN 1
    ELSE IF op.pc \in {"dropParent", "dropTarget"} /\ i = op.to[1] THEN -1
    ELSE IF op.pc = "leave" /\ i = op.from[1] THEN -1
    ELSE IF op.pc = "leave" /\ i = op.to[1] THEN 1
    ELSE 0

\* nlink counts subdirectories through creations, removals and renames between
\* directories and over them: each failed statement or crash puts the count of a
\* directory off by at most one, and nothing else does (meta.go:195-200, 218-223,
\* 373-381).
NlinkDrift ==
    \A i \in Ino : IsDir(i) =>
        LET off == nlink[i] + Owed(i) - TrueLinks(i)
        IN  off <= faults /\ -off <= faults

\* A rename never loses what it moves: until the move the node is at the old place,
\* after it at the new one, whatever was removed to make room.
RenameKeepsSource ==
    /\ op.pc \in {"clear", "dropTarget", "move"} => \E i \in Live : IsAt(i, op.from)
    /\ op.pc \in {"leave", "enter"} => \E i \in Live : IsAt(i, op.to) /\ IsDir(i)

\* The nodes form a tree at every step, also where a rename was cut off.
NamesFormTree == Tree!IsTree

\* Every statement adds, removes or moves one node of a tree: a directory goes only
\* when nothing is in it, a rename never makes a cycle or takes a name in use.
ImplementsFileTree == Tree!Spec

=============================================================================
