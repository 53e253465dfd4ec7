------------------------------ MODULE FileTree ------------------------------
(***************************************************************************)
(* What the inodes table promises: a tree.  Every node but the root is in  *)
(* one directory under a name nothing else there has, and nodes are added, *)
(* removed when nothing is in them, and moved to free places, one at a     *)
(* time.  Which of these happen, and why, is for Namespace to say.         *)
(***************************************************************************)
EXTENDS Naturals

CONSTANTS
    Root,        \* inode 1
    Node,        \* the other inode numbers
    Name,        \* names of directory entries
    Nowhere      \* the place of a number without a row

VARIABLES
    place,       \* <<parent_ino, name>> of each node
    kind         \* its type bits

treeVars == <<place, kind>>

Ino == Node \cup {Root}
Place == Ino \X Name
Live == {i \in Node : kind[i] # "none"}

IsDir(i) == i = Root \/ (i \in Node /\ kind[i] = "dir")
Children(i) == {j \in Live : place[j][1] = i}
Free(at) == \A j \in Live : place[j] # at

\* i is d or an ancestor of d: in every set that holds d and the parents of its
\* members.
Within(d, i) ==
    \A S \in SUBSET Live :
        d \in S /\ (\A j \in S : place[j][1] \in S \cup {Root}) => i \in S

\* Directory d is neither i nor below it.
OutOf(d, i) == d = Root \/ ~Within(d, i)

Init ==
    /\ place = [i \in Node |-> Nowhere]
    /\ kind = [i \in Node |-> "none"]

Add(i, at, k) ==
    /\ i \in Node \ Live /\ IsDir(at[1]) /\ Free(at)
    /\ place' = [place EXCEPT ![i] = at]
    /\ kind' = [kind EXCEPT ![i] = k]

Remove(i) ==
    /\ i \in Live /\ Children(i) = {}
    /\ place' = [place EXCEPT ![i] = Nowhere]
    /\ kind' = [kind EXCEPT ![i] = "none"]

Move(i, at) ==
    /\ i \in Live /\ IsDir(at[1]) /\ Free(at)
    /\ IsDir(i) => OutOf(at[1], i)
    /\ place' = [place EXCEPT ![i] = at]
    /\ UNCHANGED kind

Next ==
    \E i \in Node : \/ Remove(i)
                    \/ \E at \in Place : Move(i, at) \/ Add(i, at, "file") \/ Add(i, at, "dir")

Spec == Init /\ [][Next]_treeVars

-----------------------------------------------------------------------------

TypeOK ==
    /\ kind \in [Node -> {"none", "file", "dir"}]
    /\ place \in [Node -> Place \cup {Nowhere}]
    /\ \A i \in Node : kind[i] = "none" <=> place[i] = Nowhere

\* A path names at most one node, and what a path passes through are directories.
NamesUnique == \A i, j \in Live : place[i] = place[j] => i = j
ParentsAreDirs == \A i \in Live : IsDir(place[i][1])

\* Every node is reached from the root: no set of nodes keeps all its parents to itself.
Rooted == \A S \in SUBSET Live : S # {} => \E i \in S : place[i][1] \notin S

IsTree == NamesUnique /\ ParentsAreDirs /\ Rooted

=============================================================================
