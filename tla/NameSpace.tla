---- MODULE NameSpace ----
(***************************************************************************)
(* What the directories of nfs promise: a map from a directory and a name  *)
(* to an inode number, which create, mkdir, link and unlink change one     *)
(* binding at a time and which unmount, mount and lookups do not change.   *)
(***************************************************************************)
EXTENDS Naturals

CONSTANTS Inodes,     \* inode numbers
          Root,       \* the inode number of the root
          Names

\* No inode.
None == 0

VARIABLE names

Init == names = [p \in Inodes \X Names |-> None]

Named(map, i) == \E p \in Inodes \X Names : map[p] = i
Empty(map, d) == \A n \in Names : map[d, n] = None

\* From old to new, directory d gets the name n: for an inode that has a name
\* already, or for one that nobody uses.
Bind(old, new, d, n) ==
    /\ old[d, n] = None
    /\ new[d, n] \in Inodes \ {Root, d}
    /\ Named(old, new[d, n]) \/ Empty(old, new[d, n])
    /\ d = Root \/ Named(old, d)

\* Directory d loses the name n; the last name of a directory goes only when
\* the directory is empty.
Unbind(old, new, d, n) ==
    /\ old[d, n] /= None
    /\ new[d, n] = None
    /\ Named(new, old[d, n]) \/ Empty(old, old[d, n])

Change(old, new) ==
    /\ new /= old
    /\ \E d \in Inodes, n \in Names :
        /\ new = [old EXCEPT ![d, n] = new[d, n]]
        /\ Bind(old, new, d, n) \/ Unbind(old, new, d, n)

Next == Change(names, names')

Spec == Init /\ [][Next]_names
====
