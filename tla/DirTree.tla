------------------------------ MODULE DirTree ------------------------------
(***************************************************************************)
(* What a user of the mounted volume may rely on: a tree of named entries  *)
(* that changes by one whole operation at a time, and falls back, when the *)
(* process ends, to a whole earlier tree.  The list of children, the link  *)
(* counts and the transactions of Namespace are not part of it.            *)
(***************************************************************************)
EXTENDS Naturals

CONSTANTS
    Nodes,   \* identities of entries
    Root,    \* the identity of the root
    Names,   \* names of entries
    NoName   \* the name of the root

VARIABLES
    tree,    \* node -> [parent, name, kind]
    saved    \* the tree a crash falls back to

IsDir(t, i) == i \in DOMAIN t /\ t[i].kind = "dir"
Children(t, i) == {j \in DOMAIN t : t[j].parent = i}
Named(t, p, n) == {j \in Children(t, p) : t[j].name = n}

\* i is a or lies below it: every set with i and the parents of its members has a.
AtOrBelow(t, i, a) ==
    \A S \in SUBSET DOMAIN t :
        (i \in S /\ \A j \in S \ {Root} : t[j].parent \in S) => a \in S

\* The operation is on disk at once, or stays in memory.
Save == saved' \in {saved, tree'}

Init ==
    /\ tree = [i \in {Root} |-> [parent |-> 0, name |-> NoName, kind |-> "dir"]]
    /\ saved = tree

\* A new entry, under a name that is free in an existing directory.
Add(i, p, n, k) ==
    /\ i \notin DOMAIN tree
    /\ IsDir(tree, p)
    /\ Named(tree, p, n) = {}
    /\ tree' = [j \in DOMAIN tree \cup {i} |->
                  IF j = i THEN [parent |-> p, name |-> n, kind |-> k] ELSE tree[j]]
    /\ Save

\* An entry without entries of its own goes away.
Drop(i) ==
    /\ i \in DOMAIN tree \ {Root}
    /\ Children(tree, i) = {}
    /\ tree' = [j \in DOMAIN tree \ {i} |-> tree[j]]
    /\ Save

\* An entry gets a new place and name, and replaces what was there, if that is
\* empty; a directory does not move below itself.
Move(m, p, n) ==
    /\ m \in DOMAIN tree \ {Root}
    /\ IsDir(tree, p)
    /\ ~AtOrBelow(tree, p, m)
    /\ LET old == Named(tree, p, n) \ {m} IN
       /\ \A e \in old : Children(tree, e) = {}
       /\ tree' = [j \in DOMAIN tree \ old |->
                     IF j = m THEN [parent |-> p, name |-> n, kind |-> tree[m].kind]
                     ELSE tree[j]]
    /\ Save

Crash == tree' = saved /\ UNCHANGED saved

Next ==
    \/ \E i \in Nodes :
         \/ Drop(i)
         \/ \E p \in Nodes, n \in Names :
              \/ \E k \in {"dir", "file", "symlink"} : Add(i, p, n, k)
              \/ Move(i, p, n)
    \/ Crash

vars == <<tree, saved>>
Spec == Init /\ [][Next]_vars
=============================================================================
