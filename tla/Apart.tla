------------------------------- MODULE Apart -------------------------------
(***************************************************************************)
(* What the trees are meant to be: copies that share nothing.  Whatever    *)
(* happens to the files of one tree, no other tree sees it.                *)
(***************************************************************************)
CONSTANTS Trees, Files, Contents, NoFile

VARIABLE tree      \* tree[t][f]: what tree t holds under the name f

Disks == [Trees -> [Files -> Contents \cup {NoFile}]]

Init == tree \in Disks

\* Files of one tree are written, replaced, copied into it or removed.
Change(t) == tree' \in Disks /\ \A u \in Trees \ {t} : tree'[u] = tree[u]

Next == \E t \in Trees : Change(t)

Spec == Init /\ [][Next]_tree
=============================================================================
