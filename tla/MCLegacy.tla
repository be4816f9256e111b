------------------------------ MODULE MCLegacy ------------------------------
(***************************************************************************)
(* Old databases for TLC: trees of two leaves, in which each old version   *)
(* kept the tree or replaced a leaf and the root (which leaf makes no      *)
(* difference); and the older release had deleted any of the versions but  *)
(* the latest.                                                             *)
(***************************************************************************)
EXTENDS Legacy, Sequences

CONSTANT LegacyVersions     \* bound: the latest version of an old database

Tree(v, leaves) == [root |-> <<v, 1>>, legacy |-> {<<v, 1>>} \cup leaves, copied |-> {}]

LeavesOf(t) == {n \in t.legacy : n[2] # 1}

\* the trees that version v can save after the tree t
Successors(t, v) ==
    {t, Tree(v, {<<v, 2>>, CHOOSE n \in LeavesOf(t) : TRUE})}

OldTrees[v \in 1..LegacyVersions] ==
    IF v = 1 THEN {<<Tree(1, {<<1, 2>>, <<1, 3>>})>>}
    ELSE UNION {{Append(h, t) : t \in Successors(h[v - 1], v)} : h \in OldTrees[v - 1]}

OldDatabases ==
    {[latest |-> LegacyVersions, roots |-> roots \cup {LegacyVersions}, trees |-> h] :
        roots \in SUBSET (1..LegacyVersions), h \in OldTrees[LegacyVersions]}

=============================================================================
