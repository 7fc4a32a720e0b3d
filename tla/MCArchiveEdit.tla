---------------------------- MODULE MCArchiveEdit ----------------------------
EXTENDS ArchiveEdit, TLC
CONSTANTS old, other

d  == <<"d">>
dx == <<"d", "x">>
y  == <<"y">>

MCPath == {d, dx, y}
\* A folder that is only implied.
MCInitial == {dx :> old @@ y :> old}
\* Replacements with the folder listed, and one that cannot be read.
MCOthers == {d :> Folder @@ dx :> other, d :> other @@ dx :> other}
MCData == {old, other}
Symmetric == Permutations(Worker)
=============================================================================
