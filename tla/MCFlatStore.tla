---------------------------- MODULE MCFlatStore ----------------------------
(* Small instances of FlatStore: a key is the sequence of its path         *)
(* segments.  Folder a/b lies in folder a, and its keys also fit into b.   *)
EXTENDS FlatStore, SequencesExt

MCKeys == {<<"a", "x">>, <<"a", "b", "x">>, <<"b", "x">>, <<"b", "b", "x">>}

MCPlaceholders == {}  \* one would be a key that MoveObjectFlat refuses

MCFolders == {<<"a">>, <<"b">>, <<"a", "b">>}

\* Tables of the keys under a folder and of where a move takes them.
KeysUnder == [f \in MCFolders |-> {k \in MCKeys : IsStrictPrefix(f, k)}]

Moved ==
  [f \in MCFolders |-> [t \in MCFolders |->
    [k \in MCKeys |-> t \o SubSeq(k, Len(f) + 1, Len(k))]]]

Nested == [t \in MCFolders |-> [f \in MCFolders |-> IsPrefix(f, t)]]

MCUnder(f) == KeysUnder[f]

MCDest(f, t, k) == Moved[f][t][k]

MCInside(t, f) == Nested[t][f]

=============================================================================
