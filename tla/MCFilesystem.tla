---------------------------- MODULE MCFilesystem ----------------------------
(* Small instances of Filesystem.                                          *)
EXTENDS Filesystem, TLC

MCPaths == {<<"a">>, <<"b">>, <<"a", "x">>, <<"b", "x">>}

SlotSymmetry == Permutations(Slots)

=============================================================================
