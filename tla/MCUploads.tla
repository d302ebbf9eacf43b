------------------------------ MODULE MCUploads ------------------------------
(* A small instance of Uploads: two backends, an app and an editor.        *)
EXTENDS Uploads, TLC

Put(who, backend, dir, size, only) ==
  [who |-> who, backend |-> backend, dir |-> dir, ext |-> "csv", size |-> size, only |-> only]

MCRequests ==
  {Put("app", "b1", <<"in">>, 2, TRUE), Put("app", "b1", <<"in", "sub">>, 2, TRUE),
   Put("app", "b2", <<"in">>, 2, TRUE), Put("app", "b1", <<"in">>, 2, FALSE),
   Put("editor", "b1", <<"in">>, 3, TRUE), Put("editor", "b1", <<"in">>, 3, FALSE)}

MCGrants ==
  {[who |-> "app", backend |-> "b1", prefix |-> <<"in">>, exts |-> x[1], max |-> x[2]] :
     x \in {<<{"csv"}, 1>>, <<{"csv"}, 3>>, <<{"txt"}, 3>>}}

\* No request gets past admission to b2: its row makes no difference at first.
MCInit == Init /\ rows["b2"] = Null

MCSpec == MCInit /\ [][Next]_vars

WriteSymmetry == Permutations(Writes)

=============================================================================
