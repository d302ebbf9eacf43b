------------------------------ MODULE MCListing ------------------------------
(* Small instances of Listing: three levels under name 1, where the walk's *)
(* skipping matters; name 0 is a temporary file's.  On the flat store 1 is *)
(* "a", 2 is "a-b" and 3 is "a/", so a-b sorts between the object a and     *)
(* the folder a/, and 4 is a directory's stub.                              *)
EXTENDS Listing

MCPaths ==
  {<<1>>, <<2>>, <<1, 0>>, <<1, 1>>, <<1, 2>>, <<2, 1>>, <<1, 1, 1>>, <<1, 1, 2>>}

MCKeys ==
  {<<1>>, <<2>>, <<3>>, <<4>>, <<3, 1>>, <<3, 2>>, <<3, 3>>, <<3, 3, 1>>}

MCStubs == {<<4>>}

=============================================================================
