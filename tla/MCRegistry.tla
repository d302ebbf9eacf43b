----------------------------- MODULE MCRegistry -----------------------------
(* Small instances of Registry.  c1 and c2 are S3 configurations, of which *)
(* only c1's server enforces create-only writes.                           *)
EXTENDS Registry, TLC

CONSTANTS c1, c2

MCKindOf == c1 :> "s3" @@ c2 :> "s3"

\* Requests are interchangeable: no property tells one slot from another.
SlotSymmetry == Permutations(Slots)

\* So are credential sets: nothing but equality is ever asked of them.
SlotCredsSymmetry == Permutations(Slots) \union Permutations(Creds)

=============================================================================
