--------------------------- MODULE MCSeaweedLease ---------------------------
(* Small instances of SeaweedLease.                                        *)
EXTENDS SeaweedLease, TLC

\* Mints and backends are interchangeable; servers are not when some may fail.
LeaseSymmetry == Permutations(Mints) \union Permutations(Backends)

\* One backend is on a server that may fail, the others are not.
Unlucky == CHOOSE b \in Backends : TRUE
ApartInit == Init /\ \A b \in Backends : reg[b] \in MayGoDown <=> b = Unlucky
ApartSpec == ApartInit /\ [][Next]_vars /\ Fairness

=============================================================================
