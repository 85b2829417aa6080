------------------------- MODULE MCPostgresGateway -------------------------
EXTENDS PostgresGateway, TLC

\* Requests are interchangeable, and so are the processes that serve them.
Symmetry == Permutations(Requests) \cup Permutations(Instances)
=============================================================================
