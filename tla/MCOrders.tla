------------------------------ MODULE MCOrders ------------------------------
\* Orders on small instances: ids and requests are interchangeable.
EXTENDS Orders, TLC

Symmetry == Permutations(Ids) \cup Permutations(Reqs)
=============================================================================
