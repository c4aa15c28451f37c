----------------------------- MODULE MCRegistry ------------------------------
\* Instances of Registry for TLC: interchangeable labels, connections and
\* requests (used by the safety run only; liveness runs use no symmetry).
EXTENDS Registry, TLC

Symmetry == Permutations(Macs) \cup Permutations(Conns) \cup Permutations(Reqs)
==============================================================================
