--------------------------- MODULE MCMediaPublisher ---------------------------
EXTENDS MediaPublisher, TLC
CONSTANTS m1, m2
MCSha == [m \in Media |-> "same"]
Symmetry == Permutations(Media) \cup Permutations(Workers)
===============================================================================
