-------------------------- MODULE MCVipSubscriptions --------------------------
(* Instances of VipSubscriptions for TLC. *)
EXTENDS VipSubscriptions, TLC

\* The roles of the catalogue and the loops are interchangeable.
Symmetry == Permutations(TierRoles) \cup Permutations(Renewers)
===============================================================================
