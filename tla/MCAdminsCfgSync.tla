--------------------------- MODULE MCAdminsCfgSync ---------------------------
(***************************************************************************)
(* Small instances of AdminsCfgSync for TLC.                               *)
(***************************************************************************)
EXTENDS AdminsCfgSync, TLC

\* The parts of the access lists are interchangeable.
Symmetry == Permutations(Parts)
=============================================================================
