--------------------------- MODULE MCVerification ---------------------------
(***************************************************************************)
(* Instances of Verification.  A user reads some of the addresses; the     *)
(* others belong to nobody here.                                           *)
(***************************************************************************)
EXTENDS Verification, TLC

CONSTANTS u1, e1, e2

OneAddress == {<<u1, e1>>}
TwoOwnAddresses == {<<u1, e1>>, <<u1, e2>>}

Symmetry == Permutations(Tasks) \cup Permutations(Codes) \cup Permutations(Names)
=============================================================================
