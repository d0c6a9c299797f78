---------------------- MODULE MCOnboardingRepository ----------------------
(***************************************************************************)
(* Three ids for one user and target, so that a request can be denied and  *)
(* asked for again; two officers.                                          *)
(***************************************************************************)
EXTENDS OnboardingRepository, TLC

Symmetry == Permutations(RequestIds) \cup Permutations(Actors)
              \cup Permutations(Messages)
=============================================================================
