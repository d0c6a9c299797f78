---------------------------- MODULE MCOnboarding ----------------------------
(***************************************************************************)
(* Instances of Onboarding.  In the scenarios with one address every       *)
(* identity has it; names differ.                                          *)
(***************************************************************************)
EXTENDS Onboarding, TLC

CONSTANTS e1, e2, e3, n1, n2

OneIdentity == {[email |-> e1, name |-> n1]}
TwoNames == {[email |-> e1, name |-> n1], [email |-> e1, name |-> n2]}

TwoAddresses == {[email |-> e1, name |-> n1], [email |-> e2, name |-> n1]}

\* e1 and e2 are namesakes on two domains; e3 is e1 spelled with a capital.
Namesakes == [e \in Emails |-> IF e = e3 THEN "Member" ELSE "member"]

ThreeAddresses == {[email |-> e, name |-> n1] : e \in {e1, e2, e3}}

DistinctUsernames == [e \in Emails |-> ToString(e)]

Symmetry == Permutations(RequestIds) \cup Permutations(Actors)
              \cup Permutations(Messages) \cup Permutations(Accounts)
              \cup Permutations(Tasks) \cup Permutations(Targets)
              \cup Permutations(Users)

\* The addresses of namesakes are alike.
NamesakeSymmetry == Symmetry \cup Permutations({e1, e2})
=============================================================================
