--------------------------- MODULE AuthentikCalls ---------------------------
(***************************************************************************)
(* What a caller of the Authentik client may count on: a call takes effect *)
(* at most once, is answered only if it did, and may fail with or without  *)
(* having taken effect.  The handlers of Onboarding use the client by      *)
(* these rules; AuthentikToken shows that the client keeps them, although  *)
(* it sends some requests twice.                                           *)
(* A call is followed until its caller is answered; what a call that was   *)
(* given up may still do is up to Onboarding (lateUsers, lateMembers).     *)
(***************************************************************************)
CONSTANT Callers

VARIABLE phase     \* "open" calls have no effect yet, "effected" ones have

Move(c, from, to) ==
    /\ phase[c] \in from
    /\ phase' = [phase EXCEPT ![c] = to]

Begin(c) == Move(c, {"answered", "failed"}, "open")

TakeEffect(c) == Move(c, {"open"}, "effected")

Answer(c) == Move(c, {"effected"}, "answered")

Fail(c) == Move(c, {"open", "effected"}, "failed")

Init == phase = [c \in Callers |-> "answered"]

Next == \E c \in Callers : Begin(c) \/ TakeEffect(c) \/ Answer(c) \/ Fail(c)

CallsSpec == Init /\ [][Next]_phase

=============================================================================
