-------------------------------- MODULE MCBot --------------------------------
(***************************************************************************)
(* An instance of Bot.  The user reads e1; e2 is the address of somebody   *)
(* with the same username elsewhere, whose account may have been there     *)
(* before the bot.                                                         *)
(***************************************************************************)
EXTENDS Bot, TLC

CONSTANTS u1, e1, e2

OwnAddress == {<<u1, e1>>}

Namesakes == [e \in Emails |-> "member"]

AllIdentities == [email : Emails, name : Names]

Symmetry == Permutations(Accounts) \cup Permutations(Codes)
              \cup Permutations(Clerks)

\* All but the histories that no guard reads and steps only add to:
\* audit, dms, wrong, accepted and sent.
View == <<requests, reviewAudit, world, authentik, cards, task, aborts, pending,
          identities, issued, mailbox, guild, clerk, mishaps>>
=============================================================================
