-------------------------- MODULE MCAuthentikToken --------------------------
(***************************************************************************)
(* Two callers and four tokens: both may be refused a token, log in one    *)
(* after the other, and be refused the next one too.                       *)
(***************************************************************************)
EXTENDS AuthentikToken

=============================================================================
