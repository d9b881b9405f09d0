------------------------------ MODULE MCOAuth -------------------------------
(***************************************************************************)
(* A small instance of OAuthToken: two processes that have the key of      *)
(* oauth-setup, and a stray one that has another.                          *)
(***************************************************************************)
EXTENDS OAuthToken

CONSTANTS c1, c2, stray

OneStray == [c \in Clients |-> IF c = stray THEN "old key" ELSE SetupKey]
=============================================================================
