--------------------------- MODULE MCLoginRenewal ---------------------------
(* A small instance of LoginRenewal for TLC.                               *)
EXTENDS LoginRenewal

CONSTANTS file, keychain
=============================================================================
