-------------------------- MODULE MCPasswordReset --------------------------
(* PasswordReset needs no definitions for TLC: users, codes and requests   *)
(* are model values.                                                       *)
EXTENDS PasswordReset
=============================================================================
