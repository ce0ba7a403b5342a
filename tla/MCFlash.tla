------------------------------- MODULE MCFlash -------------------------------
(* Values of the constants of Flash for its configurations *)
EXTENDS Flash
=============================================================================
