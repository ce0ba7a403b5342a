------------------------------ MODULE MCYmodem ------------------------------
(* Values of the constants of Ymodem for its configurations *)
EXTENDS Ymodem
=============================================================================
