------------------------------- MODULE MCDhcp -------------------------------
(* Values of the constants of Dhcp for its configurations *)
EXTENDS Dhcp, TLC

CONSTANTS s1, s2, b, a1, a2, a3, a4

(* Two servers and one that speaks BOOTP, no address twice *)
Pools == (s1 :> {a1, a2}) @@ (s2 :> {a3}) @@ (b :> {a4})
=============================================================================
