----------------------------- MODULE MCNetLoop -----------------------------
(* Values of the constants of NetLoop for its configurations *)
EXTENDS NetLoop

None == {}
Eth0 == {0}

Boot == {"TFTP", "DHCP"}
Tftp == {"TFTP"}
All  == {"TFTP", "PING", "DHCP"}

Once   == {"once"}
Any    == {"yes", "no", "once"}
=============================================================================
