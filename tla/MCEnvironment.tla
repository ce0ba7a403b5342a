---------------------------- MODULE MCEnvironment ----------------------------
\* Entries of 2 or 3 bytes: four variables do not fit, and a longer value does
\* not always fit in place of a shorter one.
EXTENDS Environment
CONSTANTS a, b
MCValues  == {a, b}
LongB     == [x \in MCValues |-> IF x = b THEN 3 ELSE 2]
MCVars    == {"ethaddr", "ipaddr", "baudrate", "stdin"}
MCDefault == [v \in Vars |-> IF v \in {"ipaddr", "baudrate"} THEN a ELSE NoValue]
MCSupported == {a, b}
=============================================================================
