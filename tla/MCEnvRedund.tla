----------------------------- MODULE MCEnvRedund -----------------------------
\* Three environments: the default one and two that are saved over each other.
EXTENDS EnvRedund
CONSTANTS e0, e1, e2
MCEnvs == {e0, e1, e2}
MCFailing == {"protect", "protect_new", "malloc", "erase", "data", "crc",
              "obsolete", "active", "complete"}
MCEven == {254}
=============================================================================
