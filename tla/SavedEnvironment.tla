--------------------------- MODULE SavedEnvironment ---------------------------
(***************************************************************************)
(* What saveenv promises when there is a backup copy, to a user whose      *)
(* power may fail at any time: the environment that the next boot loads is *)
(* replaced as a whole, in one step, by a saveenv that is running and by   *)
(* nothing else; when saveenv has reported success it is the one that was  *)
(* saved.  A saveenv that reports an error leaves the one before or the    *)
(* one it was to save, and the next saveenv may take that back.            *)
(***************************************************************************)
CONSTANTS Envs, default_environment

VARIABLES phase,        \* "off"; "main"; "saving", "replaced" or "failed"
          ram,          \* the environment that is in use
          store,        \* the one that the next boot loads
          last          \* the one last booted, or saved without an error

vars == <<phase, ram, store, last>>

Init == /\ phase = "off"
        /\ ram = default_environment
        /\ store = default_environment
        /\ last = default_environment

Boot == /\ phase = "off" /\ phase' = "main"
        /\ ram' = store /\ last' = store
        /\ UNCHANGED store

Set(e) == phase = "main" /\ ram' = e /\ UNCHANGED <<phase, store, last>>

Begin == phase = "main" /\ phase' = "saving" /\ UNCHANGED <<ram, store, last>>

\* What a saveenv that failed has left is taken back.
Discard == phase = "saving" /\ store' = last /\ UNCHANGED <<phase, ram, last>>

Replace == /\ phase = "saving" /\ phase' = "replaced"
           /\ store' = ram
           /\ UNCHANGED <<ram, last>>

Succeed == /\ phase = "replaced" /\ phase' = "main"
           /\ last' = ram
           /\ UNCHANGED <<ram, store>>

\* A step that is cut off, or reports an error, may have had its effect.
Interrupted == IF phase = "saving" THEN store' \in {store, last, ram} ELSE UNCHANGED store

Fail == /\ phase \in {"saving", "replaced"} /\ phase' = "failed"
        /\ Interrupted
        /\ UNCHANGED <<ram, last>>

Return == phase = "failed" /\ phase' = "main" /\ UNCHANGED <<ram, store, last>>

PowerFails == /\ phase # "off" /\ phase' = "off"
              /\ Interrupted
              /\ UNCHANGED <<ram, last>>

Next == Boot \/ (\E e \in Envs : Set(e)) \/ Begin \/ Discard \/ Replace
        \/ Succeed \/ Fail \/ Return \/ PowerFails

Spec == Init /\ [][Next]_vars
=============================================================================
