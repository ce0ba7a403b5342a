---------------------------- MODULE PacketQueue -----------------------------
(***************************************************************************)
(* What the receive function of an Ethernet driver promises to the network *)
(* code: the packets are numbered as they arrive, the oldest is handed     *)
(* over first and keeps its buffer until its handler returns, a packet is  *)
(* lost only when no buffer is free or the receiver is off, and a receiver *)
(* that has run out of buffers is switched on when all packets have been   *)
(* handed over.  A handler that sets the driver up again spoils all this   *)
(* until the next command sets it up properly.                             *)
(***************************************************************************)
EXTENDS Integers, FiniteSets

CONSTANT Buffers            \* packets there is room for

VARIABLES waiting,          \* the packets that occupy a buffer
          busy,             \* the one whose handler runs, or 0
          newest,           \* the number of the last packet that has arrived
          on,               \* the receiver is on
          spoilt            \* a handler has set the driver up again

vars == <<waiting, busy, newest, on, spoilt>>

\* A driver that was never set up takes its empty buffers for packets.
Init == /\ waiting = 1 .. Buffers /\ newest = Buffers
        /\ busy = 0 /\ on = FALSE /\ spoilt = FALSE

Arrive == /\ on /\ newest' = newest + 1
          /\ Cardinality(waiting) < Buffers
          /\ waiting' = waiting \cup {newest + 1}
          /\ UNCHANGED <<busy, on, spoilt>>

Overrun == /\ on /\ newest' = newest + 1
           /\ Cardinality(waiting) = Buffers
           /\ on' = FALSE
           /\ UNCHANGED <<waiting, busy, spoilt>>

Hand(p) == /\ busy = 0 /\ p \in waiting
           /\ \A q \in waiting : p <= q
           /\ busy' = p
           /\ UNCHANGED <<waiting, newest, on, spoilt>>

Release == /\ busy # 0 /\ busy' = 0
           /\ waiting' = waiting \ {busy}
           /\ UNCHANGED <<newest, on, spoilt>>

SwitchOn == /\ ~ spoilt /\ busy = 0 /\ waiting = {} /\ on' = TRUE
            /\ UNCHANGED <<waiting, busy, newest, spoilt>>

SwitchOff == on /\ on' = FALSE /\ UNCHANGED <<waiting, busy, newest, spoilt>>

SetUp == /\ busy = 0
         /\ waiting' = {} /\ on' = TRUE /\ spoilt' = FALSE
         /\ UNCHANGED <<busy, newest>>

Spoil == /\ busy # 0 /\ spoilt' = TRUE
         /\ waiting' = {} /\ busy' = 0 /\ on' = FALSE
         /\ UNCHANGED newest

\* Nothing is said of a spoilt driver but that packets may arrive.
Unknown == spoilt /\ newest' = newest + 1 /\ UNCHANGED <<waiting, busy, on, spoilt>>

Next == \/ Arrive \/ Overrun \/ (\E p \in waiting : Hand(p)) \/ Release
        \/ SwitchOn \/ SwitchOff \/ SetUp \/ Spoil \/ Unknown

Spec == Init /\ [][Next]_vars
=============================================================================
