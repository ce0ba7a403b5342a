---------------------------- MODULE FileTransfer ----------------------------
(***************************************************************************)
(* What a download promises to the command that asked for it: the blocks   *)
(* of the file come into place in their order, none that is in place is    *)
(* spoilt again, and the command is told of success only when all of them  *)
(* are there and the size it is given is the file's.                       *)
(***************************************************************************)
EXTENDS Integers

CONSTANT NBlocks            \* blocks of the file

VARIABLES image,            \* the blocks that are in place
          size,             \* the size that will be reported, in blocks
          status            \* "running", "done" or "failed"

File == 1 .. NBlocks

Init == image = {} /\ size = 0 /\ status = "running"

Deliver(b) == /\ status = "running"
              /\ 1 .. b - 1 \subseteq image
              /\ image' = image \cup {b}
              /\ size' = IF size < b THEN b ELSE size
              /\ UNCHANGED status

StartAgain == status = "running" /\ size' = 0 /\ UNCHANGED <<image, status>>

Finish == /\ status = "running"
          /\ image = File /\ size = NBlocks
          /\ status' = "done"
          /\ UNCHANGED <<image, size>>

GiveUp == status = "running" /\ status' = "failed" /\ UNCHANGED <<image, size>>

Next == (\E b \in File : Deliver(b)) \/ StartAgain \/ Finish \/ GiveUp

Spec == Init /\ [][Next]_<<image, size, status>>
=============================================================================
