------------------------------- MODULE MCTftp -------------------------------
(* The instances of Tftp that TLC checks: MCTftp.cfg (an adverse network),
   MCTftpLive.cfg (bounded faults, fair) and MCTftpWrap.cfg (the repeated
   block whose number wraps).                                               *)
EXTENDS Tftp
=============================================================================
