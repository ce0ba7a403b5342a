-------------------------------- MODULE Tftp --------------------------------
(***************************************************************************)
(* The TFTP client of U-Boot (net/tftp.c), run by the main loop of         *)
(* net/net.c, against a TFTP server and a network that may lose, delay,    *)
(* duplicate and reorder packets (both external).                          *)
(*                                                                         *)
(* One iteration of NetLoop's for(;;) is: eth_rx() hands over every packet *)
(* of the receive ring, the expired time handler runs, NetState is         *)
(* examined.  So packets keep reaching the handler after NetState has      *)
(* left NETLOOP_CONTINUE, until the iteration ends; pc keeps that order.   *)
(* NetStartAgain halts and reinitialises the interface, which takes more   *)
(* than a second: the packets handled after it in the same iteration       *)
(* ("drain") are taken to be among those on their way when it was called.  *)
(*                                                                         *)
(* Memory is counted in TFTP blocks: slot i is the i-th block at           *)
(* load_addr.  A DATA packet carries the index of the file block that is   *)
(* its content; on the wire its number is that index % SequenceSize.  The  *)
(* client's UDP port is the number of its TftpStart call: ports of two     *)
(* starts are taken to differ (the code draws them from 3072 values).      *)
(***************************************************************************)
EXTENDS Integers

CONSTANTS
    NBlocks,        \* blocks of the file; only the last one is short
    SequenceSize,   \* TFTP_SEQUENCE_SIZE, 2^16 in the code
    TIMEOUT_COUNT,  \* time-outs before giving up, 10 in the code
    netretry,       \* environment variable: "yes" (or unset), "no", "once"
    Prompt,         \* TRUE: a packet is delivered or lost before a timer expires,
                    \* and the server's timer is not slower than the client's
    MaxStarts,      \* bound: TftpStart calls in one NetLoop
    MaxSessions,    \* bound: sessions the server opens
    MaxFaults       \* bound: packets lost or doubled, errors and server crashes

ASSUME TftpAssumption ==
    /\ NBlocks \in Nat \ {0}
    /\ SequenceSize \in Nat /\ SequenceSize >= 2
    /\ TIMEOUT_COUNT \in Nat
    /\ netretry \in {"yes", "no", "once"}
    /\ Prompt \in BOOLEAN
    /\ MaxStarts \in Nat \ {0}
    /\ MaxSessions \in Nat
    /\ MaxFaults \in Nat

WELL_KNOWN_PORT == 0        \* port 69; the server's sessions have ports 1, 2, ...

Sessions == 1 .. MaxSessions
Starts   == 1 .. MaxStarts
File     == 1 .. NBlocks
Seq(b)   == b % SequenceSize

VARIABLES
    \* net/net.c
    pc,                     \* "rx", "drain", "switch"; or how NetLoop ended
    ring,                   \* "drain": packets eth_rx may still hand over
    NetState,               \* NETLOOP_CONTINUE, _RESTART, _SUCCESS, _FAIL
    packetHandler,          \* "tftp" or "startAgain"
    timeHandler,            \* "none", "tftp" or "startAgain"
    NetBootFileXferSize,    \* in blocks, the short one included
    \* net/tftp.c
    TftpState,              \* "RRQ", "DATA" or "OACK"
    TftpServerPort,
    TftpOurPort,
    TftpBlock,
    TftpLastBlock,
    TftpBlockWrapOffset,    \* in blocks; TftpBlockWrap is only counted
    TftpTimeoutCount,
    mem,                    \* slot -> index of the block it holds, 0 for none
    \* the server and the network
    session,                \* per session: client port, current block, open,
                            \* timer expired since the client's (if Prompt)
    net,                    \* packets that may still be delivered
    faults                  \* faults the network and the server may still commit

loopVars   == <<pc, ring, NetState, packetHandler, timeHandler>>
tftpVars   == <<TftpState, TftpServerPort, TftpOurPort, TftpBlock,
                TftpLastBlock, TftpBlockWrapOffset, TftpTimeoutCount>>
memVars    == <<mem, NetBootFileXferSize>>
clientVars == <<loopVars, tftpVars, memVars>>
vars       == <<clientVars, session, net, faults>>

ToServer == [type : {"RRQ"}, port : Starts]
              \cup [type : {"ACK"}, port : Starts, to : Sessions, seq : Nat]
ToClient == [type : {"DATA"}, port : Starts, from : Sessions, block : File]
              \cup [type : {"OACK", "ERROR"}, port : Starts, from : Sessions]

(* Every variable ranges over the values its declaration allows. *)
TypeOK ==
    /\ pc \in {"rx", "drain", "switch", "done", "failed"}
    /\ ring \subseteq ToClient
    /\ NetState \in {"CONTINUE", "RESTART", "SUCCESS", "FAIL"}
    /\ packetHandler \in {"tftp", "startAgain"}
    /\ timeHandler \in {"none", "tftp", "startAgain"}
    /\ NetBootFileXferSize \in Nat
    /\ TftpState \in {"RRQ", "DATA", "OACK"}
    /\ TftpServerPort \in {WELL_KNOWN_PORT} \cup Sessions
    /\ TftpState # "RRQ" => TftpServerPort \in Sessions
    /\ TftpOurPort \in Starts
    /\ TftpBlock \in Nat
    /\ TftpLastBlock \in Nat
    /\ TftpBlockWrapOffset \in Nat
    /\ TftpTimeoutCount \in Nat
    /\ mem \in [File -> {0} \cup File]
    /\ session \in [Sessions -> [port : {0} \cup Starts,
                                 block : {0} \cup File,
                                 open : BOOLEAN, resent : BOOLEAN]]
    /\ \A s \in Sessions : session[s].open => session[s].port \in Starts
    /\ net \subseteq ToServer \cup ToClient
    /\ faults \in 0 .. MaxFaults

-----------------------------------------------------------------------------
(* Sending, and starting again.                                            *)

(* TftpSend: a read request, or the acknowledgement of TftpBlock.  An ARP
   exchange that delays or loses the packet is a fault of the network.     *)
Request(port)        == [type |-> "RRQ", port |-> port]
Ack(port, to, block) == [type |-> "ACK", port |-> port, to |-> to, seq |-> block]
TftpSend == IF TftpState = "RRQ" THEN Request(TftpOurPort)
            ELSE Ack(TftpOurPort, TftpServerPort, TftpBlock)

(* NetStartAgain: give up, restart at once on another interface, or - all
   interfaces tried - restart after ten seconds of deafness.  Which
   interface comes next is left open here (see module NetLoop).  th is the
   time handler if the call leaves it alone.                               *)
NetStartAgain(th) ==
    \/ /\ netretry \in {"no", "once"}
       /\ NetState' = "FAIL"
       /\ timeHandler' = th
       /\ UNCHANGED packetHandler
    \/ /\ netretry # "no"
       /\ NetState' = "RESTART"
       /\ timeHandler' = th
       /\ UNCHANGED packetHandler
    \/ /\ netretry = "yes"
       /\ timeHandler' = "startAgain"
       /\ packetHandler' = "startAgain"
       /\ UNCHANGED NetState

-----------------------------------------------------------------------------
(* The network (external).  A packet taken from the network leaves it, or,
   at the price of a fault, stays to be delivered again.                   *)

Rearmed == [s \in Sessions |-> [session[s] EXCEPT !.resent = FALSE]]

Take(m, dup) == /\ dup => faults > 0
                /\ faults' = IF dup THEN faults - 1 ELSE faults
Rest(m, dup) == IF dup THEN net ELSE net \ {m}

Lose(m) == /\ faults > 0
           /\ faults' = faults - 1
           /\ net' = net \ {m}
           /\ session' = Rearmed
           /\ UNCHANGED clientVars

ServerTimerMayExpire(s) == Prompt => net = {} /\ ~ session[s].resent
ClientTimerMayExpire ==
    Prompt => /\ net = {}
              /\ \A s \in Sessions : session[s].open => session[s].resent

-----------------------------------------------------------------------------
(* TftpHandler, for a packet m of the server.                              *)

(* eth_rx hands over m *)
Receives(m) == pc = "rx" \/ (pc = "drain" /\ m \in ring)

Accepts(m) == /\ Receives(m)
              /\ packetHandler = "tftp"
              /\ m.port = TftpOurPort
              /\ TftpState = "RRQ" \/ m.from = TftpServerPort

(* HandleOack without "TftpServerPort = src" *)
HandleOackKeepsPort(m, dup) ==
    /\ m.type = "OACK"
    /\ Accepts(m)
    /\ Take(m, dup)
    /\ TftpState' = "OACK"
    /\ net' = Rest(m, dup) \cup {Ack(TftpOurPort, m.from, TftpBlock)}
    /\ UNCHANGED <<loopVars, memVars, TftpServerPort, TftpOurPort, TftpBlock,
                   TftpLastBlock, TftpBlockWrapOffset, TftpTimeoutCount, session>>

(* case TFTP_OACK, in whatever state it arrives *)
HandleOack(m, dup) ==
    /\ m.type = "OACK"
    /\ Accepts(m)
    /\ Take(m, dup)
    /\ TftpState' = "OACK"
    /\ TftpServerPort' = m.from
    /\ net' = Rest(m, dup) \cup {Ack(TftpOurPort, m.from, TftpBlock)}
    /\ UNCHANGED <<loopVars, memVars, TftpOurPort, TftpBlock, TftpLastBlock,
                   TftpBlockWrapOffset, TftpTimeoutCount, session>>

(* case TFTP_DATA: block number 0 tells that the counter has wrapped *)
FirstBlock == TftpState \in {"RRQ", "OACK"}
WrapOffset(seq) == IF seq = 0 THEN TftpBlockWrapOffset + SequenceSize
                   ELSE TftpBlockWrapOffset

(* "First block is not block 1" *)
HandleBadFirst(m, dup) ==
    /\ m.type = "DATA"
    /\ Accepts(m)
    /\ FirstBlock /\ Seq(m.block) # 1
    /\ Take(m, dup)
    /\ TftpBlock' = Seq(m.block)
    /\ TftpState' = "DATA"
    /\ TftpServerPort' = m.from
    /\ TftpLastBlock' = 0
    /\ TftpBlockWrapOffset' = 0
    /\ NetStartAgain(timeHandler)
    /\ pc' = "drain"
    /\ ring' = Rest(m, dup) \cap (IF pc = "drain" THEN ring ELSE ToClient)
    /\ net' = Rest(m, dup)
    /\ UNCHANGED <<TftpOurPort, TftpTimeoutCount, memVars, session>>

(* "Same block again; ignore it" *)
HandleSameBlock(m, dup) ==
    /\ m.type = "DATA"
    /\ Accepts(m)
    /\ ~ FirstBlock /\ Seq(m.block) = TftpLastBlock
    /\ Take(m, dup)
    /\ TftpBlock' = Seq(m.block)
    /\ TftpBlockWrapOffset' = WrapOffset(Seq(m.block))
    /\ net' = Rest(m, dup)
    /\ UNCHANGED <<loopVars, memVars, TftpState, TftpServerPort, TftpOurPort,
                   TftpLastBlock, TftpTimeoutCount, session>>

(* store_block that reports the end of the last block instead of the largest *)
StoreBlockSizeOfLast(slot, block) ==
    /\ mem' = [i \in File |-> IF i = slot THEN block ELSE mem[i]]
    /\ NetBootFileXferSize' = slot

(* store_block; a slot outside the file's image only counts in the size *)
StoreBlock(slot, block) ==
    /\ mem' = [i \in File |-> IF i = slot THEN block ELSE mem[i]]
    /\ NetBootFileXferSize' = IF NetBootFileXferSize < slot THEN slot
                              ELSE NetBootFileXferSize

(* case TFTP_DATA, a block that is stored and acknowledged *)
HandleBlock(m, dup) ==
    /\ m.type = "DATA"
    /\ Accepts(m)
    /\ IF FirstBlock THEN Seq(m.block) = 1 ELSE Seq(m.block) # TftpLastBlock
    /\ Take(m, dup)
    /\ TftpState' = "DATA"
    /\ TftpServerPort' = m.from
    /\ TftpBlock' = Seq(m.block)
    /\ TftpLastBlock' = Seq(m.block)
    /\ TftpBlockWrapOffset' = IF FirstBlock THEN 0 ELSE WrapOffset(Seq(m.block))
    /\ timeHandler' = "tftp"
    /\ StoreBlock(Seq(m.block) + TftpBlockWrapOffset', m.block)
    /\ net' = Rest(m, dup) \cup {Ack(TftpOurPort, m.from, Seq(m.block))}
    /\ NetState' = IF m.block = NBlocks THEN "SUCCESS" ELSE NetState
    /\ UNCHANGED <<pc, ring, packetHandler, TftpOurPort, TftpTimeoutCount, session>>

(* case TFTP_ERROR *)
HandleError(m, dup) ==
    /\ m.type = "ERROR"
    /\ Accepts(m)
    /\ Take(m, dup)
    /\ NetStartAgain(timeHandler)
    /\ pc' = "drain"
    /\ ring' = Rest(m, dup) \cap (IF pc = "drain" THEN ring ELSE ToClient)
    /\ net' = Rest(m, dup)
    /\ UNCHANGED <<tftpVars, memVars, session>>

(* a packet for another port or from another session, or a deaf handler *)
HandleOther(m) ==
    /\ m.type \in {"DATA", "OACK", "ERROR"}
    /\ Receives(m)
    /\ ~ Accepts(m)
    /\ net' = net \ {m}
    /\ UNCHANGED <<clientVars, session, faults>>

TftpHandler(m, dup) ==
    \/ HandleOack(m, dup)
    \/ HandleBadFirst(m, dup)
    \/ HandleSameBlock(m, dup)
    \/ HandleBlock(m, dup)
    \/ HandleError(m, dup)

-----------------------------------------------------------------------------
(* The rest of a loop iteration.                                           *)

(* TftpTimeout that does not set its timer again *)
TftpTimeoutOnce ==
    /\ pc \in {"rx", "drain"}
    /\ timeHandler = "tftp"
    /\ ClientTimerMayExpire
    /\ session' = Rearmed
    /\ pc' = "switch"
    /\ ring' = {}
    /\ TftpTimeoutCount' = TftpTimeoutCount + 1
    /\ \/ /\ TftpTimeoutCount' > TIMEOUT_COUNT
          /\ NetStartAgain("none")
          /\ UNCHANGED net
       \/ /\ TftpTimeoutCount' <= TIMEOUT_COUNT
          /\ timeHandler' = "none"
          /\ net' = net \cup {TftpSend}
          /\ UNCHANGED <<NetState, packetHandler>>
    /\ UNCHANGED <<TftpState, TftpServerPort, TftpOurPort, TftpBlock,
                   TftpLastBlock, TftpBlockWrapOffset, memVars, faults>>

(* TftpTimeout: NetLoop clears timeHandler before it calls the handler *)
TftpTimeout ==
    /\ pc \in {"rx", "drain"}
    /\ timeHandler = "tftp"
    /\ ClientTimerMayExpire
    /\ session' = Rearmed
    /\ pc' = "switch"
    /\ ring' = {}
    /\ TftpTimeoutCount' = TftpTimeoutCount + 1
    /\ \/ /\ TftpTimeoutCount' > TIMEOUT_COUNT
          /\ NetStartAgain("none")
          /\ UNCHANGED net
       \/ /\ TftpTimeoutCount' <= TIMEOUT_COUNT
          /\ timeHandler' = "tftp"
          /\ net' = net \cup {TftpSend}
          /\ UNCHANGED <<NetState, packetHandler>>
    /\ UNCHANGED <<TftpState, TftpServerPort, TftpOurPort, TftpBlock,
                   TftpLastBlock, TftpBlockWrapOffset, memVars, faults>>

startAgainTimeout ==
    /\ pc \in {"rx", "drain"}
    /\ timeHandler = "startAgain"
    /\ pc' = "switch"
    /\ ring' = {}
    /\ timeHandler' = "none"
    /\ NetState' = "RESTART"
    /\ UNCHANGED <<packetHandler, tftpVars, memVars, session, net, faults>>

(* an iteration in which no timer has expired: it matters only once NetState
   has changed *)
NoTimeout ==
    /\ pc \in {"rx", "drain"}
    /\ NetState # "CONTINUE" \/ pc = "drain"
    /\ pc' = "switch"
    /\ ring' = {}
    /\ UNCHANGED <<NetState, packetHandler, timeHandler, tftpVars, memVars,
                   session, net, faults>>

(* TftpStart that keeps its port *)
TftpStartSamePort(port) ==
    /\ timeHandler' = "tftp"
    /\ packetHandler' = "tftp"
    /\ TftpServerPort' = WELL_KNOWN_PORT
    /\ TftpTimeoutCount' = 0
    /\ TftpState' = "RRQ"
    /\ TftpBlock' = 0
    /\ net' = net \cup {Request(TftpOurPort)}
    /\ NetBootFileXferSize' = 0
    /\ UNCHANGED <<TftpOurPort, TftpLastBlock, TftpBlockWrapOffset, mem>>

(* TftpStart, and NetLoop's reset of the transfer size after it *)
TftpStart(port) ==
    /\ timeHandler' = "tftp"
    /\ packetHandler' = "tftp"
    /\ TftpServerPort' = WELL_KNOWN_PORT
    /\ TftpTimeoutCount' = 0
    /\ TftpState' = "RRQ"
    /\ TftpOurPort' = port
    /\ TftpBlock' = 0
    /\ net' = net \cup {Request(port)}
    /\ NetBootFileXferSize' = 0
    /\ UNCHANGED <<TftpLastBlock, TftpBlockWrapOffset, mem>>

(* switch (NetState) *)
Restart ==
    /\ pc = "switch"
    /\ NetState = "RESTART"
    /\ TftpOurPort < MaxStarts
    /\ pc' = "rx"
    /\ NetState' = "CONTINUE"
    /\ TftpStart(TftpOurPort + 1)
    /\ UNCHANGED <<ring, session, faults>>

(* NetLoop that returns the size after NETLOOP_FAIL too *)
EndOfIterationNoError ==
    /\ pc = "switch"
    /\ \/ NetState = "CONTINUE" /\ pc' = "rx"
       \/ NetState \in {"SUCCESS", "FAIL"} /\ pc' = "done"
    /\ UNCHANGED <<ring, NetState, packetHandler, timeHandler, tftpVars, memVars,
                   session, net, faults>>

EndOfIteration ==
    /\ pc = "switch"
    /\ \/ NetState = "CONTINUE" /\ pc' = "rx"
       \/ NetState = "SUCCESS" /\ pc' = "done"
       \/ NetState = "FAIL" /\ pc' = "failed"
    /\ UNCHANGED <<ring, NetState, packetHandler, timeHandler, tftpVars, memVars,
                   session, net, faults>>

-----------------------------------------------------------------------------
(* The TFTP server (external): every read request opens a session with a
   port of its own, which sends one block at a time, sends it again when its
   timer expires, and moves on when that block is acknowledged.  A server
   that knows the "timeout" option answers with an OACK, its block 0.      *)

Reply(s, port, block) ==
    IF block = 0 THEN [type |-> "OACK", port |-> port, from |-> s]
    ELSE [type |-> "DATA", port |-> port, from |-> s, block |-> block]

Closed == [port |-> 0, block |-> 0, open |-> FALSE, resent |-> FALSE]
NextSession(s) == session[s] = Closed /\ \A t \in 1 .. s - 1 : session[t] # Closed

OpenSession(m, s, block, dup) ==
    /\ m.type = "RRQ"
    /\ NextSession(s)
    /\ Take(m, dup)
    /\ session' = [session EXCEPT ![s] =
                      [port |-> m.port, block |-> block,
                       open |-> TRUE, resent |-> FALSE]]
    /\ net' = Rest(m, dup) \cup {Reply(s, m.port, block)}
    /\ UNCHANGED clientVars

RefuseRequest(m, s) ==
    /\ m.type = "RRQ"
    /\ NextSession(s)
    /\ faults > 0
    /\ faults' = faults - 1
    /\ session' = [session EXCEPT ![s].port = m.port]
    /\ net' = (net \ {m})
                 \cup {[type |-> "ERROR", port |-> m.port, from |-> s]}
    /\ UNCHANGED clientVars

Acknowledged(m) == /\ session[m.to].open
                   /\ m.port = session[m.to].port
                   /\ m.seq = Seq(session[m.to].block)

NextBlock(m, dup) ==
    /\ m.type = "ACK"
    /\ Acknowledged(m)
    /\ session[m.to].block < NBlocks
    /\ Take(m, dup)
    /\ session' = [session EXCEPT ![m.to].block = @ + 1, ![m.to].resent = FALSE]
    /\ net' = Rest(m, dup)
                 \cup {Reply(m.to, session[m.to].port, session[m.to].block + 1)}
    /\ UNCHANGED clientVars

LastBlockAcknowledged(m) ==
    /\ m.type = "ACK"
    /\ Acknowledged(m)
    /\ session[m.to].block = NBlocks
    /\ session' = [session EXCEPT ![m.to].open = FALSE]
    /\ net' = net \ {m}
    /\ UNCHANGED <<clientVars, faults>>

StaleAck(m) ==
    /\ m.type = "ACK"
    /\ ~ Acknowledged(m)
    /\ net' = net \ {m}
    /\ UNCHANGED <<clientVars, session, faults>>

ServerTimeout(s) ==
    /\ session[s].open
    /\ ServerTimerMayExpire(s)
    /\ session' = [session EXCEPT ![s].resent = Prompt]
    /\ net' = net \cup {Reply(s, session[s].port, session[s].block)}
    /\ UNCHANGED <<clientVars, faults>>

ServerGivesUp(s) ==
    /\ session[s].open
    /\ faults > 0
    /\ faults' = faults - 1
    /\ session' = [session EXCEPT ![s].open = FALSE]
    /\ UNCHANGED <<clientVars, net>>

-----------------------------------------------------------------------------
Init ==
    /\ pc = "rx"
    /\ ring = {}
    /\ NetState = "CONTINUE"
    /\ packetHandler = "tftp"
    /\ timeHandler = "tftp"
    /\ NetBootFileXferSize = 0
    /\ TftpState = "RRQ"
    /\ TftpServerPort = WELL_KNOWN_PORT
    /\ TftpOurPort = 1
    /\ TftpBlock = 0
    /\ TftpLastBlock = 0
    /\ TftpBlockWrapOffset = 0
    /\ TftpTimeoutCount = 0
    /\ mem = [i \in File |-> 0]
    /\ session = [s \in Sessions |-> Closed]
    /\ net = {Request(1)}
    /\ faults = MaxFaults

(* NetLoop has returned: what the server still does is of no interest *)
Running  == pc \notin {"done", "failed"}
Finished == ~ Running /\ UNCHANGED vars

Client == \/ \E m \in net, dup \in BOOLEAN : TftpHandler(m, dup)
          \/ \E m \in net : HandleOther(m)
          \/ TftpTimeout
          \/ startAgainTimeout
          \/ NoTimeout
          \/ Restart
          \/ EndOfIteration

Server == \/ \E m \in net, s \in Sessions, b \in {0, 1}, dup \in BOOLEAN :
                OpenSession(m, s, b, dup)
          \/ \E m \in net, s \in Sessions : RefuseRequest(m, s)
          \/ \E m \in net, dup \in BOOLEAN : NextBlock(m, dup)
          \/ \E m \in net : LastBlockAcknowledged(m) \/ StaleAck(m)
          \/ \E s \in Sessions : ServerTimeout(s) \/ ServerGivesUp(s)

Next == \/ Running /\ (Client \/ Server \/ \E m \in net : Lose(m))
        \/ Finished

Spec == Init /\ [][Next]_vars

(* The loop polls the interface and its timer for ever, and so do the
   server's sessions: what may be received is received, what expires
   expires.  The timers' guards wait for an idle network, hence SF.        *)
Fairness ==
    /\ WF_vars(\E m \in net : TftpHandler(m, FALSE) \/ HandleOther(m))
    /\ WF_vars(Running /\ \E m \in net, s \in Sessions :
                              OpenSession(m, s, 0, FALSE))
    /\ WF_vars(Running /\ \E m \in net : \/ NextBlock(m, FALSE)
                                         \/ LastBlockAcknowledged(m)
                                         \/ StaleAck(m))
    /\ WF_vars(startAgainTimeout \/ NoTimeout \/ Restart \/ EndOfIteration)
    /\ SF_vars(TftpTimeout)
    /\ \A s \in Sessions : SF_vars(Running /\ ServerTimeout(s))

FairSpec == Spec /\ Fairness

-----------------------------------------------------------------------------
(* A download that NetLoop reports as successful is complete: every block of
   the file is in its place and the reported size is the file's, whatever the
   network lost, doubled, delayed or reordered and however often the transfer
   was started again (TftpHandler, store_block, NetStartAgain).             *)
ImageComplete ==
    NetState = "SUCCESS" =>
        /\ \A i \in File : mem[i] = i
        /\ NetBootFileXferSize = NBlocks

(* The blocks 1 .. b are in place. *)
Stored(b) == \A i \in 1 .. b : mem[i] = i

(* What has been written is where it belongs. *)
Placed ==
    /\ TftpBlockWrapOffset = 0
    /\ NetBootFileXferSize <= NBlocks
    /\ \A i \in File : mem[i] \in {0, i}
    /\ NetState = "SUCCESS" => Stored(NBlocks) /\ NetBootFileXferSize = NBlocks

(* No NetStartAgain has been called since the transfer was last started. *)
Clean == /\ packetHandler = "tftp"
         /\ pc = "rx" \/ (pc = "switch" /\ NetState = "CONTINUE")

Draining == packetHandler = "tftp" /\ pc = "drain"

Phases == /\ pc = "rx" /\ packetHandler = "tftp" => NetState \in {"CONTINUE", "SUCCESS"}
          /\ Draining => NetState # "CONTINUE"

FreshPorts == /\ \A m \in net : m.port <= TftpOurPort
              /\ \A s \in Sessions : session[s].port <= TftpOurPort

Known(b)   == b \in {0} \cup File /\ Stored(b)
Follows(m) == m.port = TftpOurPort /\ m.type = "DATA" => Stored(m.block - 1)
Deserved(m) == m.port = TftpOurPort /\ m.type = "ACK" => Known(m.seq)

(* Why a download is complete: the handler itself takes any block that is not
   the one before, so it relies on what can reach it.  While the transfer runs,
   block b is on its way to this start's port only if the blocks before b are
   in place, because an acknowledgement says so and the server waits for it.
   Once NetStartAgain has been called that is no longer so: TftpBlock may name
   a block that was refused ("First block is not block 1") and may still be
   acknowledged, and only a new port (a new TftpStart) makes it true again.  *)
InOrder ==
    /\ Placed
    /\ Phases
    /\ FreshPorts
    /\ Clean => /\ Known(TftpBlock)
                /\ TftpState = "DATA" => Known(TftpLastBlock)
                /\ \A m \in net : Follows(m) /\ Deserved(m)
                /\ \A s \in Sessions : session[s].port = TftpOurPort =>
                                        Stored(session[s].block - 1)
    /\ Draining => \A m \in ring : Follows(m)

(* The client, the server and the network together implement FileTransfer. *)
Abstract == INSTANCE FileTransfer WITH
    image  <- {i \in File : mem[i] = i},
    size   <- NetBootFileXferSize,
    status <- IF Running THEN "running" ELSE pc

(* A download keeps the promise of FileTransfer at every step (TftpHandler,
   TftpStart, NetLoop's switch): in order, nothing spoilt, success last.    *)
ImplementsFileTransfer == Abstract!Spec

(* With no more losses than the client forgives, and retries not switched
   off, the download ends, and ends well: neither side waits for ever for
   the other after a lost packet (TftpTimeout, the acknowledgement it sends
   again, NetStartAgain).                                                  *)
TransferCompletes == <>(pc = "done")

(* "Same block again; ignore it" (tftp.c:263): a block that repeats the one
   before leaves no trace in where the following blocks will be stored.     *)
SameBlockIgnored ==
    [][\A m \in net, dup \in BOOLEAN :
          HandleSameBlock(m, dup) => UNCHANGED TftpBlockWrapOffset]_vars
=============================================================================
