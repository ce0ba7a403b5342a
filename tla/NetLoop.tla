------------------------------ MODULE NetLoop ------------------------------
(***************************************************************************)
(* The main network loop of U-Boot (net/net.c), its choice of an Ethernet  *)
(* interface (net/eth.c), the ARP wait slot, and the receiver of the       *)
(* AR7240 MACs (cpu/mips/ar7240/ag7240.c) as far as it is switched on and  *)
(* off.  The protocols are reduced to how they use the loop: what a packet *)
(* or a time-out of TFTP, ping or DHCP does to its handlers, its timer,    *)
(* the ARP slot and NetState (module Tftp has the rest of TFTP).           *)
(*                                                                         *)
(* pc follows one iteration of for(;;): "rx" eth_rx() hands the packets of *)
(* the receive ring to packetHandler, then ctrl-C is looked at; "arp"      *)
(* ArpTimeoutCheck(); "time" the time handler; "switch" NetState.  Time is *)
(* counted in seconds, and passes while the loop waits for packets; the    *)
(* rest of an iteration takes none.                                        *)
(***************************************************************************)
EXTENDS Integers

CONSTANTS
    NumDevs,            \* registered interfaces, in the order of eth_devices
    ethact,             \* the interface NetLoop writes to "ethact" (eth0)
    Unconfigured,       \* interfaces without an Ethernet address
    NetRetries,         \* values netretry is given
    Protocols,          \* commands given: a subset of {"TFTP", "PING", "DHCP"}
    ServerErrors,       \* TRUE: the TFTP server may answer with an error, or with a
                        \* first block that is not block 1
    LinkMayFail,        \* TRUE: the init function of an interface may fail
    ARP_TIMEOUT_COUNT,  \* 5 in the code
    TFTP_TIMEOUT_COUNT, \* TIMEOUT_COUNT of net/tftp.c, 10
    DHCP_TIMEOUT_COUNT, \* TIMEOUT_COUNT of net/bootp.c, 5
    MaxBlocks,          \* bound: TFTP blocks that do not end a download
    MaxBurst,           \* bound: packets one eth_rx hands to the handler
    MaxCommands         \* bound: NetLoop calls

Devices == 0 .. NumDevs - 1

ASSUME NetLoopAssumption ==
    /\ NumDevs \in Nat \ {0}
    /\ ethact \in Devices
    /\ Unconfigured \subseteq Devices
    /\ NetRetries \subseteq {"yes", "no", "once"}
    /\ Protocols \subseteq {"TFTP", "PING", "DHCP"}
    /\ ServerErrors \in BOOLEAN /\ LinkMayFail \in BOOLEAN
    /\ ARP_TIMEOUT_COUNT \in Nat /\ TFTP_TIMEOUT_COUNT \in Nat
    /\ DHCP_TIMEOUT_COUNT \in Nat
    /\ MaxBlocks \in Nat /\ MaxBurst \in Nat /\ MaxCommands \in Nat

\* Seconds
ARP_TIMEOUT    == 5
TIMEOUT        == 5     \* of net/tftp.c and of net/bootp.c
SELECT_TIMEOUT == 3
LongTimeout    == 10    \* of ping, and of the pause before all is tried again

NULL  == "null"
NoDev == -1         \* the null pointer to an interface

VARIABLES
    pc,             \* see above; "start" is label restart; "prompt", "crashed"
    commands,       \* NetLoop calls so far
    protocol,       \* NetLoop's argument
    netretry,       \* environment variable: "yes" (or unset), "no" or "once"
    result,         \* how the last NetLoop ended
    NetState,       \* NETLOOP_CONTINUE, _RESTART, _SUCCESS, _FAIL
    NetRestarted,
    NetDevExists,
    packetHandler,  \* NULL or whose handler it is
    timeHandler,    \* NULL or whose handler it is
    timeLeft,       \* seconds until the time handler's timer expires
    tries,          \* TftpTimeoutCount or BootpTry, of the running client
    got,            \* packets of this start that got the client further
    NetOurIP,       \* an IP address is known
    NetServerEther, \* the server's Ethernet address is known
    arp,            \* NetArpWaitPacketIP: "none", or set by this start ("own")
                    \* of the protocol or by an earlier one ("old")
    NetArpWaitTry,
    arpLeft,        \* seconds until the ARP timer expires
    eth,            \* net/eth.c and the receivers, see eth_halt below
    rxdev,          \* interface whose recv function is running
    handed,         \* packets handed over by this eth_rx
    tried,          \* interfaces this command has tried
    started         \* interfaces on which it has started the protocol

loopVars    == <<commands, protocol, netretry, result, NetRestarted, NetDevExists>>
handlerVars == <<packetHandler, timeHandler, timeLeft>>
clientVars  == <<tries, got, NetOurIP, NetServerEther>>
arpVars     == <<arp, NetArpWaitTry, arpLeft>>
triedVars   == <<tried, started>>
rxVars      == <<rxdev, handed>>
vars == <<pc, loopVars, NetState, handlerVars, clientVars, arpVars, eth,
          rxVars, triedVars>>

Clients == {"tftp", "ping", "dhcp"}

(* Every variable ranges over the values its declaration allows; the counters
   of the code stay below the limits at which it gives up.  (Not so the client's
   when NetLoop passes over an interface without an Ethernet address: packets and
   time-outs then still reach a client that has given up.) *)
TypeOK ==
    /\ pc \in {"prompt", "start", "rx", "arp", "time", "switch", "crashed"}
    /\ commands \in 0 .. MaxCommands
    /\ protocol \in {"TFTP", "PING", "DHCP"}
    /\ netretry \in NetRetries
    /\ result \in {"none", "success", "fail", "abort", "unset"}
    /\ NetState \in {"CONTINUE", "RESTART", "SUCCESS", "FAIL"}
    /\ NetRestarted \in BOOLEAN /\ NetDevExists \in BOOLEAN
    /\ packetHandler \in {NULL, "startAgain"} \cup Clients
    /\ timeHandler \in {NULL, "startAgain"} \cup Clients
    /\ timeLeft \in 0 .. LongTimeout
    /\ tries \in Nat
    /\ Unconfigured = {} =>
         tries \in (0 .. TFTP_TIMEOUT_COUNT + 1) \cup (0 .. DHCP_TIMEOUT_COUNT) \cup {1}
    /\ got \in Nat
    /\ NetOurIP \in BOOLEAN /\ NetServerEther \in BOOLEAN
    /\ arp \in {"none", "own", "old"}
    /\ NetArpWaitTry \in (0 .. ARP_TIMEOUT_COUNT - 1) \cup {0, 1}
    /\ arpLeft \in 0 .. ARP_TIMEOUT
    /\ eth \in [current : Devices, first_failed : {NoDev} \cup Devices,
                NetRestartWrap : BOOLEAN, rx : SUBSET Devices]
    /\ rxdev \in Devices /\ handed \in 0 .. MaxBurst
    /\ tried \subseteq Devices /\ started \subseteq Devices

-----------------------------------------------------------------------------
(* net/eth.c.  eth.current is eth_current, eth.first_failed the static of
   eth_try_another, eth.rx the MACs whose receive DMA is switched on.       *)

(* dev->next: eth_register makes the list circular *)
next(d) == (d + 1) % NumDevs

eth_halt(e) == [e EXCEPT !.rx = @ \ {e.current}]

(* NetLoop has set "ethact" before it calls eth_set_current *)
eth_set_current(e) == [e EXCEPT !.current = ethact]

(* eth_try_another that forgets to note the first interface that failed *)
eth_try_anotherForgets(e, first_restart) ==
    [e EXCEPT !.current = next(e.current),
              !.NetRestartWrap = @ \/ e.first_failed = next(e.current)]

(* eth_try_another that compares before it moves on *)
eth_try_anotherEarly(e, first_restart) ==
    LET failed == IF first_restart THEN e.current ELSE e.first_failed
    IN  [e EXCEPT !.first_failed = failed, !.current = next(e.current),
                  !.NetRestartWrap = @ \/ failed = e.current]

eth_try_another(e, first_restart) ==
    LET failed == IF first_restart THEN e.current ELSE e.first_failed
    IN  [e EXCEPT !.first_failed = failed, !.current = next(e.current),
                  !.NetRestartWrap = @ \/ failed = next(e.current)]

(* The interfaces from d on, in the order eth_init goes through them *)
After(d, k) == (d + k) % NumDevs

(* How many interfaces eth_init passes over: those before the first one whose
   init function succeeds (up), or all of them                              *)
Skips(e, up) ==
    IF \E k \in 0 .. NumDevs - 1 : After(e.current, k) \in up
    THEN CHOOSE k \in 0 .. NumDevs - 1 :
           /\ After(e.current, k) \in up
           /\ \A j \in 0 .. k - 1 : After(e.current, j) \notin up
    ELSE NumDevs

Skipped(e, up) == {After(e.current, k) : k \in 0 .. Skips(e, up) - 1}

(* eth_init calls eth_try_another(0) for each interface it passes over; it
   never returns a negative value, so NetLoop goes on without a link        *)
eth_init(e, up) ==
    LET k     == Skips(e, up)
        seen  == {After(e.current, j) : j \in 1 .. k}
        last  == After(e.current, k)
    IN  [e EXCEPT !.current = last,
                  !.NetRestartWrap = @ \/ e.first_failed \in seen,
                  !.rx = IF k < NumDevs THEN @ \cup {last} ELSE @]

Links == IF LinkMayFail THEN SUBSET Devices ELSE {Devices}

-----------------------------------------------------------------------------
(* Timers and ARP.                                                          *)

(* AskArp that counts a request of the client as a further try *)
AskArpCounts == arp' = "own" /\ NetArpWaitTry' = NetArpWaitTry + 1 /\ arpLeft' = ARP_TIMEOUT

(* ArpRequest's caller NetSendUDPPacket: without the server's address the
   packet is kept in the slot and an ARP request is sent                    *)
AskArp == arp' = "own" /\ NetArpWaitTry' = 1 /\ arpLeft' = ARP_TIMEOUT

NetSendUDPPacket(ether) == IF ether THEN UNCHANGED arpVars ELSE AskArp

NetSetTimeout(f, seconds) == timeHandler' = f /\ timeLeft' = seconds

(* NetStartAgain without eth_halt before it changes the interface *)
NetStartAgainNoHalt(th, ns) ==
    \/ /\ netretry = "no"
       /\ eth' = eth_halt(eth)
       /\ NetState' = "FAIL"
       /\ timeHandler' = th
       /\ UNCHANGED <<packetHandler, timeLeft, tried>>
    \/ /\ netretry # "no"
       /\ \E up \in Links :
            LET other == eth_try_another(eth, ~ NetRestarted)
                now   == eth_init(other, up)
            IN  /\ tried' = tried \cup Skipped(other, up)
                /\ eth' = [now EXCEPT !.NetRestartWrap = FALSE]
                /\ IF now.NetRestartWrap /\ NetDevExists /\ netretry # "once"
                   THEN /\ NetSetTimeout("startAgain", LongTimeout)
                        /\ packetHandler' = "startAgain"
                        /\ NetState' = ns
                   ELSE /\ NetState' = IF now.NetRestartWrap THEN "FAIL" ELSE "RESTART"
                        /\ timeHandler' = th
                        /\ UNCHANGED <<packetHandler, timeLeft>>

(* NetStartAgain; th and ns are timeHandler and NetState at the call.  The
   interface on which the operation goes on is decided by net/eth.c.        *)
NetStartAgain(th, ns) ==
    \/ /\ netretry = "no"
       /\ eth' = eth_halt(eth)
       /\ NetState' = "FAIL"
       /\ timeHandler' = th
       /\ UNCHANGED <<packetHandler, timeLeft, tried>>
    \/ /\ netretry # "no"
       /\ \E up \in Links :
            LET other == eth_try_another(eth_halt(eth), ~ NetRestarted)
                now   == eth_init(other, up)
            IN  /\ tried' = tried \cup Skipped(other, up)
                /\ eth' = [now EXCEPT !.NetRestartWrap = FALSE]
                /\ IF now.NetRestartWrap /\ NetDevExists /\ netretry # "once"
                   THEN /\ NetSetTimeout("startAgain", LongTimeout)
                        /\ packetHandler' = "startAgain"
                        /\ NetState' = ns
                   ELSE /\ NetState' = IF now.NetRestartWrap THEN "FAIL" ELSE "RESTART"
                        /\ timeHandler' = th
                        /\ UNCHANGED <<packetHandler, timeLeft>>

-----------------------------------------------------------------------------
(* Starting an operation.                                                   *)

(* NetLoop up to the label restart, that keeps a waiting packet of an earlier
   command *)
NetLoopKeepsArp(p, late) ==
    /\ pc = "prompt" /\ commands < MaxCommands
    /\ commands' = commands + 1
    /\ protocol' = p
    /\ netretry' \in NetRetries
    /\ NetRestarted' = FALSE
    /\ NetDevExists' = FALSE
    /\ arp' = IF arp = "none" THEN "none" ELSE "old"
    /\ \E up \in Links :
         LET first == eth_set_current(eth_halt(eth))
         IN  /\ eth' = eth_init(first, up)
             /\ tried' = Skipped(first, up)
    /\ started' = {}
    /\ timeLeft' = IF late THEN 0 ELSE timeLeft
    /\ pc' = "start"
    /\ UNCHANGED <<result, NetState, packetHandler, timeHandler, clientVars,
                   NetArpWaitTry, arpLeft, rxVars>>

(* NetLoop up to the label restart.  The handlers of the last command stay in
   place; its timer may have expired since (late).                          *)
NetLoop(p, late) ==
    /\ pc = "prompt" /\ commands < MaxCommands
    /\ commands' = commands + 1
    /\ protocol' = p
    /\ netretry' \in NetRetries
    /\ NetRestarted' = FALSE
    /\ NetDevExists' = FALSE
    /\ arp' = "none"
    /\ \E up \in Links :
         LET first == eth_set_current(eth_halt(eth))
         IN  /\ eth' = eth_init(first, up)
             /\ tried' = Skipped(first, up)
    /\ started' = {}
    /\ timeLeft' = IF late THEN 0 ELSE timeLeft
    /\ pc' = "start"
    /\ UNCHANGED <<result, NetState, packetHandler, timeHandler, clientVars,
                   NetArpWaitTry, arpLeft, rxVars>>

(* Entering the loop, and every further iteration: eth_rx calls the recv
   function of the current interface                                        *)
EnterLoop == /\ pc' = "rx"
             /\ rxdev' = eth'.current
             /\ handed' = 0

Returns(r) == pc' = "prompt" /\ result' = r

(* net_check_prereq 1: an IP address that the protocol needs is not set *)
NotConfigured ==
    /\ pc = "start" /\ ~ NetRestarted
    /\ protocol # "DHCP"
    /\ NetState' = "CONTINUE"
    /\ NetOurIP' \in BOOLEAN
    /\ eth' = eth_halt(eth)
    /\ Returns("unset")
    /\ UNCHANGED <<commands, protocol, netretry, NetRestarted, NetDevExists, handlerVars,
                   tries, got, NetServerEther, arpVars, rxVars, triedVars>>

(* net_check_prereq 2: the interface has no Ethernet address.  The loop is
   entered with whatever handlers the last command has left.                *)
NoEtherAddress ==
    /\ pc = "start"
    /\ eth.current \in Unconfigured
    /\ NetOurIP' = IF protocol = "DHCP" THEN NetOurIP ELSE TRUE
    /\ NetStartAgain(timeHandler, "CONTINUE")
    /\ EnterLoop
    /\ UNCHANGED <<loopVars, tries, got, NetServerEther, arpVars, started>>

(* TftpStart: the server's Ethernet address is always asked for *)
TftpStart ==
    /\ packetHandler' = "tftp"
    /\ NetSetTimeout("tftp", TIMEOUT)
    /\ tries' = 0
    /\ got' = 0
    /\ NetServerEther' = FALSE
    /\ AskArp

(* BootpRequest: broadcast, back in state SELECTING; the ARP slot is not touched *)
BootpRequest(n) ==
    /\ packetHandler' = "dhcp"
    /\ NetSetTimeout("dhcp", SELECT_TIMEOUT)
    /\ tries' = n
    /\ got' = 0
    /\ UNCHANGED NetServerEther

(* PingStart and PingSend, which asks for the address of the pinged host *)
PingStart ==
    /\ packetHandler' = "ping"
    /\ NetSetTimeout("ping", LongTimeout)
    /\ AskArp
    /\ UNCHANGED <<tries, got, NetServerEther>>

(* The label restart: NetOurIP is read, the protocol's start function called *)
Start ==
    /\ pc = "start"
    /\ eth.current \notin Unconfigured
    /\ NetState' = "CONTINUE"
    /\ NetDevExists' = TRUE
    /\ tried' = tried \cup {eth.current}
    /\ started' = started \cup {eth.current}
    /\ UNCHANGED eth
    /\ EnterLoop
    /\ \/ /\ protocol = "TFTP"
          /\ NetOurIP' = TRUE
          /\ TftpStart
       \/ /\ protocol = "DHCP"
          /\ NetOurIP' = FALSE
          /\ BootpRequest(1)
          /\ arp' = IF arp = "none" THEN "none" ELSE "old"
          /\ UNCHANGED <<NetArpWaitTry, arpLeft>>
       \/ /\ protocol = "PING"
          /\ NetOurIP' = TRUE
          /\ PingStart
    /\ UNCHANGED <<commands, protocol, netretry, result, NetRestarted>>

-----------------------------------------------------------------------------
(* eth_rx: recv hands over the packets of its ring, whatever NetState is.   *)

Hands(h) == /\ pc = "rx" /\ handed < MaxBurst
            /\ packetHandler = h
            /\ handed' = handed + 1
            /\ UNCHANGED <<pc, loopVars, rxdev, started>>

(* The request has left: its answer can come *)
Answered == arp # "own"

TftpBlock ==
    /\ Hands("tftp") /\ Answered /\ got < MaxBlocks
    /\ got' = got + 1
    /\ NetSetTimeout("tftp", TIMEOUT)
    /\ NetSendUDPPacket(NetServerEther)
    /\ UNCHANGED <<NetState, packetHandler, tries, NetOurIP, NetServerEther, eth, tried>>

TftpLastBlock ==
    /\ Hands("tftp") /\ Answered
    /\ NetSetTimeout("tftp", TIMEOUT)
    /\ NetSendUDPPacket(NetServerEther)
    /\ NetState' = "SUCCESS"
    /\ UNCHANGED <<packetHandler, clientVars, eth, tried>>

(* TFTP_ERROR, or "First block is not block 1": both call NetStartAgain *)
TftpError ==
    /\ ServerErrors
    /\ Hands("tftp") /\ Answered
    /\ NetStartAgain(timeHandler, NetState)
    /\ UNCHANGED <<clientVars, arpVars>>

PingReply ==
    /\ Hands("ping") /\ Answered
    /\ NetState' = "SUCCESS"
    /\ UNCHANGED <<handlerVars, clientVars, arpVars, eth, tried>>

(* DhcpHandler, state SELECTING *)
DhcpOffer ==
    /\ Hands("dhcp") /\ got = 0
    /\ got' = 1
    /\ NetOurIP' = TRUE
    /\ NetSetTimeout("dhcp", TIMEOUT)
    /\ UNCHANGED <<NetState, packetHandler, tries, NetServerEther, arpVars, eth, tried>>

(* DhcpHandler, state REQUESTING: without autoload the command is done *)
DhcpAck ==
    /\ Hands("dhcp") /\ got = 1
    /\ \/ TftpStart /\ UNCHANGED <<NetState, NetOurIP>>
       \/ /\ NetState' = "SUCCESS"
          /\ UNCHANGED <<handlerVars, clientVars, arpVars>>
    /\ UNCHANGED <<eth, tried>>

(* A packet for which no handler has ever been set *)
NullHandler ==
    /\ pc = "rx" /\ packetHandler = NULL
    /\ pc' = "crashed"
    /\ UNCHANGED <<loopVars, NetState, handlerVars, clientVars, arpVars, eth,
                   rxVars, triedVars>>

(* NetReceive, ARPOP_REPLY: the waiting packet leaves *)
ArpReply ==
    /\ pc = "rx" /\ arp # "none" /\ NetOurIP
    /\ arp' = "none"
    /\ NetServerEther' = (NetServerEther \/ protocol # "PING")
    /\ UNCHANGED <<pc, loopVars, NetState, handlerVars, tries, got, NetOurIP,
                   NetArpWaitTry, arpLeft, eth, rxVars, triedVars>>

Expired == \/ arp # "none" /\ arpLeft = 0
           \/ timeHandler # NULL /\ timeLeft = 0

(* Seconds pass in the loop, at most until the next timer expires *)
Tick ==
    /\ pc = "rx" /\ handed = 0
    /\ ~ Expired
    /\ \E d \in 1 .. LongTimeout :
         /\ arp = "none" \/ d <= arpLeft
         /\ timeHandler = NULL \/ d <= timeLeft
         /\ arpLeft' = IF arp = "none" THEN arpLeft ELSE arpLeft - d
         /\ timeLeft' = IF timeHandler = NULL THEN timeLeft ELSE timeLeft - d
    /\ UNCHANGED <<pc, loopVars, NetState, packetHandler, timeHandler, clientVars,
                   arp, NetArpWaitTry, eth, rxVars, triedVars>>

(* ag7240_recv ends by switching its receiver on if it finds it off *)
RecvEnds == [eth EXCEPT !.rx = @ \cup {rxdev}]

EndRecv ==
    /\ pc = "rx"
    /\ eth' = RecvEnds
    /\ pc' = "arp"
    /\ UNCHANGED <<loopVars, NetState, handlerVars, clientVars, arpVars, rxVars, triedVars>>

CtrlC ==
    /\ pc = "rx"
    /\ eth' = eth_halt(RecvEnds)
    /\ Returns("abort")
    /\ UNCHANGED <<commands, protocol, netretry, NetRestarted, NetDevExists, NetState, handlerVars,
                   clientVars, arpVars, rxVars, triedVars>>

-----------------------------------------------------------------------------
(* The rest of an iteration.                                                *)

ArpNotDue == arp = "none" \/ arpLeft > 0

ArpGivesUp ==
    /\ pc = "arp" /\ ~ ArpNotDue
    /\ NetArpWaitTry + 1 >= ARP_TIMEOUT_COUNT
    /\ NetArpWaitTry' = 0
    /\ NetStartAgain(timeHandler, NetState)
    /\ pc' = "time"
    /\ UNCHANGED <<loopVars, clientVars, arp, arpLeft, rxVars, started>>

ArpAgain ==
    /\ pc = "arp" /\ ~ ArpNotDue
    /\ NetArpWaitTry + 1 < ARP_TIMEOUT_COUNT
    /\ NetArpWaitTry' = NetArpWaitTry + 1
    /\ arpLeft' = ARP_TIMEOUT
    /\ pc' = "time"
    /\ UNCHANGED <<loopVars, NetState, handlerVars, clientVars, arp, eth, rxVars, triedVars>>

ArpIdle ==
    /\ pc = "arp" /\ ArpNotDue
    /\ pc' = "time"
    /\ UNCHANGED <<loopVars, NetState, handlerVars, clientVars, arpVars, eth, rxVars, triedVars>>

(* NetLoop clears timeHandler before it calls the handler *)
Due(h) == pc = "time" /\ timeHandler = h /\ timeLeft = 0 /\ pc' = "switch"

(* TftpTimeout without its limit *)
TftpTimeoutNoLimit ==
    /\ Due("tftp")
    /\ tries' = tries
    /\ NetSetTimeout("tftp", TIMEOUT)
    /\ NetSendUDPPacket(NetServerEther)
    /\ UNCHANGED <<NetState, packetHandler, eth, tried>>
    /\ UNCHANGED <<loopVars, got, NetOurIP, NetServerEther, rxVars, started>>

TftpTimeout ==
    /\ Due("tftp")
    /\ tries' = tries + 1
    /\ \/ /\ tries' > TFTP_TIMEOUT_COUNT
          /\ NetStartAgain(NULL, NetState)
          /\ UNCHANGED arpVars
       \/ /\ tries' <= TFTP_TIMEOUT_COUNT
          /\ NetSetTimeout("tftp", TIMEOUT)
          /\ NetSendUDPPacket(NetServerEther)
          /\ UNCHANGED <<NetState, packetHandler, eth, tried>>
    /\ UNCHANGED <<loopVars, got, NetOurIP, NetServerEther, rxVars, started>>

BootpTimeout ==
    /\ Due("dhcp")
    /\ \/ /\ tries >= DHCP_TIMEOUT_COUNT
          /\ NetStartAgain(NULL, NetState)
          /\ UNCHANGED clientVars
       \/ /\ tries < DHCP_TIMEOUT_COUNT
          /\ BootpRequest(tries + 1)
          /\ UNCHANGED <<NetState, NetOurIP, eth, tried>>
    /\ UNCHANGED <<loopVars, arpVars, rxVars, started>>

PingTimeout ==
    /\ Due("ping")
    /\ eth' = eth_halt(eth)
    /\ NetState' = "FAIL"
    /\ timeHandler' = NULL
    /\ UNCHANGED <<loopVars, packetHandler, timeLeft, clientVars, arpVars, rxVars, triedVars>>

(* startAgainTimeout that does not set NetState *)
startAgainTimeoutLost ==
    /\ Due("startAgain")
    /\ timeHandler' = NULL
    /\ UNCHANGED <<loopVars, NetState, packetHandler, timeLeft, clientVars, arpVars, eth, rxVars, triedVars>>

startAgainTimeout ==
    /\ Due("startAgain")
    /\ NetState' = "RESTART"
    /\ timeHandler' = NULL
    /\ UNCHANGED <<loopVars, packetHandler, timeLeft, clientVars, arpVars, eth, rxVars, triedVars>>

TimeIdle ==
    /\ pc = "time"
    /\ timeHandler = NULL \/ timeLeft > 0
    /\ pc' = "switch"
    /\ UNCHANGED <<loopVars, NetState, handlerVars, clientVars, arpVars, eth, rxVars, triedVars>>

Continues ==
    /\ pc = "switch" /\ NetState = "CONTINUE"
    /\ UNCHANGED eth
    /\ EnterLoop
    /\ UNCHANGED <<loopVars, NetState, handlerVars, clientVars, arpVars, triedVars>>

Restarts ==
    /\ pc = "switch" /\ NetState = "RESTART"
    /\ NetRestarted' = TRUE
    /\ pc' = "start"
    /\ UNCHANGED <<commands, protocol, netretry, result, NetDevExists, NetState, handlerVars,
                   clientVars, arpVars, eth, rxVars, triedVars>>

Succeeds ==
    /\ pc = "switch" /\ NetState = "SUCCESS"
    /\ eth' = eth_halt(eth)
    /\ Returns("success")
    /\ UNCHANGED <<commands, protocol, netretry, NetRestarted, NetDevExists, NetState, handlerVars,
                   clientVars, arpVars, rxVars, triedVars>>

(* No eth_halt here *)
Fails ==
    /\ pc = "switch" /\ NetState = "FAIL"
    /\ Returns("fail")
    /\ UNCHANGED <<commands, protocol, netretry, NetRestarted, NetDevExists, NetState, handlerVars,
                   clientVars, arpVars, eth, rxVars, triedVars>>

-----------------------------------------------------------------------------
Init ==
    /\ pc = "prompt" /\ commands = 0 /\ protocol = "TFTP" /\ netretry \in NetRetries /\ result = "none"
    /\ NetState = "CONTINUE" /\ NetRestarted = FALSE /\ NetDevExists = FALSE
    /\ packetHandler = NULL /\ timeHandler = NULL /\ timeLeft = 0
    /\ tries = 0 /\ got = 0 /\ NetOurIP = FALSE /\ NetServerEther = FALSE
    /\ arp = "none" /\ NetArpWaitTry = 0 /\ arpLeft = 0
    /\ eth = [current |-> 0, first_failed |-> NoDev, NetRestartWrap |-> FALSE,
              rx |-> {}]
    /\ rxdev = 0 /\ handed = 0
    /\ tried = {} /\ started = {}

Packet == \/ TftpBlock \/ TftpLastBlock \/ TftpError
          \/ PingReply \/ DhcpOffer \/ DhcpAck \/ ArpReply \/ NullHandler

TimeHandler == \/ TftpTimeout \/ BootpTimeout \/ PingTimeout \/ startAgainTimeout
               \/ TimeIdle

(* What the loop does by itself, from one look at the ring to the next *)
Loop == \/ Start \/ NoEtherAddress
        \/ EndRecv
        \/ ArpGivesUp \/ ArpAgain \/ ArpIdle
        \/ TimeHandler
        \/ Continues \/ Restarts \/ Succeeds \/ Fails

Next == \/ \E p \in Protocols, late \in BOOLEAN : NetLoop(p, late)
        \/ NotConfigured
        \/ Loop
        \/ Packet
        \/ Tick
        \/ CtrlC

(* The processor runs, and the clock does; packets and the user need not come *)
Fairness == WF_vars(Loop) /\ SF_vars(Tick)

Spec == Init /\ [][Next]_vars /\ Fairness

-----------------------------------------------------------------------------
(* Properties.                                                              *)

(* An operation (other than ping, which has its own limit of ten seconds)
   that netretry allows to go on fails only after every interface that has an
   Ethernet address has been tried: its init function failed, or the operation
   was started on it.                                                       *)
FailsOnlyAfterAll ==
    pc = "prompt" /\ result = "fail" /\ protocol # "PING" /\ netretry # "no"
      => Devices \ Unconfigured \subseteq tried

(* netretry "once": no command is started twice on the same interface ("tried
   once", README on netretry): when eth_try_another has come round, NetState
   stays NETLOOP_FAIL to the end of the iteration *)
StartedOnce ==
    pc = "start" /\ netretry = "once" => eth.current \notin started

(* When NetLoop is about to start a protocol, no interface but the current one
   receives: the MACs share the buffers NetRxPackets *)
OnlyCurrentReceives == pc = "start" => eth.rx \subseteq {eth.current}

(* An operation is never started again because of an ARP request that an
   earlier command has left unanswered (an earlier start of the same DHCP
   command may do that) *)
ArpOfThisCommand == [][ArpGivesUp => (arp = "own" \/ NetRestarted)]_vars

(* With netretry "no" or "once" every command comes to an end, whatever is
   answered or not (the limits of TftpTimeout, BootpTimeout and
   ArpTimeoutCheck, and eth_try_another's end of the round) *)
Terminates == pc # "prompt" /\ netretry # "yes" ~> pc \in {"prompt", "crashed"}

(* The ten seconds' pause after all interfaces have failed ends with a new
   start (or the user's abort) *)
PauseEnds == packetHandler = "startAgain" /\ pc = "rx" ~> pc \in {"start", "prompt"}
=============================================================================
