---------------------------- MODULE NetLoopProofs ----------------------------
(***************************************************************************)
(* The network loop, for any number of interfaces, any protocols and       *)
(* limits, and any number of commands unless a theorem says otherwise.     *)
(***************************************************************************)
EXTENDS NetLoop, WellFoundedInduction, TLAPS

-----------------------------------------------------------------------------
(* The circular list of interfaces *)

LEMMA Remainder ==
    ASSUME NEW a \in Nat, NEW n \in Nat \ {0}
    PROVE  /\ a % n \in 0 .. n - 1
           /\ a < n => a % n = a
           /\ n <= a /\ a < 2 * n => a % n = a - n
<1>1. a % n \in 0 .. n - 1
  OBVIOUS
<1>2. a < n => a % n = a
  OBVIOUS
<1>3. n <= a /\ a < 2 * n => a % n = a - n
  OBVIOUS
<1> QED BY <1>1, <1>2, <1>3

\* A set of numbers has a least element.
LEMMA Least ==
    ASSUME NEW T \in SUBSET Nat, T # {}
    PROVE  \E k \in T : \A j \in T : k <= j
<1>1. IsWellFoundedOn(OpToRel(<, Nat), Nat)
  BY NatLessThanWellFounded, Zenon
<1>2. \A A : A \subseteq Nat /\ A # {}
             => \E x \in A : \A y \in A : ~ (<<y, x>> \in OpToRel(<, Nat))
  BY <1>1, WFMin, Zenon
<1>3. PICK k \in T : \A j \in T : ~ (<<j, k>> \in OpToRel(<, Nat))
  BY <1>2, Zenon
<1>4. \A j \in T : ~ (j < k)
  BY <1>3 DEF OpToRel
<1> QED BY <1>4

LEMMA AfterType == \A d \in Devices, k \in Nat : After(d, k) \in Devices
BY Remainder, NetLoopAssumption DEF After, Devices

LEMMA NextAfter == \A d \in Devices : next(d) = After(d, 1) /\ next(d) \in Devices
BY AfterType DEF next, After

\* eth_init passes over some of the interfaces, or over all of them.
LEMMA SkipsType ==
    ASSUME NEW e, NEW up
    PROVE  Skips(e, up) \in 0 .. NumDevs
<1> DEFINE Up(k) == After(e.current, k) \in up
           T == {k \in 0 .. NumDevs - 1 : Up(k)}
<1>1. CASE \E k \in 0 .. NumDevs - 1 : Up(k)
  <2>1. T \in SUBSET Nat /\ T # {}
    BY <1>1, NetLoopAssumption
  <2>2. PICK k \in T : \A j \in T : k <= j
    BY <2>1, Least
  <2> HIDE DEF Up
  <2>3. k \in 0 .. NumDevs - 1 /\ Up(k) /\ \A j \in 0 .. k - 1 : ~ Up(j)
    BY <2>2, NetLoopAssumption
  <2>4. (CHOOSE i \in 0 .. NumDevs - 1 : Up(i) /\ \A j \in 0 .. i - 1 : ~ Up(j)) \in 0 .. NumDevs - 1
    BY <2>3
  <2> QED BY <1>1, <2>4, NetLoopAssumption DEF Skips, Up
<1>2. CASE ~ \E k \in 0 .. NumDevs - 1 : Up(k)
  BY <1>2, NetLoopAssumption DEF Skips
<1> QED BY <1>1, <1>2

Eth == [current : Devices, first_failed : {NoDev} \cup Devices,
        NetRestartWrap : BOOLEAN, rx : SUBSET Devices]

LEMMA HaltType ==
    ASSUME NEW e \in Eth
    PROVE  eth_halt(e) \in Eth /\ eth_halt(e).rx = e.rx \ {e.current}
           /\ eth_halt(e).current = e.current /\ eth_halt(e).first_failed = e.first_failed
           /\ eth_halt(e).NetRestartWrap = e.NetRestartWrap
BY DEF Eth, eth_halt

LEMMA SetCurrentType ==
    ASSUME NEW e \in Eth
    PROVE  eth_set_current(e) \in Eth /\ eth_set_current(e).rx = e.rx
           /\ eth_set_current(e).current = ethact
           /\ eth_set_current(e).first_failed = e.first_failed
           /\ eth_set_current(e).NetRestartWrap = e.NetRestartWrap
BY NetLoopAssumption DEF Eth, eth_set_current

LEMMA TryAnotherType ==
    ASSUME NEW e \in Eth, NEW first \in BOOLEAN
    PROVE  LET failed == IF first THEN e.current ELSE e.first_failed
               o == eth_try_another(e, first)
           IN  /\ o \in Eth /\ o.rx = e.rx /\ o.current = next(e.current)
               /\ o.first_failed = failed
               /\ o.NetRestartWrap = (e.NetRestartWrap \/ failed = next(e.current))
BY NextAfter DEF Eth, eth_try_another

LEMMA InitType ==
    ASSUME NEW e \in Eth, NEW up
    PROVE  LET k == Skips(e, up)
               now == eth_init(e, up)
           IN  /\ now \in Eth /\ now.current = After(e.current, k)
               /\ now.first_failed = e.first_failed
               /\ now.NetRestartWrap = (e.NetRestartWrap \/ e.first_failed \in
                                           {After(e.current, j) : j \in 1 .. k})
               /\ now.rx \subseteq e.rx \cup {now.current}
               /\ Skipped(e, up) \subseteq Devices
<1> DEFINE k == Skips(e, up)
           last == After(e.current, k)
           seen == {After(e.current, j) : j \in 1 .. k}
<1>1. k \in 0 .. NumDevs /\ k \in Nat
  BY SkipsType, NetLoopAssumption
<1>2. e.current \in Devices
  BY DEF Eth
<1>3. last \in Devices /\ \A j \in 0 .. k - 1 : After(e.current, j) \in Devices
  BY <1>1, <1>2, AfterType
<1>4. eth_init(e, up) = [e EXCEPT !.current = last,
                                  !.NetRestartWrap = @ \/ e.first_failed \in seen,
                                  !.rx = IF k < NumDevs THEN @ \cup {last} ELSE @]
  BY DEF eth_init
<1>5. Skipped(e, up) \subseteq Devices
  BY <1>3 DEF Skipped
<1> DEFINE wrap == e.NetRestartWrap \/ e.first_failed \in seen
           on == IF k < NumDevs THEN e.rx \cup {last} ELSE e.rx
<1>6. wrap \in BOOLEAN /\ on \in SUBSET Devices /\ on \subseteq e.rx \cup {last}
  BY <1>3 DEF Eth
<1>7. eth_init(e, up) = [e EXCEPT !.current = last, !.NetRestartWrap = wrap, !.rx = on]
  BY <1>4
<1> HIDE DEF k, last, seen, wrap, on
<1>8. /\ eth_init(e, up) \in Eth /\ eth_init(e, up).current = last
      /\ eth_init(e, up).first_failed = e.first_failed
      /\ eth_init(e, up).NetRestartWrap = wrap
      /\ eth_init(e, up).rx = on
  BY <1>3, <1>6, <1>7 DEF Eth
<1> QED BY <1>5, <1>6, <1>8 DEF k, last, seen, wrap

-----------------------------------------------------------------------------
(* Type correctness *)

Handlers == {NULL, "startAgain"} \cup Clients
States   == {"CONTINUE", "RESTART", "SUCCESS", "FAIL"}

\* What NetStartAgain does, whichever interface is next.
LEMMA StartAgain ==
    ASSUME eth \in Eth, tried \subseteq Devices, NetRestarted \in BOOLEAN,
           NEW th, NEW ns, NetStartAgain(th, ns)
    PROVE  /\ eth' \in Eth /\ tried' \subseteq Devices
           /\ eth.rx \subseteq {eth.current} => eth'.rx \subseteq {eth'.current}
           /\ \/ /\ NetState' \in {"FAIL", "RESTART"} /\ timeHandler' = th
                 /\ UNCHANGED <<packetHandler, timeLeft>>
              \/ /\ NetState' = ns /\ timeHandler' = "startAgain" /\ timeLeft' = LongTimeout
                 /\ packetHandler' = "startAgain" /\ netretry # "once"
<1>1. CASE netretry = "no" /\ eth' = eth_halt(eth) /\ NetState' = "FAIL" /\ timeHandler' = th
           /\ UNCHANGED <<packetHandler, timeLeft, tried>>
  BY <1>1, HaltType
<1>2. CASE netretry # "no"
           /\ \E up \in Links :
            LET other == eth_try_another(eth_halt(eth), ~ NetRestarted)
                now   == eth_init(other, up)
            IN  /\ tried' = tried \cup Skipped(other, up)
                /\ eth' = [now EXCEPT !.NetRestartWrap = FALSE]
                /\ IF now.NetRestartWrap /\ NetDevExists /\ netretry # "once"
                   THEN /\ NetSetTimeout("startAgain", LongTimeout)
                        /\ packetHandler' = "startAgain"
                        /\ NetState' = ns
                   ELSE /\ NetState' = IF now.NetRestartWrap THEN "FAIL" ELSE "RESTART"
                        /\ timeHandler' = th
                        /\ UNCHANGED <<packetHandler, timeLeft>>
  <2> DEFINE other == eth_try_another(eth_halt(eth), ~ NetRestarted)
             now(up) == eth_init(other, up)
  <2>1. PICK up \in Links :
            /\ tried' = tried \cup Skipped(other, up)
            /\ eth' = [now(up) EXCEPT !.NetRestartWrap = FALSE]
            /\ IF now(up).NetRestartWrap /\ NetDevExists /\ netretry # "once"
               THEN /\ NetSetTimeout("startAgain", LongTimeout)
                    /\ packetHandler' = "startAgain"
                    /\ NetState' = ns
               ELSE /\ NetState' = IF now(up).NetRestartWrap THEN "FAIL" ELSE "RESTART"
                    /\ timeHandler' = th
                    /\ UNCHANGED <<packetHandler, timeLeft>>
    BY <1>2
  <2>2. eth_halt(eth) \in Eth /\ eth_halt(eth).rx = eth.rx \ {eth.current}
    BY HaltType
  <2>3. other \in Eth /\ other.rx = eth.rx \ {eth.current}
    BY <2>2, TryAnotherType
  <2> HIDE DEF other
  <2>4. /\ now(up) \in Eth /\ now(up).rx \subseteq (eth.rx \ {eth.current}) \cup {now(up).current}
        /\ Skipped(other, up) \subseteq Devices
    BY <2>3, InitType
  <2> HIDE DEF now
  <2>5. eth' \in Eth /\ eth'.rx = now(up).rx /\ eth'.current = now(up).current
    BY <2>1, <2>4 DEF Eth
  <2>6. eth' \in Eth /\ tried' \subseteq Devices
        /\ (eth.rx \subseteq {eth.current} => eth'.rx \subseteq {eth'.current})
    BY <2>1, <2>4, <2>5
  <2>7. \/ /\ NetState' \in {"FAIL", "RESTART"} /\ timeHandler' = th
           /\ UNCHANGED <<packetHandler, timeLeft>>
        \/ /\ NetState' = ns /\ timeHandler' = "startAgain" /\ timeLeft' = LongTimeout
           /\ packetHandler' = "startAgain" /\ netretry # "once"
    BY <2>1 DEF NetSetTimeout
  <2> QED BY <2>6, <2>7
<1> QED BY <1>1, <1>2 DEF NetStartAgain

\* TypeOK but for the limit of the clients' counter.
PlainTypes ==
    /\ pc \in {"prompt", "start", "rx", "arp", "time", "switch", "crashed"}
    /\ commands \in 0 .. MaxCommands
    /\ protocol \in {"TFTP", "PING", "DHCP"}
    /\ netretry \in NetRetries
    /\ result \in {"none", "success", "fail", "abort", "unset"}
    /\ NetState \in States
    /\ NetRestarted \in BOOLEAN /\ NetDevExists \in BOOLEAN
    /\ packetHandler \in Handlers /\ timeHandler \in Handlers
    /\ timeLeft \in 0 .. LongTimeout
    /\ tries \in Nat /\ got \in Nat
    /\ NetOurIP \in BOOLEAN /\ NetServerEther \in BOOLEAN
    /\ arp \in {"none", "own", "old"}
    /\ NetArpWaitTry \in (0 .. ARP_TIMEOUT_COUNT - 1) \cup {0, 1}
    /\ arpLeft \in 0 .. ARP_TIMEOUT
    /\ eth \in Eth
    /\ rxdev \in Devices /\ handed \in 0 .. MaxBurst
    /\ tried \subseteq Devices /\ started \subseteq Devices

LEMMA PlainInit == Init => PlainTypes
<1> SUFFICES ASSUME Init PROVE PlainTypes
  OBVIOUS
<1>1. 0 \in Devices
  BY NetLoopAssumption DEF Devices
<1>2. eth \in Eth
  BY <1>1 DEF Init, Eth
<1>3. 0 \in 0 .. MaxCommands /\ 0 \in 0 .. MaxBurst
  BY NetLoopAssumption
<1>4. /\ NetRestarted \in BOOLEAN /\ NetDevExists \in BOOLEAN /\ NetOurIP \in BOOLEAN
      /\ NetServerEther \in BOOLEAN
  BY Zenon DEF Init
<1> QED BY <1>1, <1>2, <1>3, <1>4, NetLoopAssumption
        DEF Init, PlainTypes, States, Handlers, NULL, LongTimeout, ARP_TIMEOUT

LEMMA SendTypes ==
    ASSUME PlainTypes, NEW ether, NetSendUDPPacket(ether) \/ AskArp
    PROVE  /\ arp' \in {"none", "own", "old"}
           /\ NetArpWaitTry' \in (0 .. ARP_TIMEOUT_COUNT - 1) \cup {0, 1}
           /\ arpLeft' \in 0 .. ARP_TIMEOUT
BY DEF PlainTypes, NetSendUDPPacket, AskArp, arpVars, ARP_TIMEOUT

LEMMA PlainStep ==
    ASSUME PlainTypes, [Next]_vars
    PROVE  PlainTypes'
<1> USE NetLoopAssumption DEF loopVars, handlerVars, clientVars, arpVars, triedVars, rxVars
<1>0. /\ eth \in Eth /\ tried \subseteq Devices /\ NetRestarted \in BOOLEAN
      /\ eth.current \in Devices
  BY DEF PlainTypes, Eth
<1>1. ASSUME NEW p \in Protocols, NEW late \in BOOLEAN, NetLoop(p, late) PROVE PlainTypes'
  <2>1. PICK up \in Links : /\ eth' = eth_init(eth_set_current(eth_halt(eth)), up)
                            /\ tried' = Skipped(eth_set_current(eth_halt(eth)), up)
    BY <1>1 DEF NetLoop
  <2>2. eth' \in Eth /\ tried' \subseteq Devices
    BY <1>0, <2>1, HaltType, SetCurrentType, InitType
  <2>3. timeLeft' \in 0 .. LongTimeout
    BY <1>1 DEF NetLoop, PlainTypes, LongTimeout
  <2>4. commands' \in 0 .. MaxCommands
    BY <1>1 DEF NetLoop, PlainTypes
  <2> QED BY <1>1, <2>2, <2>3, <2>4 DEF NetLoop, PlainTypes
<1>2. CASE NotConfigured
  <2>1. NetOurIP' \in BOOLEAN
    BY <1>2, Zenon DEF NotConfigured
  <2> QED BY <1>0, <1>2, <2>1, HaltType DEF NotConfigured, Returns, PlainTypes, States
<1>3. ASSUME NEW th \in Handlers, NEW ns \in States, NetStartAgain(th, ns)
      PROVE  /\ eth' \in Eth /\ tried' \subseteq Devices /\ NetState' \in States
             /\ packetHandler' \in Handlers /\ timeHandler' \in Handlers
             /\ timeLeft' \in 0 .. LongTimeout
  <2>1. eth' \in Eth /\ tried' \subseteq Devices
    BY <1>0, <1>3, StartAgain
  <2>2. \/ /\ NetState' \in {"FAIL", "RESTART"} /\ timeHandler' = th
           /\ UNCHANGED <<packetHandler, timeLeft>>
        \/ /\ NetState' = ns /\ timeHandler' = "startAgain" /\ timeLeft' = LongTimeout
           /\ packetHandler' = "startAgain"
    BY <1>0, <1>3, StartAgain
  <2> QED BY <2>1, <2>2 DEF PlainTypes, States, Handlers, LongTimeout
<1>4. ASSUME EnterLoop, eth' \in Eth PROVE pc' = "rx" /\ rxdev' \in Devices /\ handed' \in 0 .. MaxBurst
  BY <1>4 DEF EnterLoop, Eth
<1>5. timeHandler \in Handlers /\ NULL \in Handlers /\ NetState \in States /\ "CONTINUE" \in States
  BY DEF PlainTypes, Handlers, States
<1>6. CASE NoEtherAddress
  <2>1. NetOurIP' \in BOOLEAN
    BY <1>6, Zenon DEF NoEtherAddress, PlainTypes
  <2>2. /\ eth' \in Eth /\ tried' \subseteq Devices /\ NetState' \in States
        /\ packetHandler' \in Handlers /\ timeHandler' \in Handlers
        /\ timeLeft' \in 0 .. LongTimeout
    BY <1>3, <1>5, <1>6, Zenon DEF NoEtherAddress
  <2>3. pc' = "rx" /\ rxdev' \in Devices /\ handed' \in 0 .. MaxBurst
    BY <1>4, <1>6, <2>2, Zenon DEF NoEtherAddress
  <2>4. UNCHANGED <<loopVars, tries, got, NetServerEther, arpVars, started>>
    BY <1>6 DEF NoEtherAddress
  <2> QED BY <2>1, <2>2, <2>3, <2>4 DEF PlainTypes
<1>7. ASSUME TftpStart
      PROVE  /\ packetHandler' \in Handlers /\ timeHandler' \in Handlers
             /\ timeLeft' \in 0 .. LongTimeout /\ tries' \in Nat /\ got' \in Nat
             /\ NetServerEther' \in BOOLEAN /\ arp' \in {"none", "own", "old"}
             /\ NetArpWaitTry' \in (0 .. ARP_TIMEOUT_COUNT - 1) \cup {0, 1}
             /\ arpLeft' \in 0 .. ARP_TIMEOUT
  <2>1. NetServerEther' \in BOOLEAN
    BY <1>7, Zenon DEF TftpStart
  <2> QED BY <1>7, <2>1 DEF TftpStart, NetSetTimeout, AskArp, Handlers, Clients, LongTimeout, TIMEOUT, ARP_TIMEOUT
<1>8. CASE Start
  <2>1. CASE TftpStart /\ NetOurIP' = TRUE
    BY <1>0, <1>4, <1>7, <1>8, <2>1 DEF Start, PlainTypes, States
  <2>2. CASE /\ BootpRequest(1) /\ NetOurIP' = FALSE
             /\ arp' = (IF arp = "none" THEN "none" ELSE "old") /\ UNCHANGED <<NetArpWaitTry, arpLeft>>
    <3>1. NetOurIP' \in BOOLEAN /\ NetDevExists' \in BOOLEAN
      BY <1>8, <2>2, Zenon DEF Start
    <3> QED BY <1>0, <1>4, <1>8, <2>2, <3>1
       DEF Start, PlainTypes, States, BootpRequest, NetSetTimeout, Handlers, Clients, LongTimeout, SELECT_TIMEOUT
  <2>3. CASE PingStart /\ NetOurIP' = TRUE
    BY <1>0, <1>4, <1>8, <2>3
       DEF Start, PlainTypes, States, PingStart, NetSetTimeout, AskArp, Handlers, Clients, LongTimeout, ARP_TIMEOUT
  <2> QED BY <1>8, <2>1, <2>2, <2>3 DEF Start
<1>9. ASSUME NEW h, Hands(h) PROVE pc' = pc /\ handed' \in 0 .. MaxBurst /\ rxdev' \in Devices
  BY <1>9 DEF Hands, PlainTypes
<1>10. CASE TftpBlock \/ TftpLastBlock
  BY <1>9, <1>10, SendTypes DEF TftpBlock, TftpLastBlock, Hands, NetSetTimeout, PlainTypes, States, Handlers,
     Clients, LongTimeout, TIMEOUT
<1>11. CASE TftpError
  BY <1>3, <1>5, <1>9, <1>11 DEF TftpError, Hands, PlainTypes
<1>12. CASE PingReply \/ DhcpOffer
  <2>1. NetOurIP' \in BOOLEAN
    BY <1>12, Zenon DEF PingReply, DhcpOffer, PlainTypes
  <2> QED BY <1>9, <1>12, <2>1 DEF PingReply, DhcpOffer, Hands, NetSetTimeout, PlainTypes, States, Handlers, Clients,
     LongTimeout, TIMEOUT
<1>13. CASE DhcpAck
  BY <1>7, <1>9, <1>13 DEF DhcpAck, Hands, PlainTypes, States
<1>14. CASE ArpReply \/ NullHandler
  BY <1>14 DEF ArpReply, NullHandler, PlainTypes
<1>15. CASE Tick
  BY <1>15 DEF Tick, Expired, PlainTypes, LongTimeout, ARP_TIMEOUT
<1>16. RecvEnds \in Eth
  BY <1>0 DEF RecvEnds, Eth, PlainTypes
<1>17. CASE EndRecv
  BY <1>16, <1>17 DEF EndRecv, PlainTypes
<1>18. CASE CtrlC
  BY <1>16, <1>18, HaltType DEF CtrlC, Returns, PlainTypes
<1>19. CASE ArpGivesUp
  BY <1>3, <1>5, <1>19 DEF ArpGivesUp, PlainTypes
<1>20. CASE ArpAgain \/ ArpIdle
  BY <1>20 DEF ArpAgain, ArpIdle, PlainTypes, ARP_TIMEOUT
<1>21. CASE TftpTimeout
  <2>1. pc' = "switch" /\ tries' \in Nat
    BY <1>21 DEF TftpTimeout, Due, PlainTypes
  <2>2. CASE NetStartAgain(NULL, NetState) /\ UNCHANGED arpVars
    BY <1>3, <1>5, <1>21, <2>1, <2>2 DEF TftpTimeout, PlainTypes
  <2>3. CASE /\ NetSetTimeout("tftp", TIMEOUT) /\ NetSendUDPPacket(NetServerEther)
             /\ UNCHANGED <<NetState, packetHandler, eth, tried>>
    BY <1>21, <2>1, <2>3, SendTypes
       DEF TftpTimeout, NetSetTimeout, PlainTypes, Handlers, Clients, LongTimeout, TIMEOUT
  <2> QED BY <1>21, <2>2, <2>3 DEF TftpTimeout
<1>22. CASE BootpTimeout
  <2>1. pc' = "switch"
    BY <1>22 DEF BootpTimeout, Due
  <2>2. CASE NetStartAgain(NULL, NetState) /\ UNCHANGED clientVars
    <3>1. /\ eth' \in Eth /\ tried' \subseteq Devices /\ NetState' \in States
          /\ packetHandler' \in Handlers /\ timeHandler' \in Handlers
          /\ timeLeft' \in 0 .. LongTimeout
      BY <1>3, <1>5, <2>2, Zenon
    <3>2. UNCHANGED <<loopVars, clientVars, arpVars, rxVars, started>>
      BY <1>22, <2>2, Zenon DEF BootpTimeout
    <3> QED BY <2>1, <3>1, <3>2 DEF PlainTypes
  <2>3. CASE BootpRequest(tries + 1) /\ UNCHANGED <<NetState, NetOurIP, eth, tried>>
    BY <1>22, <2>1, <2>3
       DEF BootpTimeout, BootpRequest, NetSetTimeout, PlainTypes, Handlers, Clients, LongTimeout, SELECT_TIMEOUT
  <2> QED BY <1>22, <2>2, <2>3 DEF BootpTimeout
<1>23. CASE PingTimeout \/ startAgainTimeout \/ TimeIdle
  BY <1>0, <1>5, <1>23, HaltType DEF PingTimeout, startAgainTimeout, TimeIdle, Due, PlainTypes, States
<1>24. CASE Continues
  BY <1>0, <1>4, <1>24 DEF Continues, PlainTypes
<1>25. CASE Restarts \/ Succeeds \/ Fails
  <2>1. CASE Restarts
    BY <1>0, <2>1 DEF Restarts, PlainTypes
  <2>2. CASE Succeeds
    BY <1>0, <2>2, HaltType DEF Succeeds, Returns, PlainTypes
  <2>3. CASE Fails
    BY <1>0, <2>3, HaltType DEF Fails, Returns, PlainTypes
  <2> QED BY <1>25, <2>1, <2>2, <2>3
<1>26. CASE UNCHANGED vars
  BY <1>26 DEF vars, PlainTypes
<1> QED BY <1>1, <1>2, <1>6, <1>8, <1>10, <1>11, <1>12, <1>13, <1>14, <1>15, <1>17, <1>18, <1>19, <1>20,
           <1>21, <1>22, <1>23, <1>24, <1>25, <1>26 DEF Next, Loop, Packet, TimeHandler

\* The limits of the clients.
Limit == (0 .. TFTP_TIMEOUT_COUNT + 1) \cup (0 .. DHCP_TIMEOUT_COUNT) \cup {1}

\* The loop will look at the handlers again before a new start.
GoesOn == pc \in {"rx", "arp", "time"} \/ (pc = "switch" /\ NetState = "CONTINUE")

\* A TFTP client that can be called has not given up.
CanTry ==
    GoesOn /\ (packetHandler = "tftp" \/ timeHandler = "tftp") => tries <= TFTP_TIMEOUT_COUNT

LEMMA TriesStep ==
    ASSUME Unconfigured = {}, PlainTypes, tries \in Limit, CanTry, [Next]_vars
    PROVE  tries' \in Limit /\ CanTry'
<1> USE NetLoopAssumption DEF loopVars, handlerVars, clientVars, arpVars, triedVars, rxVars
<1>0. /\ eth \in Eth /\ tried \subseteq Devices /\ NetRestarted \in BOOLEAN /\ tries \in Nat
  BY DEF PlainTypes
<1>1. ASSUME NEW th, NEW ns, NetStartAgain(th, ns)
      PROVE  \/ NetState' \in {"FAIL", "RESTART"} /\ timeHandler' = th /\ UNCHANGED packetHandler
             \/ timeHandler' = "startAgain" /\ packetHandler' = "startAgain"
  BY <1>0, <1>1, StartAgain
<1>2. ASSUME NEW p \in Protocols, NEW late \in BOOLEAN, NetLoop(p, late) PROVE tries' \in Limit /\ CanTry'
  BY <1>2 DEF NetLoop, CanTry, GoesOn
<1>3. CASE NotConfigured \/ CtrlC \/ NullHandler \/ Restarts \/ Succeeds \/ Fails
  BY <1>3 DEF NotConfigured, CtrlC, NullHandler, Restarts, Succeeds, Fails, Returns, CanTry, GoesOn
<1>4. ~ NoEtherAddress
  BY DEF NoEtherAddress
<1>5. CASE Start
  BY <1>5 DEF Start, TftpStart, BootpRequest, PingStart, NetSetTimeout, CanTry, GoesOn, Limit
<1>6. CASE TftpBlock \/ TftpLastBlock
  BY <1>6 DEF TftpBlock, TftpLastBlock, Hands, CanTry, GoesOn
<1>7. CASE TftpError
  BY <1>1, <1>7 DEF TftpError, Hands, CanTry, GoesOn
<1>8. CASE PingReply \/ ArpReply
  BY <1>8 DEF PingReply, ArpReply, Hands, CanTry, GoesOn
<1>9. CASE DhcpOffer \/ DhcpAck
  BY <1>9 DEF DhcpOffer, DhcpAck, TftpStart, Hands, NetSetTimeout, CanTry, GoesOn, Limit
<1>10. CASE Tick \/ EndRecv \/ ArpAgain \/ ArpIdle \/ TimeIdle
  BY <1>10 DEF Tick, EndRecv, ArpAgain, ArpIdle, TimeIdle, CanTry, GoesOn
<1>11. CASE ArpGivesUp
  BY <1>1, <1>11 DEF ArpGivesUp, CanTry, GoesOn
<1>12. CASE TftpTimeout
  <2>1. tries <= TFTP_TIMEOUT_COUNT /\ tries' = tries + 1 /\ pc' = "switch"
    BY <1>12 DEF TftpTimeout, Due, CanTry, GoesOn
  <2>2. tries' \in Limit
    BY <1>0, <2>1 DEF Limit
  <2>3. CASE tries' > TFTP_TIMEOUT_COUNT /\ NetStartAgain(NULL, NetState)
    BY <1>1, <2>1, <2>2, <2>3 DEF CanTry, GoesOn
  <2>4. CASE tries' <= TFTP_TIMEOUT_COUNT
    BY <2>2, <2>4 DEF CanTry
  <2> QED BY <1>12, <2>3, <2>4 DEF TftpTimeout
<1>13. CASE BootpTimeout
  <2>1. timeHandler = "dhcp" /\ pc = "time" /\ pc' = "switch"
    BY <1>13 DEF BootpTimeout, Due
  <2>2. CASE NetStartAgain(NULL, NetState) /\ UNCHANGED clientVars
    BY <1>1, <2>1, <2>2 DEF CanTry, GoesOn, NULL
  <2>3. CASE tries < DHCP_TIMEOUT_COUNT /\ BootpRequest(tries + 1)
    BY <1>0, <2>1, <2>3 DEF BootpRequest, NetSetTimeout, CanTry, Limit
  <2> QED BY <1>13, <2>2, <2>3 DEF BootpTimeout
<1>14. CASE PingTimeout \/ startAgainTimeout
  BY <1>14 DEF PingTimeout, startAgainTimeout, Due, CanTry, GoesOn, NULL
<1>15. CASE Continues
  BY <1>15 DEF Continues, EnterLoop, CanTry, GoesOn
<1>16. CASE UNCHANGED vars
  BY <1>16 DEF vars, CanTry, GoesOn
<1> QED BY <1>2, <1>3, <1>4, <1>5, <1>6, <1>7, <1>8, <1>9, <1>10, <1>11, <1>12, <1>13, <1>14, <1>15, <1>16
        DEF Next, Loop, Packet, TimeHandler

TypeInv == PlainTypes /\ (Unconfigured = {} => tries \in Limit /\ CanTry)

LEMMA TypesFollow == TypeInv => TypeOK
BY DEF TypeInv, PlainTypes, TypeOK, Limit, Eth, States, Handlers

LEMMA AlwaysTypeInv == Spec => []TypeInv
<1>1. Init => TypeInv
  <2>1. Init => tries \in Limit /\ CanTry
    BY NetLoopAssumption DEF Init, Limit, CanTry, GoesOn
  <2> QED BY <2>1, PlainInit DEF TypeInv
<1>2. TypeInv /\ [Next]_vars => TypeInv'
  <2>1. ASSUME TypeInv, [Next]_vars PROVE PlainTypes'
    BY <2>1, PlainStep DEF TypeInv
  <2>2. ASSUME TypeInv, [Next]_vars, Unconfigured = {} PROVE tries' \in Limit /\ CanTry'
    BY <2>2, TriesStep DEF TypeInv
  <2> QED BY <2>1, <2>2 DEF TypeInv
<1> QED BY <1>1, <1>2, PTL DEF Spec

\* The loop keeps its types and limits over any number of commands, interfaces,
\* server errors and failing links.  The limit of the clients' counter needs that
\* every interface has an Ethernet address: only then is no client that has given
\* up called again.
THEOREM TypeCorrect == Spec => []TypeOK
BY AlwaysTypeInv, TypesFollow, PTL

-----------------------------------------------------------------------------
(* The ARP slot *)

\* NetLoop empties the slot; only a further start of the same command can find a
\* request of an earlier one.
SlotInv ==
    /\ pc = "start" /\ ~ NetRestarted => arp = "none"
    /\ arp = "old" => NetRestarted

LEMMA SlotStep ==
    ASSUME SlotInv, [Next]_vars
    PROVE  SlotInv'
<1> USE DEF SlotInv, loopVars, handlerVars, clientVars, arpVars, triedVars, rxVars
<1>1. ASSUME NEW p \in Protocols, NEW late \in BOOLEAN, NetLoop(p, late) PROVE SlotInv'
  BY <1>1 DEF NetLoop
<1>2. CASE NotConfigured \/ CtrlC \/ NullHandler \/ Restarts \/ Succeeds \/ Fails
  BY <1>2 DEF NotConfigured, CtrlC, NullHandler, Restarts, Succeeds, Fails, Returns
<1>3. CASE NoEtherAddress \/ Continues
  BY <1>3 DEF NoEtherAddress, Continues, EnterLoop
<1>4. CASE Start
  BY <1>4 DEF Start, EnterLoop, TftpStart, PingStart, AskArp
<1>5. CASE TftpBlock \/ TftpLastBlock
  BY <1>5 DEF TftpBlock, TftpLastBlock, Hands, NetSendUDPPacket, AskArp
<1>6. CASE TftpError \/ PingReply \/ DhcpOffer
  BY <1>6 DEF TftpError, PingReply, DhcpOffer, Hands
<1>7. CASE DhcpAck
  BY <1>7 DEF DhcpAck, TftpStart, AskArp, Hands
<1>8. CASE ArpReply \/ Tick \/ EndRecv \/ ArpGivesUp \/ ArpAgain \/ ArpIdle \/ TimeIdle
  BY <1>8 DEF ArpReply, Tick, EndRecv, ArpGivesUp, ArpAgain, ArpIdle, TimeIdle
<1>9. CASE TftpTimeout
  BY <1>9 DEF TftpTimeout, Due, NetSendUDPPacket, AskArp
<1>10. CASE BootpTimeout \/ PingTimeout \/ startAgainTimeout
  BY <1>10 DEF BootpTimeout, PingTimeout, startAgainTimeout, Due
<1>11. CASE UNCHANGED vars
  BY <1>11 DEF vars
<1> QED BY <1>1, <1>2, <1>3, <1>4, <1>5, <1>6, <1>7, <1>8, <1>9, <1>10, <1>11
        DEF Next, Loop, Packet, TimeHandler

\* A command is never started again because of an ARP request of an earlier
\* command: ArpTimeoutCheck gives up only on one this command has made.
THEOREM OwnArpOnly == Spec => ArpOfThisCommand
<1>1. Init => SlotInv
  BY DEF Init, SlotInv
<1>2. SlotInv /\ [Next]_vars => SlotInv'
  BY SlotStep
<1>3. TypeInv /\ SlotInv /\ [Next]_vars => [ArpGivesUp => (arp = "own" \/ NetRestarted)]_vars
  BY DEF SlotInv, ArpGivesUp, ArpNotDue, TypeInv, PlainTypes
<1> QED BY <1>1, <1>2, <1>3, AlwaysTypeInv, PTL DEF Spec, ArpOfThisCommand

-----------------------------------------------------------------------------
(* Receivers *)

ReceiverInv == eth.rx \subseteq {eth.current} /\ (pc = "rx" => rxdev = eth.current)

LEMMA ReceiverStep ==
    ASSUME ~ ServerErrors, PlainTypes, ReceiverInv, [Next]_vars
    PROVE  ReceiverInv'
<1> USE DEF ReceiverInv, loopVars, handlerVars, clientVars, arpVars, triedVars, rxVars
<1>0. /\ eth \in Eth /\ tried \subseteq Devices /\ NetRestarted \in BOOLEAN
  BY DEF PlainTypes
<1>1. ASSUME NEW p \in Protocols, NEW late \in BOOLEAN, NetLoop(p, late) PROVE ReceiverInv'
  <2>1. PICK up \in Links : eth' = eth_init(eth_set_current(eth_halt(eth)), up)
    BY <1>1 DEF NetLoop
  <2>2. eth_halt(eth) \in Eth /\ eth_halt(eth).rx = {}
    BY <1>0, HaltType
  <2>3. eth_set_current(eth_halt(eth)) \in Eth /\ eth_set_current(eth_halt(eth)).rx = {}
    BY <2>2, SetCurrentType
  <2>4. eth'.rx \subseteq {eth'.current}
    BY <2>1, <2>3, InitType
  <2> QED BY <1>1, <2>4 DEF NetLoop
<1>2. eth_halt(eth).rx \subseteq {eth_halt(eth).current} /\ eth_halt(eth).current = eth.current
  BY <1>0, HaltType
<1>3. ASSUME NEW th, NEW ns, NetStartAgain(th, ns) PROVE eth'.rx \subseteq {eth'.current}
  BY <1>0, <1>3, StartAgain
<1>4. pc = "rx" => RecvEnds \in Eth /\ RecvEnds.rx \subseteq {RecvEnds.current}
                   /\ RecvEnds.current = eth.current
  BY <1>0 DEF RecvEnds, Eth, PlainTypes
<1>5. CASE NotConfigured \/ PingTimeout \/ Succeeds
  BY <1>2, <1>5 DEF NotConfigured, PingTimeout, Succeeds, Due, Returns
<1>6. CASE NoEtherAddress
  BY <1>3, <1>6 DEF NoEtherAddress, EnterLoop
<1>7. CASE Start \/ Continues
  BY <1>7 DEF Start, Continues, EnterLoop
<1>8. CASE TftpBlock \/ TftpLastBlock \/ PingReply \/ DhcpOffer \/ DhcpAck
  BY <1>8 DEF TftpBlock, TftpLastBlock, PingReply, DhcpOffer, DhcpAck, Hands
<1>9. ~ TftpError
  BY DEF TftpError
<1>10. CASE ArpReply \/ NullHandler \/ Tick \/ ArpAgain \/ ArpIdle \/ TimeIdle \/ startAgainTimeout
            \/ Restarts \/ Fails
  BY <1>10 DEF ArpReply, NullHandler, Tick, ArpAgain, ArpIdle, TimeIdle, startAgainTimeout, Restarts, Fails,
     Due, Returns
<1>11. CASE EndRecv
  BY <1>4, <1>11 DEF EndRecv
<1>12. CASE CtrlC
  BY <1>4, <1>12, HaltType DEF CtrlC, Returns
<1>13. CASE ArpGivesUp
  BY <1>3, <1>13 DEF ArpGivesUp
<1>14. CASE TftpTimeout \/ BootpTimeout
  BY <1>3, <1>14 DEF TftpTimeout, BootpTimeout, Due
<1>15. CASE UNCHANGED vars
  BY <1>15 DEF vars
<1> QED BY <1>1, <1>5, <1>6, <1>7, <1>8, <1>9, <1>10, <1>11, <1>12, <1>13, <1>14, <1>15
        DEF Next, Loop, Packet, TimeHandler

\* Unless a server's error, or a first block that is not block 1, makes the handler
\* change the interface while recv is running, two MACs never receive at the same time, however many commands have
\* been given, aborted or failed before.
THEOREM OneReceiver ==
    ASSUME ~ ServerErrors
    PROVE  Spec => []OnlyCurrentReceives
<1>1. Init => ReceiverInv
  BY DEF Init, ReceiverInv
<1>2. TypeInv /\ ReceiverInv /\ [Next]_vars => ReceiverInv'
  BY ReceiverStep DEF TypeInv
<1>3. ReceiverInv => OnlyCurrentReceives
  BY DEF ReceiverInv, OnlyCurrentReceives
<1> QED BY <1>1, <1>2, <1>3, AlwaysTypeInv, PTL DEF Spec

-----------------------------------------------------------------------------
(* One round over the interfaces *)

\* A single TFTP command, a server that reports no errors and sends no other first
\* block than block 1, at most one interface without an Ethernet address (with two of them, packets for a client that has
\* given up can make NetLoop pass over an interface), and the code's limit of five
\* ARP requests or anything but a very small one (else ArpTimeoutCheck and
\* TftpTimeout both give up in the same iteration).
OneCommand ==
    /\ MaxCommands <= 1 /\ Protocols \subseteq {"TFTP"} /\ ~ ServerErrors
    /\ ARP_TIMEOUT_COUNT >= 4
    /\ \A u, v \in Unconfigured : u = v

\* The interfaces from f up to c, without c.
Passed(f, c) ==
    {d \in Devices : /\ f # NoDev
                     /\ IF f <= c THEN f <= d /\ d < c ELSE f <= d \/ d < c}

Visited  == Passed(eth.first_failed, eth.current)
AllTried == Devices \ Unconfigured \subseteq tried
Active   == pc \in {"start", "rx", "arp", "time", "switch"}

\* While a command that fails after one round is in its first one.
Tracked == Active /\ (netretry = "once" \/ (netretry = "yes" /\ ~ NetDevExists))

\* Where eth_try_another has come to.
Position ==
    /\ pc = "start" => NetState \in {"CONTINUE", "RESTART"}
    /\ pc = "start" \/ NetState = "CONTINUE" => (NetRestarted <=> eth.first_failed # NoDev)
    /\ NetState = "RESTART" => eth.first_failed # NoDev
    /\ NetState \in {"CONTINUE", "RESTART"} => Visited \subseteq tried \cup Unconfigured
    /\ pc = "start" \/ NetState = "RESTART" => started \subseteq Visited
    /\ pc # "start" /\ NetState = "CONTINUE" =>
         /\ eth.current \in started /\ eth.current \in tried
         /\ started \subseteq Visited \cup {eth.current}

\* Who may still call NetStartAgain: not ArpTimeoutCheck, and TftpTimeout only
\* for a client that is running.
Timers ==
    /\ packetHandler \in {NULL, "tftp"} /\ timeHandler \in {NULL, "tftp"}
    /\ arp \in {"none", "own"}
    /\ packetHandler = "tftp" /\ arp = "none" => NetServerEther
    /\ packetHandler = NULL => arp = "none" /\ timeHandler = NULL
    /\ arp = "own" => ~ NetServerEther
    /\ pc # "start" /\ NetState = "CONTINUE" => timeHandler = "tftp"
    /\ pc \in {"rx", "arp", "time"} /\ NetState # "CONTINUE" =>
         timeHandler = NULL \/ (timeLeft > 0 /\ (pc = "rx" => handed > 0))
    /\ pc \in {"rx", "arp", "time"} /\ NetState = "RESTART" => Unconfigured \subseteq Visited
    /\ pc = "start" \/ (pc = "switch" /\ NetState = "RESTART") =>
         \/ Unconfigured \subseteq Visited
         \/ timeHandler = NULL /\ (arp = "own" => NetArpWaitTry <= 2)
    /\ arp = "own" /\ timeHandler = NULL /\ pc \in {"rx", "arp"} => NetArpWaitTry <= 2
    /\ arp = "own" /\ timeHandler = "tftp" =>
         /\ pc \in {"rx", "arp", "switch"} => timeLeft = arpLeft /\ NetArpWaitTry = 1
         /\ pc = "time" /\ timeLeft > 0 => timeLeft = arpLeft /\ NetArpWaitTry = 1
         /\ pc = "time" /\ timeLeft = 0 => NetArpWaitTry <= 2

RoundInv ==
    /\ protocol = "TFTP" /\ eth.NetRestartWrap = FALSE
    /\ packetHandler \in {NULL, "tftp", "startAgain"} /\ timeHandler \in {NULL, "tftp", "startAgain"}
    /\ commands = 0 =>
         /\ pc = "prompt" /\ NetState = "CONTINUE" /\ result = "none" /\ ~ NetDevExists
         /\ packetHandler = NULL /\ timeHandler = NULL /\ arp = "none"
         /\ eth.first_failed = NoDev
    /\ netretry # "no" /\ (NetState = "FAIL" \/ result = "fail") => AllTried
    /\ Tracked => Position /\ Timers

LEMMA AfterLinear ==
    ASSUME NEW d \in Devices, NEW k \in 0 .. NumDevs
    PROVE  After(d, k) = IF d + k < NumDevs THEN d + k ELSE d + k - NumDevs
<1>1. d \in Nat /\ k \in Nat /\ d + k < 2 * NumDevs
  BY NetLoopAssumption DEF Devices
<1> DEFINE a == d + k
<1>2. a \in Nat /\ NumDevs \in Nat \ {0} /\ a < 2 * NumDevs
  BY <1>1, NetLoopAssumption
<1> HIDE DEF a
<1>3. CASE a < NumDevs
  <2>1. a % NumDevs = a
    BY <1>2, <1>3, Remainder
  <2> QED BY <1>3, <2>1 DEF After, a
<1>4. CASE ~ (a < NumDevs)
  <2>1. NumDevs <= a
    BY <1>2, <1>4
  <2>2. a % NumDevs = a - NumDevs
    BY <1>2, <2>1, Remainder
  <2>3. After(d, k) = (d + k) % NumDevs
    BY DEF After
  <2>4. (d + k) % NumDevs = (d + k) - NumDevs /\ ~ (d + k < NumDevs)
    BY <1>4, <2>2, Zenon DEF a
  <2>5. (d + k) - NumDevs = d + k - NumDevs
    BY <1>1, <1>2
  <2> QED BY <2>3, <2>4, <2>5, Zenon
<1> QED BY <1>3, <1>4

\* The interfaces eth_init passes over when it comes to k that do not come up,
\* and those it looks at.
Over(d, k) == {After(d, j) : j \in 0 .. k - 1}
Met(d, k)  == {After(d, j) : j \in 0 .. k}

\* Either the round is complete, or it goes on where it was.
LEMMA RoundComplete ==
    ASSUME NEW f \in Devices, NEW c \in Devices, NEW k \in 0 .. NumDevs, f \in Met(next(c), k)
    PROVE  Devices \subseteq Passed(f, c) \cup {c} \cup Over(next(c), k)
<1> DEFINE d1 == next(c)
           Place(d) == IF d >= d1 THEN d - d1 ELSE d - d1 + NumDevs
<1>1. d1 = (IF c + 1 < NumDevs THEN c + 1 ELSE 0) /\ d1 \in Devices
  BY AfterLinear, NextAfter, NetLoopAssumption DEF Devices
<1>2. PICK i \in 0 .. k : f = After(d1, i)
  BY DEF Met
<1>3. f = IF d1 + i < NumDevs THEN d1 + i ELSE d1 + i - NumDevs
  BY <1>1, <1>2, AfterLinear, NetLoopAssumption
<1> HIDE DEF d1
<1> SUFFICES ASSUME NEW d \in Devices, d # c, d \notin Passed(f, c)
             PROVE  \E j \in 0 .. k - 1 : d = After(d1, j)
  BY DEF Over, d1
<1>4. /\ ~ (IF f <= c THEN f <= d /\ d < c ELSE f <= d \/ d < c)
  BY NetLoopAssumption DEF Passed, NoDev, Devices
<1>5. Place(d) \in 0 .. NumDevs /\ Place(d) < i
  BY <1>1, <1>3, <1>4, NetLoopAssumption DEF Devices
<1>6. d = After(d1, Place(d))
  <2>1. d = IF d1 + Place(d) < NumDevs THEN d1 + Place(d) ELSE d1 + Place(d) - NumDevs
    BY <1>1, NetLoopAssumption DEF Devices
  <2> QED BY <1>1, <1>5, <2>1, AfterLinear
<1>7. Place(d) \in 0 .. k - 1
  BY <1>5
<1> QED BY <1>6, <1>7

LEMMA RoundGoesOn ==
    ASSUME NEW f \in Devices, NEW c \in Devices, NEW k \in 0 .. NumDevs, f \notin Met(next(c), k)
    PROVE  LET last == After(next(c), k)
           IN  /\ Passed(f, last) \subseteq Passed(f, c) \cup {c} \cup Over(next(c), k)
               /\ Passed(f, c) \cup {c} \subseteq Passed(f, last)
<1> DEFINE d1 == next(c)
           Place(d) == IF d >= d1 THEN d - d1 ELSE d - d1 + NumDevs
           last == After(d1, k)
<1>1. d1 = (IF c + 1 < NumDevs THEN c + 1 ELSE 0) /\ d1 \in Devices
  BY AfterLinear, NextAfter, NetLoopAssumption DEF Devices
<1> HIDE DEF d1
<1>2. \A d \in Devices : Place(d) \in 0 .. NumDevs - 1 /\ d = After(d1, Place(d))
  <2> SUFFICES ASSUME NEW d \in Devices PROVE Place(d) \in 0 .. NumDevs - 1 /\ d = After(d1, Place(d))
    OBVIOUS
  <2>1. Place(d) \in 0 .. NumDevs - 1
    BY <1>1, NetLoopAssumption DEF Devices
  <2>2. d = IF d1 + Place(d) < NumDevs THEN d1 + Place(d) ELSE d1 + Place(d) - NumDevs
    BY <1>1, NetLoopAssumption DEF Devices
  <2>3. Place(d) \in 0 .. NumDevs
    BY <2>1, NetLoopAssumption
  <2> QED BY <1>1, <2>1, <2>2, <2>3, AfterLinear
<1>3. Place(f) > k
  <2>1. f = After(d1, Place(f)) /\ Place(f) \in 0 .. NumDevs - 1
    BY <1>2
  <2> HIDE DEF Place
  <2>2. Place(f) \notin 0 .. k
    BY <2>1 DEF Met, d1
  <2> QED BY <2>1, <2>2, NetLoopAssumption
<1>4. last = (IF d1 + k < NumDevs THEN d1 + k ELSE d1 + k - NumDevs) /\ last \in Devices
  BY <1>1, AfterLinear, AfterType, NetLoopAssumption
<1> HIDE DEF last
<1>5. ASSUME NEW d \in Passed(f, last), d # c, d \notin Passed(f, c)
      PROVE  d \in Over(d1, k)
  <2>1. /\ d \in Devices
        /\ IF f <= last THEN f <= d /\ d < last ELSE f <= d \/ d < last
        /\ ~ (IF f <= c THEN f <= d /\ d < c ELSE f <= d \/ d < c)
    BY <1>5, NetLoopAssumption DEF Passed, NoDev, Devices
  <2>2. Place(d) \in 0 .. k - 1
    BY <1>1, <1>3, <1>4, <1>5, <2>1, NetLoopAssumption DEF Devices
  <2> QED BY <1>2, <2>1, <2>2 DEF Over
<1>6. ASSUME NEW d \in Passed(f, c) \cup {c} PROVE d \in Passed(f, last)
  <2>1. /\ d \in Devices
        /\ d = c \/ IF f <= c THEN f <= d /\ d < c ELSE f <= d \/ d < c
    BY <1>6 DEF Passed
  <2>2. IF f <= last THEN f <= d /\ d < last ELSE f <= d \/ d < last
    BY <1>1, <1>3, <1>4, <2>1, NetLoopAssumption DEF Devices
  <2> QED BY <2>1, <2>2, NetLoopAssumption DEF Passed, NoDev, Devices
<1> QED BY <1>5, <1>6 DEF last, d1

\* NetStartAgain in the first round, after `failed` as the first interface.
LEMMA StartAgainRound ==
    ASSUME eth \in Eth, tried \subseteq Devices, NetRestarted \in BOOLEAN, NetDevExists \in BOOLEAN,
           eth.NetRestartWrap = FALSE,
           netretry = "once" \/ (netretry = "yes" /\ ~ NetDevExists),
           NEW th, NEW ns, NetStartAgain(th, ns),
           NEW failed \in Devices, failed = IF NetRestarted THEN eth.first_failed ELSE eth.current
    PROVE  /\ eth' \in Eth /\ eth'.NetRestartWrap = FALSE /\ eth'.first_failed = failed
           /\ tried \subseteq tried'
           /\ timeHandler' = th /\ UNCHANGED <<packetHandler, timeLeft>>
           /\ \/ /\ NetState' = "FAIL"
                 /\ Devices \subseteq Passed(failed, eth.current) \cup {eth.current} \cup tried'
              \/ /\ NetState' = "RESTART"
                 /\ Visited' \subseteq Passed(failed, eth.current) \cup {eth.current} \cup tried'
                 /\ Passed(failed, eth.current) \cup {eth.current} \subseteq Visited'
<1> DEFINE halted == eth_halt(eth)
           other == eth_try_another(halted, ~ NetRestarted)
           now(up) == eth_init(other, up)
<1>1. PICK up \in Links :
          /\ tried' = tried \cup Skipped(other, up)
          /\ eth' = [now(up) EXCEPT !.NetRestartWrap = FALSE]
          /\ NetState' = IF now(up).NetRestartWrap THEN "FAIL" ELSE "RESTART"
          /\ timeHandler' = th
          /\ UNCHANGED <<packetHandler, timeLeft>>
  BY DEF NetStartAgain
<1> DEFINE c == eth.current
           k == Skips(other, up)
<1>2. /\ halted \in Eth /\ halted.current = c /\ halted.first_failed = eth.first_failed
      /\ halted.NetRestartWrap = FALSE
  BY HaltType
<1> HIDE DEF halted
<1>3. /\ other \in Eth /\ other.current = next(c) /\ other.first_failed = failed
      /\ other.NetRestartWrap = (failed = next(c))
  <2>1. LET from == IF ~ NetRestarted THEN halted.current ELSE halted.first_failed
        IN  /\ other \in Eth /\ other.current = next(halted.current)
            /\ other.first_failed = from
            /\ other.NetRestartWrap = (halted.NetRestartWrap \/ from = next(halted.current))
    BY <1>2, TryAnotherType
  <2> HIDE DEF other
  <2>2. failed = IF ~ NetRestarted THEN halted.current ELSE halted.first_failed
    BY <1>2
  <2>3. /\ other \in Eth /\ other.current = next(c) /\ other.first_failed = failed
        /\ other.NetRestartWrap = (FALSE \/ failed = next(c))
    BY <1>2, <2>1, <2>2, Zenon
  <2> QED BY <2>3, Zenon
<1> HIDE DEF other
<1>4. /\ now(up) \in Eth /\ now(up).current = After(next(c), k)
      /\ now(up).first_failed = failed
      /\ now(up).NetRestartWrap = (failed = next(c) \/ failed \in {After(next(c), j) : j \in 1 .. k})
  <2>1. other.NetRestartWrap \/ other.first_failed \in {After(other.current, j) : j \in 1 .. k}
          <=> failed = next(c) \/ failed \in {After(next(c), j) : j \in 1 .. k}
    BY <1>3
  <2>2. /\ now(up) \in Eth /\ now(up).current = After(other.current, k)
        /\ now(up).first_failed = other.first_failed
        /\ now(up).NetRestartWrap = (other.NetRestartWrap \/ other.first_failed \in
                                         {After(other.current, j) : j \in 1 .. k})
    BY <1>3, InitType
  <2> HIDE DEF now, k, c
  <2> QED BY <1>3, <2>1, <2>2
<1>5. Skipped(other, up) = Over(next(c), k)
  BY <1>3 DEF Skipped, Over
<1>6. k \in 0 .. NumDevs /\ c \in Devices /\ next(c) \in Devices
  BY SkipsType, NextAfter DEF Eth
<1> HIDE DEF now, k, c
<1>7. now(up).NetRestartWrap <=> failed \in Met(next(c), k)
  <2>1. After(next(c), 0) = next(c)
    BY <1>6, AfterLinear, NetLoopAssumption DEF Devices
  <2>2. Met(next(c), k) = {next(c)} \cup {After(next(c), j) : j \in 1 .. k}
    BY <1>6, <2>1, NetLoopAssumption DEF Met
  <2> QED BY <1>4, <2>2
<1>8. /\ eth' \in Eth /\ eth'.NetRestartWrap = FALSE /\ eth'.first_failed = failed
      /\ eth'.current = After(next(c), k)
  BY <1>1, <1>4 DEF Eth
<1>9. tried' = tried \cup Over(next(c), k)
  BY <1>1, <1>5
<1>10. CASE failed \in Met(next(c), k)
  <2>1. NetState' = "FAIL"
    BY <1>1, <1>7, <1>10
  <2>2. Devices \subseteq Passed(failed, c) \cup {c} \cup tried'
    BY <1>6, <1>9, <1>10, RoundComplete
  <2> QED BY <1>1, <1>8, <1>9, <2>1, <2>2 DEF c
<1>11. CASE failed \notin Met(next(c), k)
  <2>1. NetState' = "RESTART"
    BY <1>1, <1>7, <1>11
  <2>2. Visited' = Passed(failed, After(next(c), k))
    BY <1>8 DEF Visited, Passed
  <2>3. /\ Visited' \subseteq Passed(failed, c) \cup {c} \cup tried'
        /\ Passed(failed, c) \cup {c} \subseteq Visited'
    BY <1>6, <1>9, <1>11, <2>2, RoundGoesOn
  <2> QED BY <1>1, <1>8, <1>9, <2>1, <2>3 DEF c
<1> QED BY <1>10, <1>11

\* And after it: it never gives up if an interface was found.
LEMMA StartAgainLater ==
    ASSUME eth \in Eth, tried \subseteq Devices, NetRestarted \in BOOLEAN, NetDevExists \in BOOLEAN,
           eth.NetRestartWrap = FALSE, NEW th, NEW ns, NetStartAgain(th, ns)
    PROVE  /\ eth'.NetRestartWrap = FALSE /\ tried \subseteq tried'
           /\ timeHandler' \in {th, "startAgain"} /\ packetHandler' \in {packetHandler, "startAgain"}
           /\ netretry = "yes" /\ NetDevExists => NetState' \in {"RESTART", ns}
<1>1. CASE netretry = "no" /\ eth' = eth_halt(eth) /\ timeHandler' = th
           /\ UNCHANGED <<packetHandler, tried>>
  BY <1>1, HaltType
<1>2. CASE netretry # "no"
  <2> DEFINE other == eth_try_another(eth_halt(eth), ~ NetRestarted)
             now(up) == eth_init(other, up)
  <2>1. PICK up \in Links :
            /\ tried' = tried \cup Skipped(other, up)
            /\ eth' = [now(up) EXCEPT !.NetRestartWrap = FALSE]
            /\ IF now(up).NetRestartWrap /\ NetDevExists /\ netretry # "once"
               THEN timeHandler' = "startAgain" /\ packetHandler' = "startAgain" /\ NetState' = ns
               ELSE /\ NetState' = IF now(up).NetRestartWrap THEN "FAIL" ELSE "RESTART"
                    /\ timeHandler' = th
                    /\ UNCHANGED packetHandler
    BY <1>2 DEF NetStartAgain, NetSetTimeout
  <2>2. now(up) \in Eth
    BY HaltType, TryAnotherType, InitType
  <2> HIDE DEF now, other
  <2>3. eth'.NetRestartWrap = FALSE
    BY <2>1, <2>2 DEF Eth
  <2> QED BY <2>1, <2>3
<1> QED BY <1>1, <1>2 DEF NetStartAgain

LEMMA NotYetPassed ==
    ASSUME NEW f \in {NoDev} \cup Devices, NEW c \in Devices
    PROVE  /\ c \notin Passed(f, c)
           /\ Passed(c, c) = {}
           /\ Passed(NoDev, c) = {}
BY NetLoopAssumption DEF Passed, Devices, NoDev

LEMMA SameVisited ==
    ASSUME eth'.current = eth.current, eth'.first_failed = eth.first_failed
    PROVE  Visited' = Visited
BY DEF Visited, Passed

\* The steps that leave the interface, and what was tried, alone.
LEMMA RoundSameDevice ==
    ASSUME PlainTypes, RoundInv, OneCommand,
           \/ EndRecv \/ ArpAgain \/ ArpIdle \/ TimeIdle \/ Continues \/ Restarts
           \/ TftpBlock \/ TftpLastBlock \/ ArpReply \/ Tick
    PROVE  RoundInv'
<1> USE DEF loopVars, handlerVars, clientVars, arpVars, triedVars, rxVars
<1> DEFINE Acts == \/ EndRecv \/ ArpAgain \/ ArpIdle \/ TimeIdle \/ Continues \/ Restarts
                   \/ TftpBlock \/ TftpLastBlock \/ ArpReply \/ Tick
<1>1. /\ eth \in Eth /\ pc \in {"rx", "arp", "time", "switch"}
      /\ UNCHANGED <<tried, started, protocol, netretry, result, commands, packetHandler>>
      /\ pc' \in {"start", "rx", "arp", "time", "switch"}
  BY DEF PlainTypes, EndRecv, ArpAgain, ArpIdle, TimeIdle, Continues, Restarts, TftpBlock,
         TftpLastBlock, ArpReply, Tick, Hands, EnterLoop
<1>2. /\ eth'.current = eth.current /\ eth'.first_failed = eth.first_failed
      /\ eth'.NetRestartWrap = eth.NetRestartWrap
  BY <1>1 DEF Eth, EndRecv, RecvEnds, ArpAgain, ArpIdle, TimeIdle, Continues, Restarts, TftpBlock,
         TftpLastBlock, ArpReply, Tick, Hands
<1>3. Visited' = Visited
  BY <1>2, SameVisited
<1>4. NetState' \in {NetState, "SUCCESS"} /\ NetDevExists' = NetDevExists
  BY DEF EndRecv, ArpAgain, ArpIdle, TimeIdle, Continues, Restarts, TftpBlock,
         TftpLastBlock, ArpReply, Tick, Hands
<1>5. AllTried' = AllTried /\ (Tracked' => Tracked)
  BY <1>1, <1>4 DEF AllTried, Tracked, Active
<1>6. timeHandler' \in {timeHandler, "tftp"}
  BY DEF EndRecv, ArpAgain, ArpIdle, TimeIdle, Continues, Restarts, TftpBlock,
         TftpLastBlock, ArpReply, Tick, Hands, NetSetTimeout
<1>7. ASSUME Tracked PROVE Position'
  <2>1. Position /\ Timers
    BY <1>7 DEF RoundInv
  <2> QED BY <1>1, <1>2, <1>3, <1>4, <2>1 DEF Position, EndRecv, ArpAgain, ArpIdle, TimeIdle,
         Continues, Restarts, TftpBlock, TftpLastBlock, ArpReply, Tick, Hands, EnterLoop
<1>8. ASSUME Tracked PROVE Timers'
  <2> USE NetLoopAssumption
  <2>1. Position /\ Timers
    BY <1>8 DEF RoundInv
  <2>2. CASE EndRecv
    BY <1>3, <2>1, <2>2 DEF Timers, EndRecv
  <2>3. CASE ArpAgain
    BY <1>3, <2>1, <2>3 DEF Timers, ArpAgain, ArpNotDue, PlainTypes, ARP_TIMEOUT, LongTimeout, NULL
  <2>4. CASE ArpIdle
    BY <1>3, <2>1, <2>4 DEF Timers, ArpIdle, ArpNotDue, PlainTypes, ARP_TIMEOUT, LongTimeout, NULL
  <2>5. CASE TimeIdle
    BY <1>3, <2>1, <2>5 DEF Timers, TimeIdle, PlainTypes, ARP_TIMEOUT, LongTimeout, NULL
  <2>6. CASE Continues
    BY <1>3, <2>1, <2>6 DEF Timers, Continues, EnterLoop, NULL
  <2>7. CASE Restarts
    BY <1>3, <2>1, <2>7 DEF Timers, Restarts
  <2>8. CASE TftpBlock \/ TftpLastBlock
    BY <1>3, <2>1, <2>8 DEF Timers, TftpBlock, TftpLastBlock, Hands, Answered, NetSetTimeout,
       NetSendUDPPacket, TIMEOUT, PlainTypes, NULL
  <2>9. CASE ArpReply
    BY <1>3, <2>1, <2>9 DEF Timers, ArpReply, RoundInv, NULL
  <2>10. CASE Tick
    BY <1>3, <2>1, <2>10 DEF Timers, Tick, Expired, PlainTypes, ARP_TIMEOUT, LongTimeout, NULL
  <2> QED BY <2>2, <2>3, <2>4, <2>5, <2>6, <2>7, <2>8, <2>9, <2>10
<1> QED BY <1>1, <1>2, <1>4, <1>5, <1>6, <1>7, <1>8 DEF RoundInv

LEMMA RoundStarts ==
    ASSUME PlainTypes, RoundInv, OneCommand, NEW p \in Protocols, NEW late \in BOOLEAN,
           NetLoop(p, late)
    PROVE  RoundInv'
<1> DEFINE first == eth_set_current(eth_halt(eth))
<1>1. commands = 0 /\ commands' = 1 /\ p = "TFTP"
  BY NetLoopAssumption DEF NetLoop, OneCommand, PlainTypes
<1>2. PICK up \in Links : eth' = eth_init(first, up)
  BY DEF NetLoop
<1>3. first \in Eth /\ first.first_failed = NoDev /\ first.NetRestartWrap = FALSE
  BY <1>1, HaltType, SetCurrentType DEF PlainTypes, RoundInv
<1> HIDE DEF first
<1>4. \A j \in 1 .. Skips(first, up) : After(first.current, j) \in Devices
  BY <1>3, SkipsType, AfterType, NetLoopAssumption DEF Eth
<1>5. NoDev \notin {After(first.current, j) : j \in 1 .. Skips(first, up)}
  BY <1>4, NetLoopAssumption DEF NoDev, Devices
<1>6. eth' \in Eth /\ eth'.first_failed = NoDev /\ eth'.NetRestartWrap = FALSE
  BY <1>2, <1>3, <1>5, InitType
<1>7. Visited' = {}
  BY <1>6 DEF Visited, Passed
<1>8. Position'
  BY <1>1, <1>6, <1>7 DEF Position, NetLoop, RoundInv
<1>9. Timers'
  BY <1>1 DEF Timers, NetLoop, RoundInv, clientVars, NULL
<1> QED BY <1>1, <1>6, <1>8, <1>9 DEF RoundInv, NetLoop

\* A protocol is started: the current interface has been tried.
LEMMA RoundStart ==
    ASSUME PlainTypes, RoundInv, OneCommand, Start
    PROVE  RoundInv'
<1> USE DEF loopVars, handlerVars, clientVars, arpVars, triedVars, rxVars
<1>1. /\ UNCHANGED <<commands, protocol, netretry, result, NetRestarted, eth>> /\ pc = "start"
      /\ pc' = "rx" /\ NetState' = "CONTINUE" /\ NetDevExists' = TRUE
      /\ tried' = tried \cup {eth.current} /\ started' = started \cup {eth.current}
  BY DEF Start, EnterLoop
<1>2. /\ packetHandler' = "tftp" /\ timeHandler' = "tftp" /\ timeLeft' = ARP_TIMEOUT
      /\ arp' = "own" /\ NetArpWaitTry' = 1 /\ arpLeft' = ARP_TIMEOUT /\ NetServerEther' = FALSE
  BY DEF Start, RoundInv, TftpStart, NetSetTimeout, AskArp, TIMEOUT, ARP_TIMEOUT
<1>3. Visited' = Visited
  BY <1>1, SameVisited
<1>4. Tracked' => Tracked
  BY <1>1 DEF Tracked, Active
<1>5. Tracked' => Position'
  BY <1>1, <1>3, <1>4 DEF Position, RoundInv
<1>6. Timers'
  BY <1>1, <1>2 DEF Timers, NULL, ARP_TIMEOUT
<1>7. commands' # 0
  BY <1>1 DEF RoundInv
<1>8. AllTried => AllTried'
  BY <1>1 DEF AllTried
<1> QED BY <1>1, <1>2, <1>5, <1>6, <1>7, <1>8 DEF RoundInv

\* What has been passed, and the interface that is given up, belong to what will
\* have been passed.
LEMMA RoundFrom ==
    ASSUME PlainTypes, RoundInv, Tracked, pc = "start" \/ NetState = "CONTINUE"
    PROVE  LET failed == IF NetRestarted THEN eth.first_failed ELSE eth.current
           IN  failed \in Devices /\ Passed(failed, eth.current) = Visited
<1>1. eth.current \in Devices /\ eth.first_failed \in {NoDev} \cup Devices
  BY DEF PlainTypes, Eth
<1>2. NetRestarted <=> eth.first_failed # NoDev
  BY DEF RoundInv, Position
<1> QED BY <1>1, <1>2, NotYetPassed DEF Visited

\* No Ethernet address: the interface is passed over.
LEMMA RoundPassesOver ==
    ASSUME PlainTypes, RoundInv, OneCommand, NoEtherAddress
    PROVE  RoundInv'
<1> USE DEF loopVars, handlerVars, clientVars, arpVars, triedVars, rxVars
<1>1. /\ UNCHANGED <<commands, protocol, netretry, result, NetRestarted, NetDevExists, started>>
      /\ UNCHANGED <<arp, NetArpWaitTry, arpLeft, NetServerEther>>
      /\ pc = "start" /\ pc' = "rx" /\ handed' = 0 /\ eth.current \in Unconfigured
      /\ NetStartAgain(timeHandler, "CONTINUE")
  BY DEF NoEtherAddress, EnterLoop
<1>2. /\ eth'.NetRestartWrap = FALSE /\ tried \subseteq tried'
      /\ timeHandler' \in {timeHandler, "startAgain"} /\ packetHandler' \in {packetHandler, "startAgain"}
      /\ netretry = "yes" /\ NetDevExists => NetState' \in {"RESTART", "CONTINUE"}
  BY <1>1, StartAgainLater DEF PlainTypes, RoundInv
<1>3. commands' # 0 /\ (AllTried => AllTried')
  BY <1>1, <1>2 DEF RoundInv, AllTried
<1>4. CASE ~ Tracked
  <2>1. ~ Tracked'
    BY <1>1, <1>4 DEF Tracked, Active
  <2>2. netretry = "no" \/ (netretry = "yes" /\ NetDevExists)
    BY <1>1, <1>4, NetLoopAssumption DEF Tracked, Active, PlainTypes
  <2> QED BY <1>1, <1>2, <1>3, <2>1, <2>2 DEF RoundInv
<1>5. CASE Tracked
  <2> DEFINE failed == IF NetRestarted THEN eth.first_failed ELSE eth.current
  <2>1. failed \in Devices /\ Passed(failed, eth.current) = Visited
    BY <1>1, <1>5, RoundFrom
  <2>2. Position /\ Timers
    BY <1>5 DEF RoundInv
  <2>3. /\ eth' \in Eth /\ eth'.first_failed = failed
        /\ timeHandler' = timeHandler /\ UNCHANGED <<packetHandler, timeLeft>>
        /\ \/ NetState' = "FAIL" /\ Devices \subseteq Visited \cup {eth.current} \cup tried'
           \/ /\ NetState' = "RESTART"
              /\ Visited' \subseteq Visited \cup {eth.current} \cup tried'
              /\ Visited \cup {eth.current} \subseteq Visited'
    <3>1. netretry = "once" \/ (netretry = "yes" /\ ~ NetDevExists)
      BY <1>5 DEF Tracked
    <3> HIDE DEF failed
    <3>2. failed = IF NetRestarted THEN eth.first_failed ELSE eth.current
      BY DEF failed
    <3> QED BY <1>1, <2>1, <3>1, <3>2, StartAgainRound DEF PlainTypes, RoundInv
  <2>4. Visited \subseteq tried' \cup Unconfigured /\ started' \subseteq Visited
    BY <1>1, <1>2, <2>2 DEF Position
  <2>5. eth.current \notin Visited /\ failed # NoDev
    BY <2>1, NotYetPassed, NetLoopAssumption DEF Visited, PlainTypes, Eth, Devices, NoDev
  <2> HIDE DEF failed
  <2>6. NetState' = "FAIL" => AllTried'
    BY <1>1, <2>3, <2>4 DEF AllTried
  <2>7. Position'
    BY <1>1, <2>3, <2>4, <2>5 DEF Position
  <2>8. timeHandler = NULL /\ (arp = "own" => NetArpWaitTry <= 2)
    BY <1>1, <2>2, <2>5 DEF Timers
  <2>9. NetState' = "RESTART" => (Unconfigured \subseteq Visited)'
    BY <1>1, <2>3 DEF OneCommand
  <2>10. Timers'
    BY <1>1, <2>2, <2>3, <2>8, <2>9 DEF Timers, NULL
  <2> QED BY <1>1, <1>2, <1>3, <2>3, <2>6, <2>7, <2>10 DEF RoundInv
<1> QED BY <1>4, <1>5

\* TftpTimeout: the client asks again, or gives the interface up.
LEMMA RoundTimeout ==
    ASSUME PlainTypes, RoundInv, OneCommand, TftpTimeout
    PROVE  RoundInv'
<1> USE DEF loopVars, handlerVars, clientVars, arpVars, triedVars, rxVars
<1>1. /\ UNCHANGED <<commands, protocol, netretry, result, NetRestarted, NetDevExists, started>>
      /\ UNCHANGED NetServerEther
      /\ pc = "time" /\ pc' = "switch" /\ timeHandler = "tftp" /\ timeLeft = 0
  BY DEF TftpTimeout, Due
<1>2. commands' # 0 /\ (Tracked' <=> Tracked)
  BY <1>1 DEF RoundInv, Tracked, Active
<1>3. ASSUME Tracked PROVE NetState = "CONTINUE" /\ packetHandler = "tftp" /\ Position /\ Timers
  BY <1>1, <1>3 DEF RoundInv, Timers, NULL
<1>4. CASE /\ NetSetTimeout("tftp", TIMEOUT)
           /\ NetSendUDPPacket(NetServerEther)
           /\ UNCHANGED <<NetState, packetHandler, eth, tried>>
  <2>1. Visited' = Visited /\ AllTried' = AllTried
    BY <1>4, SameVisited DEF AllTried
  <2>2. Tracked => Position'
    BY <1>1, <1>3, <1>4, <2>1 DEF Position
  <2>3. Tracked => Timers'
    BY <1>1, <1>3, <1>4, <2>1
       DEF Timers, NetSetTimeout, NetSendUDPPacket, AskArp, TIMEOUT, ARP_TIMEOUT, NULL
  <2> QED BY <1>1, <1>2, <1>4, <2>1, <2>2, <2>3 DEF RoundInv, NetSetTimeout
<1>5. CASE NetStartAgain(NULL, NetState) /\ UNCHANGED <<arp, NetArpWaitTry, arpLeft>>
  <2>1. /\ eth'.NetRestartWrap = FALSE /\ tried \subseteq tried'
        /\ timeHandler' \in {NULL, "startAgain"} /\ packetHandler' \in {packetHandler, "startAgain"}
        /\ netretry = "yes" /\ NetDevExists => NetState' \in {"RESTART", NetState}
    BY <1>5, StartAgainLater DEF PlainTypes, RoundInv
  <2>2. AllTried => AllTried'
    BY <2>1 DEF AllTried
  <2>3. CASE ~ Tracked
    <3>1. netretry = "no" \/ (netretry = "yes" /\ NetDevExists)
      BY <1>1, <2>3, NetLoopAssumption DEF Tracked, Active, PlainTypes
    <3> QED BY <1>1, <1>2, <2>1, <2>2, <2>3, <3>1 DEF RoundInv
  <2>4. CASE Tracked
    <3> DEFINE failed == IF NetRestarted THEN eth.first_failed ELSE eth.current
    <3>1. failed \in Devices /\ Passed(failed, eth.current) = Visited
      BY <1>3, <2>4, RoundFrom
    <3>2. netretry = "once" \/ (netretry = "yes" /\ ~ NetDevExists)
      BY <2>4 DEF Tracked
    <3> HIDE DEF failed
    <3>3. failed = IF NetRestarted THEN eth.first_failed ELSE eth.current
      BY DEF failed
    <3>4. /\ eth' \in Eth /\ eth'.first_failed = failed
          /\ timeHandler' = NULL /\ UNCHANGED <<packetHandler, timeLeft>>
          /\ \/ NetState' = "FAIL" /\ Devices \subseteq Visited \cup {eth.current} \cup tried'
             \/ /\ NetState' = "RESTART"
                /\ Visited' \subseteq Visited \cup {eth.current} \cup tried'
                /\ Visited \cup {eth.current} \subseteq Visited'
      BY <1>5, <3>1, <3>2, <3>3, StartAgainRound DEF PlainTypes, RoundInv
    <3>5. /\ Visited \subseteq tried' \cup Unconfigured /\ eth.current \in tried'
          /\ started' \subseteq Visited \cup {eth.current}
      BY <1>1, <1>3, <2>1, <2>4 DEF Position
    <3>6. failed # NoDev
      BY <3>1, NetLoopAssumption DEF Devices, NoDev
    <3>7. NetState' = "FAIL" => AllTried'
      BY <3>4, <3>5 DEF AllTried
    <3>8. Position'
      BY <1>1, <3>4, <3>5, <3>6 DEF Position
    <3>9. Timers'
      BY <1>1, <1>3, <1>5, <2>4, <3>4 DEF Timers, NULL
    <3> QED BY <1>1, <1>2, <2>1, <2>2, <3>4, <3>7, <3>8, <3>9 DEF RoundInv
  <2> QED BY <2>3, <2>4
<1> QED BY <1>4, <1>5 DEF TftpTimeout

\* ArpTimeoutCheck and the pause come after the round, and never end the command.
LEMMA RoundAfter ==
    ASSUME PlainTypes, RoundInv, OneCommand, ArpGivesUp \/ startAgainTimeout
    PROVE  RoundInv'
<1> USE DEF loopVars, handlerVars, clientVars, arpVars, triedVars, rxVars
<1>1. /\ UNCHANGED <<commands, protocol, netretry, result, NetRestarted, NetDevExists, started>>
      /\ pc \in {"arp", "time"} /\ pc' \in {"time", "switch"}
  BY DEF ArpGivesUp, startAgainTimeout, Due
<1>2. ~ Tracked
  <2>1. CASE ArpGivesUp
    BY <2>1, NetLoopAssumption
       DEF ArpGivesUp, ArpNotDue, RoundInv, Timers, OneCommand, PlainTypes, NULL
  <2>2. CASE startAgainTimeout
    BY <2>2 DEF startAgainTimeout, Due, RoundInv, Timers, NULL
  <2> QED BY <2>1, <2>2
<1>3. commands' # 0 /\ ~ Tracked'
  BY <1>1, <1>2 DEF RoundInv, Tracked, Active
<1>4. netretry = "no" \/ (netretry = "yes" /\ NetDevExists)
  BY <1>1, <1>2, NetLoopAssumption DEF Tracked, Active, PlainTypes
<1>5. CASE ArpGivesUp
  <2>1. NetStartAgain(timeHandler, NetState)
    BY <1>5 DEF ArpGivesUp
  <2>2. /\ eth'.NetRestartWrap = FALSE /\ tried \subseteq tried'
        /\ timeHandler' \in {timeHandler, "startAgain"} /\ packetHandler' \in {packetHandler, "startAgain"}
        /\ netretry = "yes" /\ NetDevExists => NetState' \in {"RESTART", NetState}
    BY <2>1, StartAgainLater DEF PlainTypes, RoundInv
  <2>3. AllTried => AllTried'
    BY <2>2 DEF AllTried
  <2> QED BY <1>1, <1>3, <1>4, <2>2, <2>3 DEF RoundInv
<1>6. CASE startAgainTimeout
  BY <1>1, <1>3, <1>6 DEF startAgainTimeout, RoundInv, AllTried
<1> QED BY <1>5, <1>6

\* The steps that end a command.
LEMMA RoundEnds ==
    ASSUME PlainTypes, RoundInv, OneCommand,
           NotConfigured \/ CtrlC \/ Succeeds \/ Fails \/ NullHandler
    PROVE  RoundInv'
<1> USE DEF loopVars, handlerVars, clientVars, arpVars, triedVars, rxVars
<1>1. /\ eth'.NetRestartWrap = FALSE /\ tried' = tried /\ pc # "prompt"
      /\ pc' \in {"prompt", "crashed"}
      /\ UNCHANGED <<commands, protocol, netretry, packetHandler, timeHandler>>
      /\ NetState' \in {NetState, "CONTINUE"}
      /\ result' = "fail" => result = "fail" \/ NetState = "FAIL"
  BY DEF PlainTypes, RoundInv, Eth, NotConfigured, CtrlC, Succeeds, Fails, NullHandler, eth_halt,
         RecvEnds, Returns
<1>2. ~ Tracked' /\ commands' # 0 /\ AllTried' = AllTried
  BY <1>1 DEF Tracked, Active, RoundInv, AllTried
<1> QED BY <1>1, <1>2 DEF RoundInv

LEMMA RoundStep ==
    ASSUME PlainTypes, RoundInv, OneCommand, [Next]_vars
    PROVE  RoundInv'
<1>1. CASE UNCHANGED vars
  <2>1. UNCHANGED <<pc, protocol, netretry, result, commands, NetState, NetRestarted, NetDevExists,
                    packetHandler, timeHandler, timeLeft, NetServerEther, arp, NetArpWaitTry, arpLeft,
                    eth, handed, tried, started>>
    BY <1>1 DEF vars, loopVars, handlerVars, clientVars, arpVars, triedVars, rxVars
  <2>2. Visited' = Visited
    BY <2>1, SameVisited
  <2> QED BY <2>1, <2>2 DEF RoundInv, AllTried, Tracked, Active, Position, Timers
<1>2. CASE \E p \in Protocols, late \in BOOLEAN : NetLoop(p, late)
  BY <1>2, RoundStarts
<1>3. ~ TftpError
  BY DEF TftpError, OneCommand
<1>4. ~ (BootpTimeout \/ PingTimeout \/ PingReply \/ DhcpOffer \/ DhcpAck)
  BY DEF RoundInv, BootpTimeout, PingTimeout, PingReply, DhcpOffer, DhcpAck, Hands, Due, NULL
<1>5. CASE NotConfigured \/ CtrlC
  BY <1>5, RoundEnds
<1>6. CASE Tick
  BY <1>6, RoundSameDevice
<1>7. CASE Packet
  BY <1>3, <1>4, <1>7, RoundEnds, RoundSameDevice DEF Packet
<1>8. CASE Loop
  BY <1>4, <1>8, RoundEnds, RoundSameDevice, RoundAfter, RoundStart, RoundPassesOver, RoundTimeout
     DEF Loop, TimeHandler
<1> QED BY <1>1, <1>2, <1>5, <1>6, <1>7, <1>8 DEF Next

LEMMA AlwaysRound ==
    ASSUME OneCommand
    PROVE  Spec => [](TypeInv /\ RoundInv)
<1>1. Init => RoundInv
  BY DEF Init, RoundInv, Tracked, Active, NULL
<1>2. TypeInv /\ RoundInv /\ [Next]_vars => RoundInv'
  BY RoundStep DEF TypeInv
<1> QED BY <1>1, <1>2, AlwaysTypeInv, PTL DEF Spec

\* A TFTP command that netretry lets go on fails only when eth_try_another has come
\* round: every interface with an Ethernet address has been started on, or did not
\* come up.  For any number of interfaces, any links, packets and time-outs.
THEOREM WholeRound ==
    ASSUME OneCommand
    PROVE  Spec => []FailsOnlyAfterAll
<1>1. RoundInv => FailsOnlyAfterAll
  BY DEF RoundInv, FailsOnlyAfterAll, AllTried
<1> QED BY <1>1, AlwaysRound, PTL

\* With netretry "once", the round never comes back to an interface on which the
\* command has been started: the current one is not among those passed.
THEOREM NeverTwice ==
    ASSUME OneCommand
    PROVE  Spec => []StartedOnce
<1>1. TypeInv /\ RoundInv => StartedOnce
  <2> SUFFICES ASSUME TypeInv, RoundInv, pc = "start", netretry = "once"
               PROVE  eth.current \notin started
    BY DEF StartedOnce
  <2>1. started \subseteq Visited
    BY DEF RoundInv, Tracked, Active, Position
  <2>2. eth.current \notin Visited
    BY NotYetPassed DEF Visited, TypeInv, PlainTypes, Eth
  <2> QED BY <2>1, <2>2
<1> QED BY <1>1, AlwaysRound, PTL
=============================================================================
