-------------------------------- MODULE Dhcp --------------------------------
(***************************************************************************)
(* The DHCP client of U-Boot (net/bootp.c), run by the main loop of        *)
(* net/net.c, against several servers, some of which speak only BOOTP, and *)
(* a network that may lose, delay, duplicate and reorder packets (servers  *)
(* and network are external).                                              *)
(*                                                                         *)
(* Every DISCOVER is a new transaction: BootpID is drawn from the timer,   *)
(* here it counts the transactions.  The interface is not changed; module  *)
(* NetLoop is about that, and about the time the loop waits.               *)
(***************************************************************************)
EXTENDS Integers

CONSTANTS
    DhcpServers, BootpServers,
    Addresses, NoIP,    \* IP addresses that are assigned; the address 0
    Pool,               \* per server: the addresses it assigns
    Siaddr,             \* servers that name a server to boot from (themselves)
    Broadcasts,         \* servers that answer to 0xFFFFFFFF, not to the new address
    OtherIds,           \* transactions of another board on the same network
    NetRetries,         \* values netretry is given
    TIMEOUT_COUNT,      \* 5 in the code
    MaxIds,             \* bound: transactions
    MaxFaults           \* bound: packets lost, doubled or late, addresses given
                        \* away, BOOTP answers, answers to others, new commands

Servers == DhcpServers \cup BootpServers
serverip == "serverip"      \* the environment's server to boot from
Bcast    == "bcast"         \* 0xFFFFFFFF
Us       == "us"            \* NetOurEther

ASSUME DhcpAssumption ==
    /\ DhcpServers \cap BootpServers = {}
    /\ NoIP \notin Addresses \cup Servers
    /\ serverip \notin Servers
    /\ Bcast \notin Addresses
    /\ Pool \in [Servers -> SUBSET Addresses]
    /\ Siaddr \subseteq Servers /\ Broadcasts \subseteq Servers
    /\ OtherIds \subseteq Nat
    /\ NetRetries \subseteq {"yes", "no"}
    /\ TIMEOUT_COUNT \in Nat \ {0}
    /\ MaxIds \in Nat \ {0} /\ MaxFaults \in Nat

VARIABLES
    netretry,
    handler,            \* packetHandler: "dhcp", "startAgain" during the pause of
                        \* NetStartAgain, "other" when the command is over or TFTP
                        \* has taken over
    dhcp_state, BootpTry, BootpID,
    NetOurIP, NetServerIP, NetDHCPServerIP,
    requests, replies,  \* packets on their way, a request once per server it is for
    lease,              \* per server: addresses it has acknowledged to this board
    taken,              \* addresses given to others
    faults              \* faults the environment may still commit

loopVars   == <<netretry, handler>>
dhcpVars   == <<dhcp_state, BootpTry, BootpID>>
paramVars  == <<NetOurIP, NetServerIP, NetDHCPServerIP>>
serverVars == <<lease, taken>>
vars == <<loopVars, dhcpVars, paramVars, requests, replies, serverVars, faults>>

Requests == [type : {"DISCOVER", "REQUEST"}, xid : Nat, to : DhcpServers,
             ip : Addresses \cup {NoIP}]
Replies  == [type : {"OFFER", "ACK", "NAK", "BOOTREPLY"}, xid : Nat, from : Servers,
             yiaddr : Addresses \cup {NoIP}, dst : Addresses \cup {Bcast},
             chaddr : {Us, "other"}]

(* Every variable ranges over the values its declaration allows. *)
TypeOK ==
    /\ netretry \in NetRetries
    /\ handler \in {"dhcp", "startAgain", "other"}
    /\ dhcp_state \in {"INIT", "SELECTING", "REQUESTING", "BOUND"}
    /\ BootpTry \in 0 .. TIMEOUT_COUNT
    /\ BootpID \in Nat
    /\ NetOurIP \in Addresses \cup {NoIP}
    /\ NetServerIP \in Servers \cup {serverip}
    /\ NetDHCPServerIP \in Servers \cup {NoIP}
    /\ requests \subseteq Requests /\ replies \subseteq Replies
    /\ lease \in [Servers -> SUBSET Addresses]
    /\ taken \subseteq Addresses
    /\ faults \in 0 .. MaxFaults

-----------------------------------------------------------------------------
(* The client                                                               *)

Fault == faults > 0 /\ faults' = faults - 1

(* The timer expires when nothing is on its way, or too early *)
TimerExpires == (requests = {} /\ replies = {} /\ UNCHANGED faults) \/ Fault

(* BootpRequest with an id made of the Ethernet address alone *)
BootpRequestSameId(t) ==
    /\ BootpTry' = t
    /\ BootpID' = 1
    /\ dhcp_state' = "SELECTING"
    /\ handler' = "dhcp"
    /\ requests' = requests \cup
         [type : {"DISCOVER"}, xid : {1}, to : DhcpServers, ip : {NoIP}]

(* BootpRequest: a DISCOVER with a new id, for the t-th time of this start *)
BootpRequest(t) ==
    /\ BootpID < MaxIds
    /\ BootpTry' = t
    /\ BootpID' = BootpID + 1
    /\ dhcp_state' = "SELECTING"
    /\ handler' = "dhcp"
    /\ requests' = requests \cup
         [type : {"DISCOVER"}, xid : {BootpID + 1}, to : DhcpServers, ip : {NoIP}]

(* StartDhcp without its clean slate *)
StartDhcpDirty ==
    /\ handler = "startAgain"
    /\ BootpRequest(1)
    /\ NetOurIP' = NoIP
    /\ UNCHANGED <<netretry, NetServerIP, NetDHCPServerIP, replies, serverVars, faults>>

(* StartDhcp that leaves the address of the last start in place *)
StartDhcpKeepsIP ==
    /\ handler = "startAgain"
    /\ BootpRequest(1)
    /\ NetServerIP' = serverip
    /\ UNCHANGED <<netretry, NetOurIP, NetDHCPServerIP, replies, serverVars, faults>>

(* NetLoop, protocol DHCP, from label restart to the loop *)
StartDhcp ==
    /\ handler = "startAgain"
    /\ BootpRequest(1)
    /\ NetOurIP' = NoIP
    /\ NetServerIP' = serverip
    /\ UNCHANGED <<netretry, NetDHCPServerIP, replies, serverVars, faults>>

(* The command fails, or all starts again after a pause *)
NetStartAgain ==
    /\ handler' = IF netretry = "no" THEN "other" ELSE "startAgain"
    /\ UNCHANGED <<dhcpVars, requests>>

(* BootpTimeout, off by one *)
BootpTimeoutOneMore ==
    /\ handler = "dhcp"
    /\ TimerExpires
    /\ IF BootpTry > TIMEOUT_COUNT THEN NetStartAgain ELSE BootpRequest(BootpTry + 1)
    /\ UNCHANGED <<netretry, paramVars, replies, serverVars>>

(* BOOTP/DHCP time-out: a new transaction, or all starts again *)
BootpTimeout ==
    /\ handler = "dhcp"
    /\ TimerExpires
    /\ IF BootpTry >= TIMEOUT_COUNT THEN NetStartAgain ELSE BootpRequest(BootpTry + 1)
    /\ UNCHANGED <<netretry, paramVars, replies, serverVars>>

(* A packet of S leaves the network, or stays there as a duplicate *)
Taken(S, m, rest) ==
    \/ rest = S \ {m} /\ UNCHANGED faults
    \/ rest = S /\ Fault

(* NetReceive passes a packet for our address on, any while there is none *)
AcceptsIP(m) == NetOurIP = NoIP \/ m.dst \in {NetOurIP, Bcast}

(* BootpCheckPkt without the transaction *)
AcceptsAnyId(m) == handler = "dhcp" /\ AcceptsIP(m)

(* ... then BootpCheckPkt looks at the transaction *)
Accepts(m) == handler = "dhcp" /\ AcceptsIP(m) /\ m.xid = BootpID

(* BOOTP answers carry no options *)
DhcpOptionsProcess(m) ==
    NetDHCPServerIP' = IF m.type = "BOOTREPLY" THEN NetDHCPServerIP ELSE m.from

BootpCopyNetParams(m) ==
    /\ NetOurIP' = m.yiaddr
    /\ NetServerIP' = IF m.from \in Siaddr THEN m.from ELSE NetServerIP

(* A request that names no server (option 54 is left out) is for all of them *)
Addressed == DhcpServers \cap IF NetDHCPServerIP' = NoIP THEN DhcpServers ELSE {NetDHCPServerIP'}

(* SELECTING takes every message for an offer and requests what it offers *)
HandleOffer(m) ==
    /\ Accepts(m)
    /\ dhcp_state = "SELECTING"
    /\ dhcp_state' = "REQUESTING"
    /\ DhcpOptionsProcess(m)
    /\ BootpCopyNetParams(m)
    /\ requests' = requests \cup
         [type : {"REQUEST"}, xid : {m.xid}, to : Addressed, ip : {m.yiaddr}]
    /\ UNCHANGED <<BootpTry, BootpID, handler>>

(* REQUESTING waits for an acknowledgement, from whichever server.  The command
   succeeds (autoload "n"), or TftpStart takes over *)
HandleAck(m) ==
    /\ Accepts(m)
    /\ dhcp_state = "REQUESTING"
    /\ m.type = "ACK"
    /\ dhcp_state' = "BOUND"
    /\ DhcpOptionsProcess(m)
    /\ BootpCopyNetParams(m)
    /\ handler' = "other"
    /\ UNCHANGED <<BootpTry, BootpID, requests>>

HandleOther(m) ==
    /\ ~ Accepts(m) \/ (dhcp_state = "REQUESTING" /\ m.type # "ACK")
    /\ UNCHANGED <<dhcpVars, paramVars, handler, requests>>

DhcpHandler ==
    \E m \in replies :
      /\ Taken(replies, m, replies')
      /\ HandleOffer(m) \/ HandleAck(m) \/ HandleOther(m)
      /\ UNCHANGED <<netretry, serverVars>>

(* TFTP calls NetStartAgain, or the user gives the command once more *)
Again ==
    /\ handler = "other"
    /\ Fault
    /\ handler' = "startAgain"
    /\ UNCHANGED <<netretry, dhcpVars, paramVars, requests, replies, serverVars>>

-----------------------------------------------------------------------------
(* Servers and network (external)                                           *)

Reply(type, r, a) ==
    [type |-> type, xid |-> r.xid, from |-> r.to, yiaddr |-> a,
     dst |-> IF r.to \in Broadcasts \/ a = NoIP THEN Bcast ELSE a, chaddr |-> Us]

(* A server receives r *)
Receives(r) ==
    /\ r \in requests
    /\ requests' = requests \ {r}
    /\ UNCHANGED <<loopVars, dhcpVars, paramVars>>

Offers(s) ==
    \E r \in requests, a \in Pool[s] \ taken :
      /\ r.to = s /\ r.type = "DISCOVER"
      /\ Receives(r)
      /\ replies' = replies \cup {Reply("OFFER", r, a)}
      /\ UNCHANGED <<serverVars, faults>>

Acknowledges(s) ==
    \E r \in requests :
      /\ r.to = s /\ r.type = "REQUEST"
      /\ r.ip \in Pool[s] \ taken
      /\ Receives(r)
      /\ replies' = replies \cup {Reply("ACK", r, r.ip)}
      /\ lease' = [lease EXCEPT ![s] = @ \cup {r.ip}]
      /\ UNCHANGED <<taken, faults>>

Refuses(s) ==
    \E r \in requests :
      /\ r.to = s /\ r.type = "REQUEST"
      /\ r.ip \notin Pool[s] \ taken
      /\ Receives(r)
      /\ replies' = replies \cup {Reply("NAK", r, NoIP)}
      /\ UNCHANGED <<serverVars, faults>>

(* A BOOTP server takes every message for a BOOTREQUEST, and answers some *)
BootpReplies(s) ==
    \E id \in 1 .. BootpID, a \in Pool[s] :
      /\ replies' = replies \cup {Reply("BOOTREPLY", [xid |-> id, to |-> s], a)}
      /\ Fault
      /\ UNCHANGED <<loopVars, dhcpVars, paramVars, requests, serverVars>>

(* An address is given to another board, which is told so by broadcast; the
   server has others left *)
GivenAway(s) ==
    \E a \in Pool[s] \ (taken \cup lease[s]), id \in OtherIds :
      /\ Pool[s] \ taken # {a}
      /\ taken' = taken \cup {a}
      /\ replies' = replies \cup {[type |-> "ACK", xid |-> id, from |-> s, yiaddr |-> a,
                                   dst |-> Bcast, chaddr |-> "other"]}
      /\ Fault
      /\ UNCHANGED <<loopVars, dhcpVars, paramVars, requests, lease>>

Lose ==
    /\ Fault
    /\ \/ \E r \in requests : requests' = requests \ {r} /\ UNCHANGED replies
       \/ \E m \in replies : replies' = replies \ {m} /\ UNCHANGED requests
    /\ UNCHANGED <<loopVars, dhcpVars, paramVars, serverVars>>

Serves == \E s \in DhcpServers : Offers(s) \/ Acknowledges(s) \/ Refuses(s)

Disturbs == \/ \E s \in BootpServers : BootpReplies(s)
            \/ \E s \in DhcpServers : GivenAway(s)
            \/ Lose

-----------------------------------------------------------------------------
Init ==
    /\ netretry \in NetRetries
    /\ handler = "startAgain"       \* the user gives the command
    /\ dhcp_state = "INIT" /\ BootpTry = 0 /\ BootpID = 0
    /\ NetOurIP = NoIP /\ NetServerIP = serverip /\ NetDHCPServerIP = NoIP
    /\ requests = {} /\ replies = {}
    /\ lease = [s \in Servers |-> {}] /\ taken = {}
    /\ faults = MaxFaults

Client == StartDhcp \/ BootpTimeout \/ DhcpHandler

Next == Client \/ Again \/ Serves \/ Disturbs

(* The processor runs and its timer expires; servers answer.  Only MaxFaults
   times is a packet lost or late *)
Fairness == WF_vars(StartDhcp) /\ WF_vars(BootpTimeout) /\ WF_vars(DhcpHandler)
              /\ WF_vars(Serves)

Spec == Init /\ [][Next]_vars /\ Fairness

-----------------------------------------------------------------------------
(* Properties                                                               *)

(* The address the client is bound to is one that the server it names has
   acknowledged to this board and to nobody else: no offer, no answer of an
   earlier transaction and none to another board was taken for it *)
BoundToLease ==
    dhcp_state = "BOUND" =>
      /\ NetDHCPServerIP \in DhcpServers
      /\ NetOurIP \in lease[NetDHCPServerIP]
      /\ NetOurIP \notin taken

(* The file is loaded from the server that the acknowledgement names, or from
   the environment's if it names none: not from one of a refused offer *)
BootFromBinder ==
    dhcp_state = "BOUND" =>
      NetServerIP = IF NetDHCPServerIP \in Siaddr THEN NetDHCPServerIP ELSE serverip

(* What SELECTING takes for an offer is one: as long as no request of this
   transaction has been sent, nothing else can be on its way to the handler *)
OffersOnly ==
    dhcp_state = "SELECTING" =>
      \A m \in replies : m.xid = BootpID => m.type \in {"OFFER", "BOOTREPLY"} /\ m.chaddr = Us

(* With netretry "yes" the client is bound in the end; with "no" the command ends *)
Binds ==
    handler # "other" ~>
      handler = "other" /\ (netretry = "yes" => dhcp_state = "BOUND")

-----------------------------------------------------------------------------
(* Why, as an inductive invariant                                           *)

(* Another board does not use our transactions, and no address is assigned by
   two servers.  BootpCheckPkt does not compare bp_chaddr: without this,
   BoundToLease does not hold *)
Separate ==
    /\ OtherIds \cap (1 .. MaxIds) = {}
    /\ \A s, t \in Servers : s # t => Pool[s] \cap Pool[t] = {}

(* A DHCP server that names no server to boot from does not broadcast: once an
   address is set, NetReceive drops its offers.  Without this, BootFromBinder
   does not hold *)
Unmixed == DhcpServers \cap Broadcasts \subseteq Siaddr

(* What is on its way belongs to a transaction that has begun *)
OldIds ==
    /\ BootpID \in 0 .. MaxIds
    /\ \A r \in requests : r.xid \in 1 .. BootpID
    /\ \A m \in replies : IF m.chaddr = Us THEN m.xid \in 1 .. BootpID ELSE m.xid \in OtherIds

(* The request of a transaction follows its offer *)
NotRequested ==
    dhcp_state = "SELECTING" => \A r \in requests : r.xid = BootpID => r.type = "DISCOVER"

(* What a message says is true of its server *)
Truthful(m) ==
    /\ m.type # "BOOTREPLY" => m.from \in DhcpServers
    /\ m.type # "NAK" => m.yiaddr \in Pool[m.from]
    /\ m.chaddr = Us /\ m.from \notin Broadcasts /\ m.type # "NAK" => m.dst = m.yiaddr
    /\ m.chaddr = Us /\ m.type = "ACK" => m.yiaddr \in lease[m.from]

Transactions ==
    /\ OldIds
    /\ NotRequested
    /\ OffersOnly
    /\ \A m \in replies : Truthful(m)
    /\ \A s \in Servers : lease[s] \subseteq Pool[s] \ taken
    /\ handler = "dhcp" \/ dhcp_state # "INIT" => BootpID \in 1 .. MaxIds
    /\ BoundToLease

(* NetServerIP is another's only as long as NetReceive drops what the servers
   send that name none *)
FilterHolds ==
    NetServerIP # serverip =>
      \E s \in Siaddr \cup BootpServers : NetOurIP \in Pool[s]
=============================================================================
