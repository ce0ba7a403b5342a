----------------------------- MODULE DhcpProofs -----------------------------
(***************************************************************************)
(* Proofs about the DHCP client of module Dhcp, for any servers, pools of  *)
(* addresses, retry limits, transactions and faults.                       *)
(***************************************************************************)
EXTENDS Dhcp, TLAPS

(* The packets that BootpRequest and DhcpSendRequestPkt send *)
LEMMA DiscoverType ==
    ASSUME NEW id \in Nat
    PROVE  \A r \in [type : {"DISCOVER"}, xid : {id}, to : DhcpServers, ip : {NoIP}] :
             r \in Requests /\ r.xid = id /\ r.type = "DISCOVER"
BY DEF Requests

LEMMA RequestType ==
    ASSUME NEW id \in Nat, NEW S \in SUBSET DhcpServers, NEW a \in Addresses \cup {NoIP}
    PROVE  \A r \in [type : {"REQUEST"}, xid : {id}, to : S, ip : {a}] :
             r \in Requests /\ r.xid = id /\ r.type = "REQUEST"
BY DEF Requests

LEMMA ReplyType ==
    ASSUME NEW type \in {"OFFER", "ACK", "NAK", "BOOTREPLY"}, NEW r, r.xid \in Nat,
           r.to \in Servers, NEW a \in Addresses \cup {NoIP}
    PROVE  /\ Reply(type, r, a) \in Replies
           /\ Reply(type, r, a).type = type /\ Reply(type, r, a).xid = r.xid
           /\ Reply(type, r, a).from = r.to /\ Reply(type, r, a).yiaddr = a
           /\ Reply(type, r, a).chaddr = Us
           /\ r.to \notin Broadcasts /\ a # NoIP => Reply(type, r, a).dst = a
BY DEF Reply, Replies, Us

(* A DISCOVER keeps the types *)
LEMMA BootpRequestType ==
    ASSUME TypeOK, NEW t \in 0 .. TIMEOUT_COUNT, BootpRequest(t)
    PROVE  /\ BootpTry' \in 0 .. TIMEOUT_COUNT /\ BootpID' \in Nat
           /\ dhcp_state' \in {"INIT", "SELECTING", "REQUESTING", "BOUND"}
           /\ handler' \in {"dhcp", "startAgain", "other"}
           /\ requests' \subseteq Requests
<1>1. BootpID + 1 \in Nat
  BY DEF TypeOK
<1>2. requests' \subseteq Requests
  BY <1>1, DiscoverType DEF BootpRequest, TypeOK
<1> QED
  BY <1>1, <1>2 DEF BootpRequest, TypeOK

LEMMA FaultType ==
    ASSUME faults \in 0 .. MaxFaults, Fault \/ UNCHANGED faults
    PROVE  faults' \in 0 .. MaxFaults
BY DhcpAssumption DEF Fault

(* Every variable keeps its type; in particular no more than TIMEOUT_COUNT
   requests are broadcast in one start. *)
THEOREM TypeCorrect == Spec => []TypeOK
<1>1. Init => TypeOK
  BY DhcpAssumption DEF Init, TypeOK
<1>2. TypeOK /\ [Next]_vars => TypeOK'
  <2> SUFFICES ASSUME TypeOK, [Next]_vars PROVE TypeOK'
    OBVIOUS
  <2> USE DhcpAssumption
  <2>1. CASE StartDhcp
    <3>1. BootpRequest(1) /\ 1 \in 0 .. TIMEOUT_COUNT
      BY <2>1 DEF StartDhcp
    <3> QED
      BY <2>1, <3>1, BootpRequestType DEF StartDhcp, TypeOK, serverVars
  <2>2. CASE BootpTimeout
    <3>1. faults' \in 0 .. MaxFaults
      BY <2>2, FaultType DEF BootpTimeout, TimerExpires, TypeOK
    <3>2. CASE BootpTry >= TIMEOUT_COUNT
      BY <2>2, <3>1, <3>2 DEF BootpTimeout, NetStartAgain, dhcpVars, paramVars, serverVars, TypeOK
    <3>3. CASE ~ (BootpTry >= TIMEOUT_COUNT)
      <4>1. BootpRequest(BootpTry + 1) /\ BootpTry + 1 \in 0 .. TIMEOUT_COUNT
        BY <2>2, <3>3 DEF BootpTimeout, TypeOK
      <4> QED
        BY <2>2, <3>1, <4>1, BootpRequestType DEF BootpTimeout, paramVars, serverVars, TypeOK
    <3> QED
      BY <3>2, <3>3
  <2>3. CASE DhcpHandler
    <3>1. PICK m \in replies :
            /\ Taken(replies, m, replies')
            /\ HandleOffer(m) \/ HandleAck(m) \/ HandleOther(m)
            /\ UNCHANGED <<netretry, serverVars>>
      BY <2>3 DEF DhcpHandler
    <3>2. faults' \in 0 .. MaxFaults /\ replies' \subseteq Replies
      BY <3>1, FaultType DEF Taken, TypeOK
    <3>3. m \in Replies
      BY DEF TypeOK
    <3>4. /\ m.yiaddr \in Addresses \cup {NoIP} /\ m.from \in Servers /\ m.xid \in Nat
      BY <3>3 DEF Replies
    <3>5. CASE HandleOffer(m)
      <4>1. /\ NetOurIP' \in Addresses \cup {NoIP}
            /\ NetServerIP' \in Servers \cup {serverip}
            /\ NetDHCPServerIP' \in Servers \cup {NoIP}
        BY <3>4, <3>5 DEF HandleOffer, DhcpOptionsProcess, BootpCopyNetParams, TypeOK
      <4>2. requests' \subseteq Requests
        <5>1. Addressed \in SUBSET DhcpServers
          BY DEF Addressed
        <5> QED
          BY <5>1, <3>4, <3>5, RequestType DEF HandleOffer, TypeOK
      <4> QED
        BY <3>1, <3>2, <3>5, <4>1, <4>2 DEF HandleOffer, serverVars, TypeOK
    <3>6. CASE HandleAck(m)
      <4>1. /\ NetOurIP' \in Addresses \cup {NoIP}
            /\ NetServerIP' \in Servers \cup {serverip}
            /\ NetDHCPServerIP' \in Servers \cup {NoIP}
        BY <3>4, <3>6 DEF HandleAck, DhcpOptionsProcess, BootpCopyNetParams, TypeOK
      <4> QED
        BY <3>1, <3>2, <3>6, <4>1 DEF HandleAck, serverVars, TypeOK
    <3>7. CASE HandleOther(m)
      BY <3>1, <3>2, <3>7 DEF HandleOther, dhcpVars, paramVars, serverVars, TypeOK
    <3> QED
      BY <3>1, <3>5, <3>6, <3>7
  <2>4. CASE Again
    BY <2>4, FaultType DEF Again, dhcpVars, paramVars, serverVars, TypeOK
  <2>5. ASSUME NEW s \in DhcpServers, Offers(s) PROVE TypeOK'
    <3>1. PICK r \in requests, a \in Pool[s] \ taken :
            /\ r.to = s /\ Receives(r)
            /\ replies' = replies \cup {Reply("OFFER", r, a)}
            /\ UNCHANGED <<serverVars, faults>>
      BY <2>5 DEF Offers
    <3>2. Reply("OFFER", r, a) \in Replies
      <4>1. r.xid \in Nat /\ r.to \in Servers /\ a \in Addresses
        BY DEF TypeOK, Requests, Servers
      <4> QED
        BY <4>1, ReplyType
    <3> QED
      BY <3>1, <3>2 DEF Receives, loopVars, dhcpVars, paramVars, serverVars, TypeOK
  <2>6. ASSUME NEW s \in DhcpServers, Acknowledges(s) PROVE TypeOK'
    <3>1. PICK r \in requests :
            /\ r.to = s /\ Receives(r) /\ r.ip \in Pool[s] \ taken
            /\ replies' = replies \cup {Reply("ACK", r, r.ip)}
            /\ lease' = [lease EXCEPT ![s] = @ \cup {r.ip}]
            /\ UNCHANGED <<taken, faults>>
      BY <2>6 DEF Acknowledges
    <3>2. r.xid \in Nat /\ r.to \in Servers /\ r.ip \in Addresses /\ s \in Servers
      BY <3>1 DEF TypeOK, Requests, Servers
    <3>3. Reply("ACK", r, r.ip) \in Replies
      BY <3>2, ReplyType
    <3>4. lease' \in [Servers -> SUBSET Addresses]
      BY <3>1, <3>2 DEF TypeOK
    <3> QED
      BY <3>1, <3>3, <3>4 DEF Receives, loopVars, dhcpVars, paramVars, TypeOK
  <2>7. ASSUME NEW s \in DhcpServers, Refuses(s) PROVE TypeOK'
    <3>1. PICK r \in requests :
            /\ r.to = s /\ Receives(r)
            /\ replies' = replies \cup {Reply("NAK", r, NoIP)}
            /\ UNCHANGED <<serverVars, faults>>
      BY <2>7 DEF Refuses
    <3>2. Reply("NAK", r, NoIP) \in Replies
      <4>1. r.xid \in Nat /\ r.to \in Servers
        BY DEF TypeOK, Requests, Servers
      <4> QED
        BY <4>1, ReplyType
    <3> QED
      BY <3>1, <3>2 DEF Receives, loopVars, dhcpVars, paramVars, serverVars, TypeOK
  <2>8. ASSUME NEW s \in BootpServers, BootpReplies(s) PROVE TypeOK'
    <3>1. PICK id \in 1 .. BootpID, a \in Pool[s] :
            /\ replies' = replies \cup {Reply("BOOTREPLY", [xid |-> id, to |-> s], a)}
            /\ Fault
            /\ UNCHANGED <<loopVars, dhcpVars, paramVars, requests, serverVars>>
      BY <2>8 DEF BootpReplies
    <3>2. Reply("BOOTREPLY", [xid |-> id, to |-> s], a) \in Replies
      <4>1. id \in Nat /\ s \in Servers /\ a \in Addresses
        BY DEF TypeOK, Servers
      <4> QED
        BY <4>1, ReplyType
    <3>3. faults' \in 0 .. MaxFaults
      BY <3>1, FaultType DEF TypeOK
    <3> QED
      BY <3>1, <3>2, <3>3 DEF loopVars, dhcpVars, paramVars, serverVars, TypeOK
  <2>9. ASSUME NEW s \in DhcpServers, GivenAway(s) PROVE TypeOK'
    <3>1. PICK a \in Pool[s], id \in OtherIds :
            /\ taken' = taken \cup {a}
            /\ replies' = replies \cup {[type |-> "ACK", xid |-> id, from |-> s, yiaddr |-> a,
                                         dst |-> Bcast, chaddr |-> "other"]}
            /\ Fault
            /\ UNCHANGED <<loopVars, dhcpVars, paramVars, requests, lease>>
      BY <2>9 DEF GivenAway
    <3>2. id \in Nat /\ s \in Servers /\ a \in Addresses
      BY DEF Servers
    <3>3. [type |-> "ACK", xid |-> id, from |-> s, yiaddr |-> a,
           dst |-> Bcast, chaddr |-> "other"] \in Replies
      BY <3>2 DEF Replies
    <3>4. faults' \in 0 .. MaxFaults
      BY <3>1, FaultType DEF TypeOK
    <3> QED
      BY <3>1, <3>2, <3>3, <3>4 DEF loopVars, dhcpVars, paramVars, TypeOK
  <2>10. CASE Lose
    <3>1. faults' \in 0 .. MaxFaults
      BY <2>10, FaultType DEF Lose, TypeOK
    <3>2. requests' \subseteq Requests /\ replies' \subseteq Replies
      BY <2>10 DEF Lose, TypeOK
    <3> QED
      BY <2>10, <3>1, <3>2 DEF Lose, loopVars, dhcpVars, paramVars, serverVars, TypeOK
  <2>11. CASE UNCHANGED vars
    BY <2>11 DEF vars, loopVars, dhcpVars, paramVars, serverVars, TypeOK
  <2> QED
    BY <2>1, <2>2, <2>3, <2>4, <2>5, <2>6, <2>7, <2>8, <2>9, <2>10, <2>11
       DEF Next, Client, Serves, Disturbs
<1> QED
  BY <1>1, <1>2, PTL DEF Spec

-----------------------------------------------------------------------------
(* Transactions                                                             *)

LEMMA TransactionsInit == Init => Transactions
BY DhcpAssumption DEF Init, Transactions, OldIds, NotRequested, OffersOnly, BoundToLease

(* A new transaction: everything on its way is older *)
LEMMA BootpRequestStep ==
    ASSUME Separate, TypeOK, Transactions, NEW t, BootpRequest(t),
           UNCHANGED <<replies, lease, taken>>
    PROVE  Transactions'
<1> DEFINE D == [type : {"DISCOVER"}, xid : {BootpID + 1}, to : DhcpServers, ip : {NoIP}]
<1>1. /\ BootpID \in Nat /\ BootpID + 1 \in Nat
      /\ BootpID' = BootpID + 1 /\ BootpID + 1 \in 1 .. MaxIds
      /\ dhcp_state' = "SELECTING"
      /\ requests' = requests \cup D
      /\ replies' = replies /\ lease' = lease /\ taken' = taken
  BY DhcpAssumption DEF BootpRequest, Transactions, OldIds, TypeOK
<1>2. \A r \in D : r.xid = BootpID + 1 /\ r.type = "DISCOVER"
  BY <1>1, DiscoverType
<1>3. \A r \in requests : r.xid \in 1 .. BootpID
  BY DEF Transactions, OldIds
<1>4. \A m \in replies : IF m.chaddr = Us THEN m.xid \in 1 .. BootpID ELSE m.xid \in OtherIds
  BY DEF Transactions, OldIds
<1>5. OldIds'
  <2>1. \A r \in requests' : r.xid \in 1 .. BootpID + 1
    BY <1>1, <1>2, <1>3
  <2>2. \A m \in replies : IF m.chaddr = Us THEN m.xid \in 1 .. BootpID + 1 ELSE m.xid \in OtherIds
    BY <1>1, <1>4
  <2> QED
    BY <1>1, <2>1, <2>2 DEF OldIds
<1>6. NotRequested'
  BY <1>1, <1>2, <1>3 DEF NotRequested
<1>7. OffersOnly'
  BY <1>1, <1>4 DEF OffersOnly, Separate
<1>8. (\A m \in replies : Truthful(m))' /\ (\A s \in Servers : lease[s] \subseteq Pool[s] \ taken)'
  BY <1>1 DEF Transactions, Truthful
<1>9. BoundToLease'
  BY <1>1 DEF BoundToLease
<1> QED
  BY <1>1, <1>5, <1>6, <1>7, <1>8, <1>9 DEF Transactions

(* Packets may disappear *)
LEMMA FewerMessages ==
    ASSUME Transactions, requests' \subseteq requests, replies' \subseteq replies,
           UNCHANGED <<dhcp_state, BootpID, NetOurIP, NetDHCPServerIP, lease, taken>>,
           handler' = handler \/ handler' # "dhcp"
    PROVE  Transactions'
<1>1. OldIds' /\ NotRequested' /\ OffersOnly'
  BY DEF Transactions, OldIds, NotRequested, OffersOnly
<1>2. (\A m \in replies : Truthful(m))' /\ (\A s \in Servers : lease[s] \subseteq Pool[s] \ taken)'
  BY DEF Transactions, Truthful
<1>3. BoundToLease' /\ (handler = "dhcp" \/ dhcp_state # "INIT" => BootpID \in 1 .. MaxIds)'
  BY DEF Transactions, BoundToLease
<1> QED
  BY <1>1, <1>2, <1>3 DEF Transactions

(* A truthful answer is added, and an address may have been leased for it or
   given away *)
LEMMA MoreReplies ==
    ASSUME TypeOK, Transactions, NEW m, replies' = replies \cup {m}, requests' \subseteq requests,
           IF m.chaddr = Us THEN m.xid \in 1 .. BootpID ELSE m.xid \in OtherIds,
           dhcp_state = "SELECTING" /\ m.xid = BootpID
             => m.type \in {"OFFER", "BOOTREPLY"} /\ m.chaddr = Us,
           UNCHANGED <<dhcp_state, BootpID, handler, NetOurIP, NetDHCPServerIP>>,
           \A s \in Servers : lease[s] \subseteq lease'[s] /\ lease'[s] \subseteq Pool[s] \ taken',
           Truthful(m)'
    PROVE  Transactions'
<1>1. OldIds' /\ NotRequested' /\ OffersOnly'
  BY DEF Transactions, OldIds, NotRequested, OffersOnly
<1>2. ASSUME NEW n \in replies PROVE Truthful(n)'
  <2>1. Truthful(n) /\ n.from \in Servers
    BY DEF Transactions, TypeOK, Replies
  <2> QED
    BY <2>1 DEF Truthful
<1>3. (\A n \in replies : Truthful(n))'
  BY <1>2
<1>4. BoundToLease'
  <2> SUFFICES ASSUME dhcp_state = "BOUND"
               PROVE  /\ NetDHCPServerIP \in DhcpServers
                      /\ NetOurIP \in lease'[NetDHCPServerIP] /\ NetOurIP \notin taken'
    BY DEF BoundToLease
  <2>1. NetDHCPServerIP \in DhcpServers /\ NetOurIP \in lease[NetDHCPServerIP]
    BY DEF Transactions, BoundToLease
  <2> QED
    BY <2>1 DEF Servers
<1>5. (\A s \in Servers : lease[s] \subseteq Pool[s] \ taken)'
  OBVIOUS
<1>6. (handler = "dhcp" \/ dhcp_state # "INIT" => BootpID \in 1 .. MaxIds)'
  BY DEF Transactions
<1> QED
  BY <1>1, <1>3, <1>4, <1>5, <1>6 DEF Transactions

LEMMA TransactionsStep ==
    ASSUME Separate, TypeOK, Transactions, [Next]_vars
    PROVE  Transactions'
<1> USE DhcpAssumption
<1>1. CASE StartDhcp
  BY <1>1, BootpRequestStep DEF StartDhcp, serverVars
<1>2. CASE BootpTimeout
  <2>1. CASE BootpTry >= TIMEOUT_COUNT
    BY <1>2, <2>1, FewerMessages DEF BootpTimeout, NetStartAgain, dhcpVars, paramVars, serverVars
  <2>2. CASE ~ (BootpTry >= TIMEOUT_COUNT)
    BY <1>2, <2>2, BootpRequestStep DEF BootpTimeout, serverVars
  <2> QED
    BY <2>1, <2>2
<1>3. CASE DhcpHandler
  <2>1. PICK m \in replies :
          /\ Taken(replies, m, replies')
          /\ HandleOffer(m) \/ HandleAck(m) \/ HandleOther(m)
          /\ UNCHANGED <<netretry, serverVars>>
    BY <1>3 DEF DhcpHandler
  <2>2. replies' \subseteq replies /\ lease' = lease /\ taken' = taken
    BY <2>1 DEF Taken, serverVars
  <2>3. m \in Replies /\ m.xid \in Nat /\ m.yiaddr \in Addresses \cup {NoIP} /\ m.from \in Servers
    BY DEF TypeOK, Replies
  <2>4. CASE HandleOffer(m)
    <3> DEFINE R == [type : {"REQUEST"}, xid : {m.xid}, to : Addressed, ip : {m.yiaddr}]
    <3>1. /\ m.xid = BootpID /\ BootpID' = BootpID /\ BootpID \in 1 .. MaxIds
          /\ dhcp_state' = "REQUESTING" /\ handler' = handler
          /\ requests' = requests \cup R
      BY <2>4 DEF HandleOffer, Accepts, Transactions
    <3>2. \A r \in R : r.xid = BootpID
      BY <3>1
    <3>3. OldIds'
      BY <2>2, <3>1, <3>2 DEF Transactions, OldIds
    <3>4. NotRequested' /\ OffersOnly' /\ BoundToLease'
      BY <3>1 DEF NotRequested, OffersOnly, BoundToLease
    <3>5. (\A n \in replies : Truthful(n))' /\ (\A s \in Servers : lease[s] \subseteq Pool[s] \ taken)'
      BY <2>2 DEF Transactions, Truthful
    <3> QED
      BY <3>1, <3>3, <3>4, <3>5 DEF Transactions
  <2>5. CASE HandleAck(m)
    <3>1. /\ m.xid = BootpID /\ m.type = "ACK" /\ BootpID \in 1 .. MaxIds
          /\ dhcp_state' = "BOUND" /\ handler' = "other" /\ requests' = requests
          /\ BootpID' = BootpID
          /\ NetOurIP' = m.yiaddr /\ NetDHCPServerIP' = m.from
      BY <2>5 DEF HandleAck, Accepts, Transactions, DhcpOptionsProcess, BootpCopyNetParams
    <3>2. m.chaddr = Us
      BY <3>1 DEF Transactions, OldIds, Separate
    <3>3. m.from \in DhcpServers /\ m.yiaddr \in lease[m.from]
      BY <3>1, <3>2 DEF Transactions, Truthful
    <3>4. BoundToLease'
      BY <2>2, <2>3, <3>1, <3>3 DEF BoundToLease, Transactions
    <3>5. OldIds' /\ NotRequested' /\ OffersOnly'
      BY <2>2, <3>1 DEF Transactions, OldIds, NotRequested, OffersOnly
    <3>6. (\A n \in replies : Truthful(n))' /\ (\A s \in Servers : lease[s] \subseteq Pool[s] \ taken)'
      BY <2>2 DEF Transactions, Truthful
    <3> QED
      BY <3>1, <3>4, <3>5, <3>6 DEF Transactions
  <2>6. CASE HandleOther(m)
    BY <2>2, <2>6, FewerMessages DEF HandleOther, dhcpVars, paramVars
  <2> QED
    BY <2>1, <2>4, <2>5, <2>6
<1>4. CASE Again
  BY <1>4, FewerMessages DEF Again, dhcpVars, paramVars, serverVars
<1>5. ASSUME NEW s \in DhcpServers, Offers(s) PROVE Transactions'
  <2>1. PICK r \in requests, a \in Pool[s] \ taken :
          /\ r.to = s /\ Receives(r)
          /\ replies' = replies \cup {Reply("OFFER", r, a)}
          /\ UNCHANGED <<serverVars, faults>>
    BY <1>5 DEF Offers
  <2>2. /\ r.xid \in Nat /\ r.xid \in 1 .. BootpID /\ r.to \in Servers
        /\ a \in Addresses /\ a # NoIP
    BY <2>1 DEF TypeOK, Requests, Servers, Transactions, OldIds
  <2> DEFINE m == Reply("OFFER", r, a)
  <2>3. /\ m.type = "OFFER" /\ m.xid = r.xid /\ m.from = s /\ m.yiaddr = a /\ m.chaddr = Us
        /\ s \notin Broadcasts => m.dst = a
    BY <2>1, <2>2, ReplyType
  <2>4. Truthful(m)'
    BY <2>1, <2>3 DEF Truthful
  <2>5. /\ requests' \subseteq requests
        /\ UNCHANGED <<dhcp_state, BootpID, handler, NetOurIP, NetDHCPServerIP, lease, taken>>
    BY <2>1 DEF Receives, loopVars, dhcpVars, paramVars, serverVars
  <2>6. \A t \in Servers : lease[t] \subseteq lease'[t] /\ lease'[t] \subseteq Pool[t] \ taken'
    BY <2>5 DEF Transactions
  <2> HIDE DEF m
  <2> QED
    BY <2>1, <2>2, <2>3, <2>4, <2>5, <2>6, MoreReplies DEF m
<1>6. ASSUME NEW s \in DhcpServers, Acknowledges(s) PROVE Transactions'
  <2>1. PICK r \in requests :
          /\ r.to = s /\ r.type = "REQUEST" /\ Receives(r) /\ r.ip \in Pool[s] \ taken
          /\ replies' = replies \cup {Reply("ACK", r, r.ip)}
          /\ lease' = [lease EXCEPT ![s] = @ \cup {r.ip}]
          /\ UNCHANGED <<taken, faults>>
    BY <1>6 DEF Acknowledges
  <2>2. /\ r.xid \in Nat /\ r.xid \in 1 .. BootpID /\ r.to \in Servers /\ s \in Servers
        /\ r.ip \in Addresses /\ r.ip # NoIP
    BY <2>1 DEF TypeOK, Requests, Servers, Transactions, OldIds
  <2> DEFINE m == Reply("ACK", r, r.ip)
  <2>3. /\ m.type = "ACK" /\ m.xid = r.xid /\ m.from = s /\ m.yiaddr = r.ip /\ m.chaddr = Us
        /\ s \notin Broadcasts => m.dst = r.ip
    BY <2>1, <2>2, ReplyType
  <2>4. r.ip \in lease'[s] /\ \A t \in Servers : t # s => lease'[t] = lease[t]
    BY <2>1, <2>2 DEF TypeOK
  <2>5. Truthful(m)'
    BY <2>1, <2>3, <2>4 DEF Truthful
  <2>6. /\ requests' \subseteq requests
        /\ UNCHANGED <<dhcp_state, BootpID, handler, NetOurIP, NetDHCPServerIP>>
    BY <2>1 DEF Receives, loopVars, dhcpVars, paramVars
  <2>7. \A t \in Servers : lease[t] \subseteq lease'[t] /\ lease'[t] \subseteq Pool[t] \ taken'
    <3> SUFFICES ASSUME NEW t \in Servers
                 PROVE  lease[t] \subseteq lease'[t] /\ lease'[t] \subseteq Pool[t] \ taken'
      OBVIOUS
    <3>1. lease[t] \subseteq Pool[t] \ taken
      BY DEF Transactions
    <3>2. CASE t = s
      <4>1. lease'[s] = lease[s] \cup {r.ip}
        BY <2>1, <2>2 DEF TypeOK
      <4> QED
        BY <3>1, <3>2, <4>1, <2>1
    <3>3. CASE t # s
      BY <3>1, <3>3, <2>1, <2>4
    <3> QED
      BY <3>2, <3>3
  <2>8. ~ (dhcp_state = "SELECTING" /\ m.xid = BootpID)
    BY <2>1, <2>3 DEF Transactions, NotRequested
  <2> HIDE DEF m
  <2> QED
    BY <2>1, <2>2, <2>3, <2>5, <2>6, <2>7, <2>8, MoreReplies DEF m
<1>7. ASSUME NEW s \in DhcpServers, Refuses(s) PROVE Transactions'
  <2>1. PICK r \in requests :
          /\ r.to = s /\ r.type = "REQUEST" /\ Receives(r)
          /\ replies' = replies \cup {Reply("NAK", r, NoIP)}
          /\ UNCHANGED <<serverVars, faults>>
    BY <1>7 DEF Refuses
  <2>2. r.xid \in Nat /\ r.xid \in 1 .. BootpID /\ r.to \in Servers
    BY <2>1 DEF TypeOK, Requests, Servers, Transactions, OldIds
  <2> DEFINE m == Reply("NAK", r, NoIP)
  <2>3. m.type = "NAK" /\ m.xid = r.xid /\ m.from = s /\ m.chaddr = Us
    BY <2>1, <2>2, ReplyType
  <2>4. Truthful(m)'
    BY <2>3 DEF Truthful
  <2>5. /\ requests' \subseteq requests
        /\ UNCHANGED <<dhcp_state, BootpID, handler, NetOurIP, NetDHCPServerIP, lease, taken>>
    BY <2>1 DEF Receives, loopVars, dhcpVars, paramVars, serverVars
  <2>6. \A t \in Servers : lease[t] \subseteq lease'[t] /\ lease'[t] \subseteq Pool[t] \ taken'
    BY <2>5 DEF Transactions
  <2>7. ~ (dhcp_state = "SELECTING" /\ m.xid = BootpID)
    BY <2>1, <2>3 DEF Transactions, NotRequested
  <2> HIDE DEF m
  <2> QED
    BY <2>1, <2>2, <2>3, <2>4, <2>5, <2>6, <2>7, MoreReplies DEF m
<1>8. ASSUME NEW s \in BootpServers, BootpReplies(s) PROVE Transactions'
  <2>1. PICK id \in 1 .. BootpID, a \in Pool[s] :
          /\ replies' = replies \cup {Reply("BOOTREPLY", [xid |-> id, to |-> s], a)}
          /\ UNCHANGED <<loopVars, dhcpVars, paramVars, requests, serverVars>>
    BY <1>8 DEF BootpReplies
  <2>2. id \in Nat /\ s \in Servers /\ a \in Addresses /\ a # NoIP
    BY DEF TypeOK, Servers
  <2> DEFINE m == Reply("BOOTREPLY", [xid |-> id, to |-> s], a)
  <2>3. /\ m.type = "BOOTREPLY" /\ m.xid = id /\ m.from = s /\ m.yiaddr = a /\ m.chaddr = Us
        /\ s \notin Broadcasts => m.dst = a
    BY <2>2, ReplyType
  <2>4. Truthful(m)'
    BY <2>3 DEF Truthful
  <2>5. /\ requests' \subseteq requests
        /\ UNCHANGED <<dhcp_state, BootpID, handler, NetOurIP, NetDHCPServerIP, lease, taken>>
    BY <2>1 DEF loopVars, dhcpVars, paramVars, serverVars
  <2>6. \A t \in Servers : lease[t] \subseteq lease'[t] /\ lease'[t] \subseteq Pool[t] \ taken'
    BY <2>5 DEF Transactions
  <2> HIDE DEF m
  <2> QED
    BY <2>1, <2>2, <2>3, <2>4, <2>5, <2>6, MoreReplies DEF m
<1>9. ASSUME NEW s \in DhcpServers, GivenAway(s) PROVE Transactions'
  <2>1. PICK a \in Pool[s] \ (taken \cup lease[s]), id \in OtherIds :
          /\ taken' = taken \cup {a}
          /\ replies' = replies \cup {[type |-> "ACK", xid |-> id, from |-> s, yiaddr |-> a,
                                       dst |-> Bcast, chaddr |-> "other"]}
          /\ UNCHANGED <<loopVars, dhcpVars, paramVars, requests, lease>>
    BY <1>9 DEF GivenAway
  <2> DEFINE m == [type |-> "ACK", xid |-> id, from |-> s, yiaddr |-> a,
                   dst |-> Bcast, chaddr |-> "other"]
  <2>2. m.type = "ACK" /\ m.xid = id /\ m.from = s /\ m.yiaddr = a /\ m.chaddr # Us
    BY DEF Us
  <2>3. Truthful(m)'
    BY <2>2 DEF Truthful
  <2>4. /\ requests' \subseteq requests
        /\ UNCHANGED <<dhcp_state, BootpID, handler, NetOurIP, NetDHCPServerIP, lease>>
    BY <2>1 DEF loopVars, dhcpVars, paramVars
  <2>5. \A t \in Servers : lease[t] \subseteq lease'[t] /\ lease'[t] \subseteq Pool[t] \ taken'
    <3> SUFFICES ASSUME NEW t \in Servers PROVE lease[t] \subseteq Pool[t] \ (taken \cup {a})
      BY <2>1, <2>4
    <3>1. lease[t] \subseteq Pool[t] \ taken
      BY DEF Transactions
    <3>2. a \notin lease[t]
      <4>1. s \in Servers
        BY DEF Servers
      <4>2. CASE t = s
        BY <4>2
      <4>3. CASE t # s
        BY <4>1, <4>3, <3>1 DEF Separate
      <4> QED
        BY <4>2, <4>3
    <3> QED
      BY <3>1, <3>2
  <2>6. ~ (dhcp_state = "SELECTING" /\ id = BootpID)
    <3> SUFFICES ASSUME dhcp_state = "SELECTING", id = BootpID PROVE FALSE
      OBVIOUS
    <3>1. BootpID \in 1 .. MaxIds
      BY DEF Transactions, OldIds
    <3> QED
      BY <3>1 DEF Separate
  <2> HIDE DEF m
  <2> QED
    BY <2>1, <2>2, <2>3, <2>4, <2>5, <2>6, MoreReplies DEF m
<1>10. CASE Lose
  BY <1>10, FewerMessages DEF Lose, loopVars, dhcpVars, paramVars, serverVars
<1>11. CASE UNCHANGED vars
  BY <1>11, FewerMessages DEF vars, loopVars, dhcpVars, paramVars, serverVars
<1> QED
  BY <1>1, <1>2, <1>3, <1>4, <1>5, <1>6, <1>7, <1>8, <1>9, <1>10, <1>11
     DEF Next, Client, Serves, Disturbs

(* The address in use is one that its server has acknowledged to this board,
   whatever is lost, late or doubled, provided that other boards use other
   transactions and servers other addresses. *)
THEOREM AlwaysBoundToLease == Separate => (Spec => []BoundToLease)
<1> SUFFICES ASSUME Separate PROVE Spec => []BoundToLease
  OBVIOUS
<1>1. TypeOK /\ Transactions /\ [Next]_vars => Transactions'
  BY TransactionsStep
<1>2. Transactions => BoundToLease
  BY DEF Transactions
<1> QED
  BY <1>1, <1>2, TransactionsInit, TypeCorrect, PTL DEF Spec

(* Taking every message in SELECTING for an offer is harmless: nothing else can
   carry the current id, because each DISCOVER draws a new one. *)
THEOREM AlwaysOffersOnly == Separate => (Spec => []OffersOnly)
<1> SUFFICES ASSUME Separate PROVE Spec => []OffersOnly
  OBVIOUS
<1>1. TypeOK /\ Transactions /\ [Next]_vars => Transactions'
  BY TransactionsStep
<1>2. Transactions => OffersOnly
  BY DEF Transactions
<1> QED
  BY <1>1, <1>2, TransactionsInit, TypeCorrect, PTL DEF Spec

-----------------------------------------------------------------------------
(* The server to boot from                                                  *)

LEMMA FilterStep ==
    ASSUME Separate, Unmixed, TypeOK, Transactions, FilterHolds, BootFromBinder, [Next]_vars
    PROVE  FilterHolds' /\ BootFromBinder'
<1> USE DhcpAssumption
<1>0. ASSUME UNCHANGED <<NetOurIP, NetServerIP, NetDHCPServerIP>>,
             dhcp_state' = dhcp_state \/ dhcp_state' # "BOUND"
      PROVE  FilterHolds' /\ BootFromBinder'
  BY <1>0 DEF FilterHolds, BootFromBinder
<1>1. CASE StartDhcp
  BY <1>1 DEF StartDhcp, BootpRequest, FilterHolds, BootFromBinder
<1>2. CASE BootpTimeout
  BY <1>2, <1>0 DEF BootpTimeout, NetStartAgain, BootpRequest, dhcpVars, paramVars
<1>3. CASE DhcpHandler
  <2>1. PICK m \in replies : HandleOffer(m) \/ HandleAck(m) \/ HandleOther(m)
    BY <1>3 DEF DhcpHandler
  <2>2. CASE HandleOther(m)
    BY <2>2, <1>0 DEF HandleOther, dhcpVars, paramVars
  <2>3. m.from \in Servers /\ Truthful(m)
    BY DEF TypeOK, Replies, Transactions
  <2>4. CASE HandleOffer(m) \/ HandleAck(m)
    <3>1. /\ m.xid = BootpID /\ AcceptsIP(m)
          /\ NetOurIP' = m.yiaddr
          /\ NetServerIP' = IF m.from \in Siaddr THEN m.from ELSE NetServerIP
          /\ dhcp_state = "SELECTING" \/ m.type = "ACK"
          /\ BootpID \in 1 .. MaxIds
      BY <2>4 DEF HandleOffer, HandleAck, Accepts, BootpCopyNetParams, Transactions
    <3>2. m.type # "NAK" /\ m.chaddr = Us
      BY <3>1 DEF Transactions, OffersOnly, OldIds, Separate
    <3>3. m.yiaddr \in Pool[m.from]
      BY <2>3, <3>2 DEF Truthful
    (* A server that names no other is heard only if no other has been *)
    <3>4. ASSUME m.from \notin Siaddr \cup BootpServers PROVE NetServerIP = serverip
      <4> SUFFICES ASSUME NetServerIP # serverip PROVE FALSE
        OBVIOUS
      <4>1. PICK s \in Siaddr \cup BootpServers : NetOurIP \in Pool[s]
        BY DEF FilterHolds
      <4>2. s \in Servers /\ s # m.from /\ Pool[s] \subseteq Addresses
        BY <3>4 DEF Servers
      <4>3. NetOurIP \notin Pool[m.from] /\ NetOurIP # NoIP
        BY <4>1, <4>2, <2>3 DEF Separate
      <4>4. m.from \notin Broadcasts
        BY <3>4, <2>3 DEF Unmixed, Servers
      <4>5. m.dst = m.yiaddr /\ m.dst # Bcast
        BY <4>4, <3>2, <3>3, <2>3 DEF Truthful
      <4> QED
        BY <3>1, <3>3, <4>3, <4>5 DEF AcceptsIP
    <3>5. FilterHolds'
      <4>1. CASE m.from \in Siaddr \cup BootpServers
        BY <4>1, <3>1, <3>3 DEF FilterHolds
      <4>2. CASE m.from \notin Siaddr \cup BootpServers
        BY <4>2, <3>1, <3>4 DEF FilterHolds
      <4> QED
        BY <4>1, <4>2
    <3>6. BootFromBinder'
      <4> SUFFICES ASSUME dhcp_state' = "BOUND"
                   PROVE  NetServerIP' = IF NetDHCPServerIP' \in Siaddr THEN NetDHCPServerIP' ELSE serverip
        BY DEF BootFromBinder
      <4>1. m.type = "ACK" /\ NetDHCPServerIP' = m.from
        BY <2>4 DEF HandleOffer, HandleAck, DhcpOptionsProcess
      <4>2. m.from \notin BootpServers
        BY <4>1, <2>3 DEF Truthful
      <4> QED
        BY <4>1, <4>2, <3>1, <3>4
    <3> QED
      BY <3>5, <3>6
  <2> QED
    BY <2>1, <2>2, <2>4
<1>4. CASE Again \/ Lose \/ UNCHANGED vars
  BY <1>4, <1>0 DEF Again, Lose, vars, dhcpVars, paramVars
<1>5. CASE Serves
  BY <1>5, <1>0 DEF Serves, Offers, Acknowledges, Refuses, Receives, dhcpVars, paramVars
<1>6. CASE \/ \E s \in BootpServers : BootpReplies(s)
           \/ \E s \in DhcpServers : GivenAway(s)
  BY <1>6, <1>0 DEF BootpReplies, GivenAway, dhcpVars, paramVars
<1> QED
  BY <1>1, <1>2, <1>3, <1>4, <1>5, <1>6 DEF Next, Client, Disturbs

(* The file is not loaded from a server whose offer came to nothing: between the
   offer and the next start, NetReceive drops what another server sends. *)
THEOREM AlwaysBootFromBinder == Separate /\ Unmixed => (Spec => []BootFromBinder)
<1> SUFFICES ASSUME Separate, Unmixed PROVE Spec => []BootFromBinder
  OBVIOUS
<1>1. Init => FilterHolds /\ BootFromBinder
  BY DEF Init, FilterHolds, BootFromBinder
<1>2. TypeOK /\ Transactions /\ [Next]_vars => Transactions'
  BY TransactionsStep
<1>3. TypeOK /\ Transactions /\ FilterHolds /\ BootFromBinder /\ [Next]_vars
        => FilterHolds' /\ BootFromBinder'
  BY FilterStep
<1> QED
  BY <1>1, <1>2, <1>3, TransactionsInit, TypeCorrect, PTL DEF Spec
=============================================================================
