----------------------------- MODULE TftpProofs -----------------------------
(***************************************************************************)
(* Proofs about module Tftp, for a file of any length below the wrap of    *)
(* the block counter and for any number of starts, sessions and faults.    *)
(***************************************************************************)
EXTENDS Tftp, TLAPS

USE DEF WELL_KNOWN_PORT, Sessions, Starts, File

LEMMA InitTypeOK == Init => TypeOK
  BY TftpAssumption
     DEF Init, TypeOK, Request, Closed, ToServer, ToClient

(* The packets that are sent are packets. *)
LEMMA SentPackets ==
  ASSUME TypeOK
  PROVE  /\ \A port \in Starts : Request(port) \in ToServer
         /\ \A port \in Starts, to \in Sessions, b \in Nat :
                Ack(port, to, b) \in ToServer
         /\ \A s \in Sessions, port \in Starts, b \in {0} \cup File :
                Reply(s, port, b) \in ToClient
         /\ \A port \in Starts, s \in Sessions :
                [type |-> "ERROR", port |-> port, from |-> s] \in ToClient
         /\ \A b \in File : Seq(b) \in Nat
         /\ TftpSend \in ToServer
  <1>1. \A b \in File : Seq(b) \in Nat
    BY TftpAssumption DEF Seq
  <1>2. TftpSend \in ToServer
    BY DEF TypeOK, TftpSend, Request, Ack, ToServer
  <1> QED
    BY <1>1, <1>2 DEF Request, Ack, Reply, ToServer, ToClient

(* The type of a packet tells its fields. *)
LEMMA PacketFields ==
  ASSUME TypeOK, NEW m \in net
  PROVE  /\ m.port \in Starts
         /\ m.type \in {"RRQ", "ACK", "DATA", "OACK", "ERROR"}
         /\ m.type = "ACK" => m.to \in Sessions /\ m.seq \in Nat
         /\ m.type = "DATA" => m.block \in File
         /\ m.type \in {"DATA", "OACK", "ERROR"} =>
                m.from \in Sessions /\ m \in ToClient
  BY DEF TypeOK, ToServer, ToClient

LEMMA FaultCommitted ==
  ASSUME TypeOK, faults > 0
  PROVE  faults - 1 \in 0 .. MaxFaults
  <1>1. faults \in 0 .. MaxFaults
    BY DEF TypeOK
  <1> QED
    BY <1>1, TftpAssumption

LEMMA TakeTypeOK ==
  ASSUME TypeOK, NEW m \in net, NEW dup \in BOOLEAN
  PROVE  /\ Take(m, dup) => faults' \in 0 .. MaxFaults
         /\ Rest(m, dup) \subseteq ToServer \cup ToClient
  BY TftpAssumption DEF TypeOK, Take, Rest

LEMMA NetStartAgainTypeOK ==
  ASSUME TypeOK, NEW th \in {"none", "tftp", "startAgain"}, NetStartAgain(th)
  PROVE  /\ NetState' \in {"CONTINUE", "RESTART", "SUCCESS", "FAIL"}
         /\ packetHandler' \in {"tftp", "startAgain"}
         /\ timeHandler' \in {"none", "tftp", "startAgain"}
  BY DEF TypeOK, NetStartAgain

SessionRecord == [port : {0} \cup Starts, block : {0} \cup File,
                  open : BOOLEAN, resent : BOOLEAN]

SessionTypeOK == /\ session \in [Sessions -> SessionRecord]
                 /\ \A s \in Sessions : session[s].open => session[s].port \in Starts

(* One session changes, to a record that is well typed. *)
LEMMA SessionUpdate ==
  ASSUME SessionTypeOK, NEW t \in Sessions, NEW r \in SessionRecord,
         r.open => r.port \in Starts,
         session' = [session EXCEPT ![t] = r]
  PROVE  SessionTypeOK'
  BY DEF SessionTypeOK

LEMMA SessionRearmed ==
  ASSUME SessionTypeOK, session' = Rearmed
  PROVE  SessionTypeOK'
  BY DEF SessionTypeOK, SessionRecord, Rearmed

LEMMA SessionFields ==
  ASSUME SessionTypeOK, NEW s \in Sessions
  PROVE  /\ session[s] \in SessionRecord
         /\ session[s].port \in {0} \cup Starts
         /\ session[s].block \in {0} \cup File
         /\ session[s].open \in BOOLEAN /\ session[s].resent \in BOOLEAN
         /\ session[s].open => session[s].port \in Starts
  BY DEF SessionTypeOK, SessionRecord

LEMMA HandlerTypeOK ==
  ASSUME TypeOK, NEW m \in net, NEW dup \in BOOLEAN, TftpHandler(m, dup)
  PROVE  TypeOK'
  <1>0. /\ m.from \in Sessions
        /\ m.type = "DATA" => m.block \in File /\ Seq(m.block) \in Nat
        /\ Rest(m, dup) \subseteq ToServer \cup ToClient
        /\ Take(m, dup) => faults' \in 0 .. MaxFaults
    BY PacketFields, SentPackets, TakeTypeOK
       DEF TftpHandler, HandleOack, HandleBadFirst, HandleSameBlock,
           HandleBlock, HandleError
  <1>1. CASE HandleOack(m, dup)
    <2>1. Ack(TftpOurPort, m.from, TftpBlock) \in ToServer
      BY <1>0, SentPackets DEF TypeOK
    <2> QED
      BY <1>0, <1>1, <2>1 DEF TypeOK, HandleOack, loopVars, memVars
  <1>2. CASE HandleBadFirst(m, dup)
    <2>1. /\ NetState' \in {"CONTINUE", "RESTART", "SUCCESS", "FAIL"}
          /\ packetHandler' \in {"tftp", "startAgain"}
          /\ timeHandler' \in {"none", "tftp", "startAgain"}
      BY <1>2, NetStartAgainTypeOK DEF HandleBadFirst, TypeOK
    <2> QED
      BY <1>0, <1>2, <2>1 DEF TypeOK, HandleBadFirst, memVars
  <1>3. CASE HandleSameBlock(m, dup)
    <2>1. WrapOffset(Seq(m.block)) \in Nat
      BY TftpAssumption DEF TypeOK, WrapOffset
    <2> QED
      BY <1>0, <1>3, <2>1 DEF TypeOK, HandleSameBlock, loopVars, memVars
  <1>4. CASE HandleBlock(m, dup)
    <2>1. Ack(TftpOurPort, m.from, Seq(m.block)) \in ToServer
      BY <1>0, <1>4, SentPackets DEF TypeOK, HandleBlock
    <2>2. TftpBlockWrapOffset' \in Nat
      BY <1>4, TftpAssumption DEF TypeOK, HandleBlock, WrapOffset
    <2>3. /\ mem' \in [File -> {0} \cup File]
          /\ NetBootFileXferSize' \in Nat
      BY <1>0, <1>4, <2>2 DEF TypeOK, HandleBlock, StoreBlock
    <2> QED
      BY <1>0, <1>4, <2>1, <2>2, <2>3 DEF TypeOK, HandleBlock
  <1>5. CASE HandleError(m, dup)
    <2>1. /\ NetState' \in {"CONTINUE", "RESTART", "SUCCESS", "FAIL"}
          /\ packetHandler' \in {"tftp", "startAgain"}
          /\ timeHandler' \in {"none", "tftp", "startAgain"}
      BY <1>5, NetStartAgainTypeOK DEF HandleError, TypeOK
    <2> QED
      BY <1>0, <1>5, <2>1 DEF TypeOK, HandleError, tftpVars, memVars
  <1> QED
    BY <1>1, <1>2, <1>3, <1>4, <1>5 DEF TftpHandler

LEMMA LoopTypeOK ==
  ASSUME TypeOK,
         \/ TftpTimeout \/ startAgainTimeout \/ NoTimeout
         \/ Restart \/ EndOfIteration
  PROVE  TypeOK'
  <1>1. CASE TftpTimeout
    <2>1. /\ NetState' \in {"CONTINUE", "RESTART", "SUCCESS", "FAIL"}
          /\ packetHandler' \in {"tftp", "startAgain"}
          /\ timeHandler' \in {"none", "tftp", "startAgain"}
          /\ net' \subseteq ToServer \cup ToClient
      BY <1>1, SentPackets, NetStartAgainTypeOK DEF TftpTimeout, TypeOK
    <2>2. TftpTimeoutCount' \in Nat
      BY <1>1 DEF TftpTimeout, TypeOK
    <2>3. SessionTypeOK'
      BY <1>1, SessionRearmed DEF TypeOK, SessionTypeOK, SessionRecord, TftpTimeout
    <2> QED
      BY <1>1, <2>1, <2>2, <2>3
         DEF TypeOK, SessionTypeOK, SessionRecord, TftpTimeout, memVars
  <1>2. CASE startAgainTimeout
    BY <1>2 DEF TypeOK, startAgainTimeout, tftpVars, memVars
  <1>3. CASE NoTimeout
    BY <1>3 DEF TypeOK, NoTimeout, tftpVars, memVars
  <1>4. CASE Restart
    <2>1. /\ TftpOurPort + 1 \in Starts
          /\ Request(TftpOurPort + 1) \in ToServer
      BY <1>4, SentPackets, TftpAssumption DEF TypeOK, Restart
    <2> QED
      BY <1>4, <2>1 DEF TypeOK, Restart, TftpStart
  <1>5. CASE EndOfIteration
    BY <1>5 DEF TypeOK, EndOfIteration, tftpVars, memVars
  <1> QED
    BY <1>1, <1>2, <1>3, <1>4, <1>5

LEMMA ServerTypeOK ==
  ASSUME TypeOK, Server
  PROVE  TypeOK'
  <1>0. SessionTypeOK
    BY DEF TypeOK, SessionTypeOK, SessionRecord
  <1>q. ASSUME SessionTypeOK', net' \subseteq ToServer \cup ToClient,
               faults' \in 0 .. MaxFaults, UNCHANGED clientVars
        PROVE  TypeOK'
    BY <1>q DEF TypeOK, SessionTypeOK, SessionRecord,
                clientVars, loopVars, tftpVars, memVars
  <1>1. ASSUME NEW m \in net, NEW s \in Sessions, NEW b \in {0, 1},
               NEW dup \in BOOLEAN, OpenSession(m, s, b, dup)
        PROVE  TypeOK'
    <2>1. m.port \in Starts /\ b \in {0} \cup File
      BY PacketFields, TftpAssumption
    <2>2. /\ Reply(s, m.port, b) \in ToClient
          /\ Rest(m, dup) \subseteq ToServer \cup ToClient
          /\ faults' \in 0 .. MaxFaults
      BY <1>1, <2>1, SentPackets, TakeTypeOK DEF OpenSession
    <2>3. SessionTypeOK'
      BY <1>0, <1>1, <2>1, SessionUpdate DEF OpenSession, SessionRecord
    <2> QED
      BY <1>1, <1>q, <2>2, <2>3 DEF OpenSession
  <1>2. ASSUME NEW m \in net, NEW s \in Sessions, RefuseRequest(m, s)
        PROVE  TypeOK'
    <2>1. /\ m.port \in Starts
          /\ [type |-> "ERROR", port |-> m.port, from |-> s] \in ToClient
      BY PacketFields, SentPackets
    <2>2. faults' \in 0 .. MaxFaults /\ net' \subseteq ToServer \cup ToClient
      BY <1>2, <2>1, FaultCommitted DEF TypeOK, RefuseRequest
    <2>3. [session[s] EXCEPT !.port = m.port] \in SessionRecord
      BY <1>0, <2>1, SessionFields DEF SessionRecord
    <2>4. SessionTypeOK'
      BY <1>0, <1>2, <2>1, <2>3, SessionFields DEF RefuseRequest, SessionTypeOK, SessionRecord
    <2> QED
      BY <1>2, <1>q, <2>2, <2>4 DEF RefuseRequest
  <1>3. ASSUME NEW m \in net, NEW dup \in BOOLEAN, NextBlock(m, dup)
        PROVE  TypeOK'
    <2>1. /\ m.to \in Sessions
          /\ session[m.to].port \in Starts
          /\ session[m.to].block + 1 \in File
      BY <1>0, <1>3, PacketFields, SessionFields, TftpAssumption
         DEF NextBlock, Acknowledged
    <2>2. /\ Reply(m.to, session[m.to].port, session[m.to].block + 1) \in ToClient
          /\ Rest(m, dup) \subseteq ToServer \cup ToClient
          /\ faults' \in 0 .. MaxFaults
      BY <1>3, <2>1, SentPackets, TakeTypeOK DEF NextBlock
    <2>3. SessionTypeOK'
      <3> DEFINE r == [session[m.to] EXCEPT !.block = @ + 1, !.resent = FALSE]
      <3>1. session' = [session EXCEPT ![m.to] = r]
        BY <1>0, <1>3, <2>1 DEF NextBlock, SessionTypeOK
      <3>2. /\ r \in SessionRecord /\ r.port = session[m.to].port
        BY <1>0, <2>1, SessionFields DEF SessionRecord
      <3> HIDE DEF r
      <3> QED BY <1>0, <2>1, <3>1, <3>2, SessionUpdate
    <2> QED
      BY <1>3, <1>q, <2>2, <2>3 DEF NextBlock
  <1>4. ASSUME NEW m \in net, LastBlockAcknowledged(m) \/ StaleAck(m)
        PROVE  TypeOK'
    <2>0. m.to \in Sessions
      BY <1>4, PacketFields DEF LastBlockAcknowledged, StaleAck
    <2>1. SessionTypeOK'
      <3>1. CASE LastBlockAcknowledged(m)
        <4> DEFINE r == [session[m.to] EXCEPT !.open = FALSE]
        <4>1. session' = [session EXCEPT ![m.to] = r]
          BY <1>0, <2>0, <3>1 DEF LastBlockAcknowledged, SessionTypeOK
        <4>2. r \in SessionRecord /\ ~ r.open
          BY <1>0, <2>0, SessionFields DEF SessionRecord
        <4> HIDE DEF r
        <4> QED BY <1>0, <2>0, <4>1, <4>2, SessionUpdate
      <3>2. CASE StaleAck(m)
        BY <1>0, <3>2 DEF StaleAck, SessionTypeOK
      <3> QED
        BY <1>4, <3>1, <3>2
    <2> QED
      BY <1>4, <1>q, <2>1 DEF TypeOK, LastBlockAcknowledged, StaleAck
  <1>5. ASSUME NEW s \in Sessions, ServerTimeout(s)
        PROVE  TypeOK'
    <2>1. Reply(s, session[s].port, session[s].block) \in ToClient
      BY <1>0, <1>5, SessionFields, SentPackets DEF ServerTimeout
    <2>2. SessionTypeOK'
      BY <1>0, <1>5, TftpAssumption DEF ServerTimeout, SessionTypeOK, SessionRecord
    <2> QED
      BY <1>5, <1>q, <2>1, <2>2 DEF TypeOK, ServerTimeout
  <1>6. ASSUME NEW s \in Sessions, ServerGivesUp(s)
        PROVE  TypeOK'
    <2>1. SessionTypeOK'
      BY <1>0, <1>6 DEF ServerGivesUp, SessionTypeOK, SessionRecord
    <2>2. faults' \in 0 .. MaxFaults
      BY <1>6, FaultCommitted DEF ServerGivesUp
    <2> QED
      BY <1>6, <1>q, <2>1, <2>2 DEF TypeOK, ServerGivesUp
  <1> QED
    BY <1>1, <1>2, <1>3, <1>4, <1>5, <1>6 DEF Server

LEMMA NextTypeOK == TypeOK /\ [Next]_vars => TypeOK'
  <1> SUFFICES ASSUME TypeOK, [Next]_vars PROVE TypeOK'
    OBVIOUS
  <1> USE DEF clientVars, loopVars, tftpVars, memVars
  <1>1. CASE UNCHANGED vars
    BY <1>1 DEF TypeOK, vars
  <1>2. CASE Client
    <2>1. ASSUME NEW m \in net, HandleOther(m) PROVE TypeOK'
      BY <2>1 DEF TypeOK, HandleOther
    <2> QED
      BY <1>2, <2>1, HandlerTypeOK, LoopTypeOK DEF Client
  <1>3. ASSUME NEW m \in net, Lose(m) PROVE TypeOK'
    <2>1. SessionTypeOK'
      BY <1>3, SessionRearmed DEF TypeOK, SessionTypeOK, SessionRecord, Lose
    <2> QED
      BY <1>3, <2>1, FaultCommitted DEF TypeOK, SessionTypeOK, SessionRecord, Lose
  <1> QED
    BY <1>1, <1>2, <1>3, ServerTypeOK DEF Next, Finished

(* The type invariant: what the handlers of tftp.c and the loop of net.c
   assign stays within the range of every variable.                        *)
THEOREM TypeCorrect == Spec => []TypeOK
  BY InitTypeOK, NextTypeOK, PTL DEF Spec

-----------------------------------------------------------------------------
(* The download is complete.  NBlocks < SequenceSize throughout: beyond it
   the block number wraps, and the code's treatment of repeated packets no
   longer keeps the image (see SameBlockIgnored).                           *)

MemGrows == \A i \in File : mem[i] = i => mem'[i] = i

(* What is in place stays in place. *)
LEMMA StoredGrows ==
  ASSUME TftpAssumption, MemGrows, NEW b \in Int, b <= NBlocks, Stored(b)
  PROVE  Stored(b)'
  BY DEF MemGrows, Stored

LEMMA KnownGrows ==
  ASSUME MemGrows, NEW b, Known(b)
  PROVE  Known(b)'
  BY StoredGrows, TftpAssumption DEF Known

LEMMA SeqIdentity ==
  ASSUME NBlocks < SequenceSize, NEW b \in {0} \cup File
  PROVE  Seq(b) = b
  BY TftpAssumption DEF Seq

(* The packets in the network keep what they promise as memory grows. *)
LEMMA PacketsGrow ==
  ASSUME TypeOK, MemGrows, UNCHANGED TftpOurPort, NEW m \in net
  PROVE  /\ Follows(m) => Follows(m)'
         /\ Deserved(m) => Deserved(m)'
  <1>1. m.type = "DATA" => m.block - 1 \in Int /\ m.block - 1 <= NBlocks
    BY PacketFields, TftpAssumption
  <1>2. Follows(m) => Follows(m)'
    BY <1>1, StoredGrows, TftpAssumption DEF Follows
  <1>3. Deserved(m) => Deserved(m)'
    BY KnownGrows DEF Deserved
  <1> QED
    BY <1>2, <1>3

(* What the acknowledgements and the blocks of this start can be relied on
   for, between TftpStart and the first NetStartAgain.                     *)
Trusted == /\ Known(TftpBlock)
           /\ TftpState = "DATA" => Known(TftpLastBlock)
           /\ \A m \in net : Follows(m) /\ Deserved(m)
           /\ \A s \in Sessions : session[s].port = TftpOurPort =>
                                   Stored(session[s].block - 1)

Inv == TypeOK /\ InOrder

LEMMA InitInOrder == Init => InOrder
  <1> SUFFICES ASSUME Init PROVE InOrder
    OBVIOUS
  <1>1. Stored(0) /\ Stored(-1)
    BY DEF Stored
  <1> QED
    BY <1>1, TftpAssumption
       DEF Init, InOrder, Placed, Phases, FreshPorts, Clean, Draining, Known,
           Follows, Deserved, Request, Closed

(* A block the handler takes is stored in its place, after all before it. *)
LEMMA BlockStored ==
  ASSUME NBlocks < SequenceSize, Inv, NEW m \in net, NEW dup \in BOOLEAN,
         HandleBlock(m, dup)
  PROVE  /\ m.block \in File /\ Seq(m.block) = m.block
         /\ Stored(m.block - 1)
         /\ mem' = [i \in File |-> IF i = m.block THEN m.block ELSE mem[i]]
         /\ NetBootFileXferSize' = IF NetBootFileXferSize < m.block THEN m.block
                                   ELSE NetBootFileXferSize
         /\ MemGrows
         /\ Known(m.block)'
         /\ Placed'
  <1>1. /\ m.block \in File /\ Seq(m.block) = m.block
        /\ m.type = "DATA" /\ m.port = TftpOurPort
    BY PacketFields, SeqIdentity DEF Inv, HandleBlock, Accepts
  <1>2. Stored(m.block - 1)
    <2>1. CASE pc = "rx"
      BY <1>1, <2>1 DEF Inv, InOrder, Clean, Follows, HandleBlock, Accepts
    <2>2. CASE pc = "drain" /\ m \in ring
      BY <1>1, <2>2 DEF Inv, InOrder, Draining, Follows, HandleBlock, Accepts
    <2> QED
      BY <2>1, <2>2 DEF HandleBlock, Accepts, Receives
  <1>3. TftpBlockWrapOffset = 0 /\ TftpBlockWrapOffset' = 0
    BY <1>1, TftpAssumption DEF Inv, InOrder, Placed, HandleBlock, WrapOffset
  <1>4. /\ mem' = [i \in File |-> IF i = m.block THEN m.block ELSE mem[i]]
        /\ NetBootFileXferSize' = IF NetBootFileXferSize < m.block THEN m.block
                                  ELSE NetBootFileXferSize
    <2>1. Seq(m.block) + TftpBlockWrapOffset' = m.block
      BY <1>1, <1>3, TftpAssumption
    <2>2. StoreBlock(m.block, m.block)
      BY <2>1 DEF HandleBlock
    <2> QED
      BY <2>2 DEF StoreBlock
  <1>5. MemGrows
    BY <1>4 DEF MemGrows
  <1>6. Known(m.block)'
    <2>1. Stored(m.block - 1)'
      BY <1>1, <1>2, <1>5, StoredGrows, TftpAssumption
    <2>2. mem'[m.block] = m.block
      BY <1>1, <1>4
    <2>3. \A i \in 1 .. m.block : i = m.block \/ i \in 1 .. m.block - 1
      BY <1>1, TftpAssumption
    <2> QED
      BY <1>1, <2>1, <2>2, <2>3 DEF Known, Stored
  <1>7. Placed'
    <2>1. NetBootFileXferSize' <= NBlocks /\ \A i \in File : mem'[i] \in {0, i}
      BY <1>1, <1>4, TftpAssumption DEF Inv, InOrder, Placed, TypeOK
    <2>2. ASSUME m.block = NBlocks
          PROVE  Stored(NBlocks)' /\ NetBootFileXferSize' = NBlocks
      BY <1>4, <1>6, <2>2, TftpAssumption DEF Known, Inv, InOrder, Placed, TypeOK
    <2>3. ASSUME m.block # NBlocks, NetState = "SUCCESS"
          PROVE  Stored(NBlocks)' /\ NetBootFileXferSize' = NBlocks
      BY <1>1, <1>4, <1>5, <2>3, StoredGrows, TftpAssumption
         DEF Inv, InOrder, Placed
    <2> QED
      BY <1>3, <2>1, <2>2, <2>3 DEF Placed, HandleBlock
  <1> QED
    BY <1>1, <1>2, <1>4, <1>5, <1>6, <1>7

(* The handler: one case per kind of packet. *)
LEMMA HandlerInOrder ==
  ASSUME NBlocks < SequenceSize, Inv, NEW m \in net, NEW dup \in BOOLEAN,
         TftpHandler(m, dup)
  PROVE  InOrder'
  <1>0. /\ TypeOK /\ InOrder /\ packetHandler = "tftp" /\ m.port = TftpOurPort
        /\ Receives(m)
        /\ m.type = "DATA" => m.block \in File /\ Seq(m.block) = m.block
        /\ Rest(m, dup) \subseteq net
    BY PacketFields, SeqIdentity
       DEF Inv, TftpHandler, HandleOack, HandleBadFirst, HandleSameBlock,
           HandleBlock, HandleError, Accepts, Rest
  <1>1. Clean => Trusted
    BY <1>0 DEF InOrder, Trusted
  <1>2. CASE HandleOack(m, dup)
    <2>1. MemGrows /\ UNCHANGED <<loopVars, memVars, TftpOurPort, TftpBlock,
                                   TftpLastBlock, TftpBlockWrapOffset, session>>
      BY <1>2 DEF HandleOack, MemGrows, memVars
    <2>2. Placed' /\ Phases' /\ FreshPorts'
      BY <1>0, <1>2, <2>1, PacketFields
         DEF InOrder, Placed, Stored, Phases, Draining, FreshPorts, HandleOack,
             Ack, loopVars, memVars, TypeOK
    <2>3. ASSUME Clean' PROVE Trusted'
      <3>1. Clean /\ Trusted
        BY <1>1, <2>1, <2>3 DEF Clean, loopVars
      <3>2. \A x \in net' : Follows(x)' /\ Deserved(x)'
        BY <1>0, <1>2, <2>1, <3>1, PacketsGrow, KnownGrows
           DEF Trusted, HandleOack, Ack, Follows, Deserved
      <3> QED
        BY <1>2, <2>1, <3>1, <3>2 DEF Trusted, HandleOack, Known, Stored, memVars
    <2>4. ASSUME Draining' PROVE \A x \in ring' : Follows(x)'
      BY <1>0, <2>1, <2>4 DEF InOrder, Draining, Follows, Stored, loopVars, memVars
    <2> QED
      BY <2>2, <2>3, <2>4 DEF InOrder, Trusted
  <1>3. CASE HandleBadFirst(m, dup) \/ HandleError(m, dup)
    <2>1. /\ UNCHANGED <<mem, NetBootFileXferSize, TftpOurPort, session>>
          /\ TftpBlockWrapOffset' = 0
          /\ NetStartAgain(timeHandler)
          /\ pc' = "drain" /\ net' = Rest(m, dup)
          /\ ring' = Rest(m, dup) \cap (IF pc = "drain" THEN ring ELSE ToClient)
      BY <1>0, <1>3 DEF HandleBadFirst, HandleError, memVars, tftpVars,
                        InOrder, Placed
    <2>2. /\ NetState' = "SUCCESS" => NetState = "SUCCESS"
          /\ packetHandler' = "tftp" => NetState' # "CONTINUE"
      BY <1>0, <2>1 DEF NetStartAgain
    <2>3. Placed' /\ Phases' /\ FreshPorts'
      BY <1>0, <2>1, <2>2 DEF InOrder, Placed, Stored, Phases, Draining, FreshPorts
    <2>4. \A x \in ring' : Follows(x)'
      BY <1>0, <1>1, <2>1
         DEF InOrder, Draining, Clean, Trusted, Follows, Stored, Receives
    <2> QED
      BY <2>1, <2>3, <2>4 DEF InOrder, Clean
  <1>4. CASE HandleSameBlock(m, dup)
    <2>1. /\ UNCHANGED <<loopVars, memVars, TftpOurPort, TftpState,
                         TftpLastBlock, session>>
          /\ TftpBlock' = TftpLastBlock /\ TftpState = "DATA"
          /\ TftpBlockWrapOffset' = 0
          /\ net' \subseteq net
      BY <1>0, <1>4, TftpAssumption
         DEF HandleSameBlock, WrapOffset, FirstBlock, InOrder, Placed, TypeOK
    <2> QED
      BY <1>0, <2>1
         DEF InOrder, Placed, Phases, FreshPorts, Clean, Draining, Follows,
             Deserved, Known, Stored, loopVars, memVars
  <1>5. CASE HandleBlock(m, dup)
    <2>1. /\ MemGrows /\ Known(m.block)' /\ Placed'
          /\ UNCHANGED <<pc, ring, packetHandler, TftpOurPort, session>>
          /\ NetState' \in {NetState, "SUCCESS"}
          /\ TftpBlock' = m.block /\ TftpLastBlock' = m.block
          /\ net' = Rest(m, dup) \cup {Ack(TftpOurPort, m.from, m.block)}
      BY <1>0, <1>5, BlockStored DEF HandleBlock
    <2>2. Phases' /\ FreshPorts'
      <3>1. Phases'
        BY <1>0, <2>1 DEF InOrder, Phases, Draining
      <3>2. FreshPorts'
        BY <1>0, <2>1 DEF InOrder, FreshPorts, Ack, TypeOK
      <3> QED BY <3>1, <3>2
    <2>3. ASSUME Clean' PROVE Trusted'
      <3>1. Clean /\ Trusted
        BY <1>0, <1>1, <2>1, <2>3 DEF Clean, Receives
      <3>2. \A x \in net' : Follows(x)' /\ Deserved(x)'
        BY <1>0, <2>1, <3>1, PacketsGrow
           DEF Trusted, Ack, Follows, Deserved
      <3>3. \A s \in Sessions : session[s].block - 1 \in Int
                              /\ session[s].block - 1 <= NBlocks
        <4>1. SessionTypeOK
          BY <1>0 DEF TypeOK, SessionTypeOK, SessionRecord
        <4>2. \A s \in Sessions : session[s].block \in {0} \cup File
          BY <4>1, SessionFields
        <4> QED BY <4>2, TftpAssumption
      <3>4. \A s \in Sessions : session'[s].port = TftpOurPort' =>
                               Stored(session[s].block - 1)'
        BY <2>1, <3>1, <3>3, StoredGrows, TftpAssumption DEF Trusted
      <3> QED
        BY <2>1, <3>2, <3>4 DEF Trusted
    <2>4. ASSUME Draining', NEW x \in ring' PROVE Follows(x)'
      <3>1. Follows(x) /\ x \in ToClient
        BY <1>0, <2>1, <2>4 DEF InOrder, Draining, TypeOK
      <3>2. x.type = "DATA" => x.block - 1 \in Int /\ x.block - 1 <= NBlocks
        BY <3>1, TftpAssumption DEF ToClient
      <3> QED
        BY <2>1, <3>1, <3>2, StoredGrows, TftpAssumption DEF Follows
    <2> QED
      BY <2>1, <2>2, <2>3, <2>4 DEF InOrder, Trusted
  <1> QED
    BY <1>2, <1>3, <1>4, <1>5 DEF TftpHandler

(* The rest of a loop iteration. *)
LEMMA LoopInOrder ==
  ASSUME Inv,
         \/ TftpTimeout \/ startAgainTimeout \/ NoTimeout
         \/ Restart \/ EndOfIteration
  PROVE  InOrder'
  <1>0. TypeOK /\ InOrder
    BY DEF Inv
  <1> USE DEF memVars, tftpVars
  <1>1. CASE TftpTimeout
    <2>1. /\ UNCHANGED <<mem, NetBootFileXferSize, TftpBlockWrapOffset, TftpState,
                         TftpOurPort, TftpBlock, TftpLastBlock>>
          /\ pc' = "switch" /\ session' = Rearmed
          /\ net' \subseteq net \cup {TftpSend}
      BY <1>1 DEF TftpTimeout
    <2>2. NetState' \in {"CONTINUE", "SUCCESS"} => NetState' = NetState
      BY <1>1 DEF TftpTimeout, NetStartAgain
    <2>3. \A s \in Sessions : /\ session'[s].port = session[s].port
                             /\ session'[s].block = session[s].block
      BY <1>0, <2>1 DEF Rearmed, TypeOK
    <2>4. Placed' /\ Phases' /\ FreshPorts' /\ ~ Draining'
      BY <1>0, <2>1, <2>2, <2>3
         DEF InOrder, Placed, Stored, Phases, Draining, FreshPorts, TftpSend,
             Request, Ack, TypeOK
    <2>5. ASSUME Clean' PROVE Trusted'
      <3>1. NetState = "CONTINUE" /\ packetHandler = "tftp" /\ pc = "rx"
        BY <1>0, <1>1, <2>2, <2>5
           DEF TftpTimeout, NetStartAgain, Clean, InOrder, Phases, Draining
      <3>2. Trusted
        BY <1>0, <3>1 DEF InOrder, Clean, Trusted
      <3>3. \A x : x = TftpSend => Follows(x)' /\ Deserved(x)'
        BY <2>1, <3>2 DEF Trusted, TftpSend, Request, Ack, Follows, Deserved,
                          Known, Stored
      <3>4. \A x \in net : Follows(x)' /\ Deserved(x)'
        BY <2>1, <3>2 DEF Trusted, Follows, Deserved, Known, Stored
      <3>5. \A x \in net' : Follows(x)' /\ Deserved(x)'
        BY <2>1, <3>3, <3>4
      <3>6. Known(TftpBlock)' /\ (TftpState' = "DATA" => Known(TftpLastBlock)')
        BY <2>1, <3>2 DEF Trusted, Known, Stored
      <3>7. (\A s \in Sessions : session[s].port = TftpOurPort =>
                               Stored(session[s].block - 1))'
        BY <2>1, <2>3, <3>2 DEF Trusted, Stored
      <3> QED
        BY <3>5, <3>6, <3>7 DEF Trusted
    <2> QED
      BY <2>4, <2>5 DEF InOrder, Trusted
  <1>2. CASE startAgainTimeout \/ NoTimeout
    <2>1. ~ Clean' /\ ~ Draining'
      BY <1>0, <1>2 DEF startAgainTimeout, NoTimeout, Clean, Draining,
                        InOrder, Phases
    <2> QED
      BY <1>0, <1>2, <2>1
         DEF InOrder, Placed, Stored, Phases, Draining, FreshPorts,
             startAgainTimeout, NoTimeout
  <1>3. CASE Restart
    <2>1. /\ mem' = mem /\ TftpBlockWrapOffset' = TftpBlockWrapOffset
          /\ NetBootFileXferSize' = 0 /\ NetState' = "CONTINUE" /\ pc' = "rx"
          /\ TftpState' = "RRQ" /\ TftpBlock' = 0 /\ session' = session
          /\ TftpOurPort' = TftpOurPort + 1
          /\ net' = net \cup {Request(TftpOurPort + 1)}
      BY <1>3 DEF Restart, TftpStart
    <2>2. Placed' /\ Phases' /\ ~ Draining'
      BY <1>0, <2>1, TftpAssumption DEF InOrder, Placed, Phases, Draining
    <2>3. /\ \A x \in net : x.port < TftpOurPort'
          /\ \A s \in Sessions : session'[s].port < TftpOurPort'
      BY <1>0, <2>1, PacketFields DEF InOrder, FreshPorts, TypeOK
    <2>4. FreshPorts'
      BY <1>0, <2>1, <2>3, PacketFields DEF FreshPorts, Request, TypeOK
    <2>5. Trusted'
      <3>1. Stored(0)'
        BY DEF Stored
      <3>2. \A x \in net' : Follows(x)' /\ Deserved(x)'
        BY <1>0, <2>1, <2>3, PacketFields DEF Request, Follows, Deserved, TypeOK
      <3>3. \A s \in Sessions : session'[s].port # TftpOurPort'
        BY <1>0, <2>1, <2>3 DEF TypeOK
      <3> QED
        BY <2>1, <3>1, <3>2, <3>3 DEF Trusted, Known
    <2> QED
      BY <2>2, <2>4, <2>5 DEF InOrder, Trusted
  <1>4. CASE EndOfIteration
    <2>1. Clean' => Clean
      BY <1>4 DEF EndOfIteration, Clean
    <2>2. ~ Draining'
      BY <1>4 DEF EndOfIteration, Draining
    <2> QED
      BY <1>0, <1>4, <2>1, <2>2
         DEF InOrder, Placed, Stored, Phases, FreshPorts, Known, Follows,
             Deserved, EndOfIteration
  <1> QED
    BY <1>1, <1>2, <1>3, <1>4

(* The server's and the network's steps leave the client alone: it is enough
   that what they add to net and to a session can be relied on.             *)
LEMMA OutsideStep ==
  ASSUME Inv, UNCHANGED clientVars,
         \A x \in net' : x \in net \/ ( /\ x.port <= TftpOurPort
                                        /\ x.type # "ACK"
                                        /\ Clean => Follows(x)),
         \A s \in Sessions :
             /\ session'[s].port <= TftpOurPort
             /\ Clean /\ session'[s].port = TftpOurPort =>
                    Stored(session'[s].block - 1)
  PROVE  InOrder'
  <1>0. InOrder
    BY DEF Inv
  <1> QED
    BY <1>0 DEF InOrder, Placed, Phases, FreshPorts, Clean, Draining, Known,
                Stored, Follows, Deserved, clientVars, loopVars, tftpVars, memVars

LEMMA ServerInOrder ==
  ASSUME NBlocks < SequenceSize, Inv, Server
  PROVE  InOrder'
  <1>0. TypeOK /\ InOrder /\ SessionTypeOK
    BY DEF Inv, TypeOK, SessionTypeOK, SessionRecord
  <1>1. /\ \A x \in net : x.port <= TftpOurPort
        /\ \A s \in Sessions :
              /\ session[s].port <= TftpOurPort
              /\ Clean /\ session[s].port = TftpOurPort =>
                    Stored(session[s].block - 1)
        /\ Clean => \A x \in net : Deserved(x)
    BY <1>0 DEF InOrder, FreshPorts
  <1>2. Stored(0) /\ Stored(-1)
    BY DEF Stored
  <1>3. ASSUME NEW m \in net, NEW s \in Sessions, NEW b \in {0, 1},
               NEW dup \in BOOLEAN, OpenSession(m, s, b, dup)
        PROVE  InOrder'
    <2>1. Follows(Reply(s, m.port, b)) /\ Reply(s, m.port, b).port = m.port
          /\ Reply(s, m.port, b).type # "ACK"
      BY <1>2 DEF Follows, Reply
    <2>2. net' \subseteq net \cup {Reply(s, m.port, b)}
      BY <1>3 DEF OpenSession, Rest
    <2>3. \A t \in Sessions :
             \/ session'[t] = session[t]
             \/ session'[t].port = m.port /\ session'[t].block = b
      BY <1>0, <1>3 DEF OpenSession, SessionTypeOK
    <2> QED
      BY <1>1, <1>2, <1>3, <2>1, <2>2, <2>3, OutsideStep DEF OpenSession
  <1>4. ASSUME NEW m \in net, NEW s \in Sessions, RefuseRequest(m, s)
        PROVE  InOrder'
    <2>1. \A t \in Sessions :
             \/ session'[t] = session[t]
             \/ session'[t].port = m.port /\ session'[t].block = 0
      BY <1>0, <1>4 DEF RefuseRequest, NextSession, Closed, SessionTypeOK, SessionRecord
    <2>2. \A x \in net' : \/ x \in net
                          \/ x.port = m.port /\ x.type = "ERROR"
      BY <1>4 DEF RefuseRequest
    <2>3. \A x \in net' : \/ x \in net
                          \/ /\ x.port <= TftpOurPort /\ x.type # "ACK"
                             /\ Follows(x)
      BY <1>1, <2>2 DEF Follows
    <2>4. \A t \in Sessions :
             /\ session'[t].port <= TftpOurPort
             /\ Clean /\ session'[t].port = TftpOurPort =>
                    Stored(session'[t].block - 1)
      BY <1>1, <1>2, <2>1
    <2> QED
      BY <1>4, <2>3, <2>4, OutsideStep DEF RefuseRequest
  <1>5. ASSUME NEW m \in net, NEW dup \in BOOLEAN, NextBlock(m, dup)
        PROVE  InOrder'
    <2> DEFINE b == session[m.to].block
    <2>1. /\ m.to \in Sessions /\ m.port = session[m.to].port /\ m.type = "ACK"
          /\ b \in {0} \cup File /\ m.seq = b
      BY <1>0, <1>5, PacketFields, SessionFields, SeqIdentity
         DEF NextBlock, Acknowledged
    <2>2. Clean /\ m.port = TftpOurPort => Stored(b)
      BY <1>1, <2>1 DEF Deserved, Known
    <2>3. (b + 1) - 1 = b /\ b + 1 # 0
      BY <2>1, TftpAssumption
    <2>4. \A x \in net' : \/ x \in net
                          \/ /\ x.port = m.port /\ x.type = "DATA"
                             /\ x.block = b + 1
      BY <1>5, <2>1, <2>3 DEF NextBlock, Reply, Rest
    <2>5. \A t \in Sessions :
             \/ session'[t] = session[t]
             \/ session'[t].port = m.port /\ session'[t].block = b + 1
      BY <1>0, <1>5, <2>1 DEF NextBlock, SessionTypeOK, SessionRecord
    <2>6. \A x \in net' : x \in net \/ (Clean => Follows(x))
      BY <2>2, <2>3, <2>4 DEF Follows
    <2>7. \A t \in Sessions :
             Clean /\ session'[t].port = TftpOurPort => Stored(session'[t].block - 1)
      BY <1>1, <2>2, <2>3, <2>5
    <2>8. /\ \A x \in net' : x \in net \/ (x.port <= TftpOurPort /\ x.type # "ACK")
          /\ \A t \in Sessions : session'[t].port <= TftpOurPort
      BY <1>1, <2>4, <2>5
    <2> QED
      BY <1>5, <2>6, <2>7, <2>8, OutsideStep DEF NextBlock
  <1>6. ASSUME NEW m \in net, LastBlockAcknowledged(m) \/ StaleAck(m)
        PROVE  InOrder'
    <2>0. m.to \in Sessions
      BY <1>0, <1>6, PacketFields DEF LastBlockAcknowledged, StaleAck
    <2>1. \A t \in Sessions : /\ session'[t].port = session[t].port
                             /\ session'[t].block = session[t].block
      <3>1. CASE LastBlockAcknowledged(m)
        BY <1>0, <2>0, <3>1 DEF LastBlockAcknowledged, SessionTypeOK, SessionRecord
      <3>2. CASE StaleAck(m)
        BY <3>2 DEF StaleAck
      <3> QED
        BY <1>6, <3>1, <3>2
    <2> QED
      BY <1>1, <1>6, <2>1, OutsideStep DEF LastBlockAcknowledged, StaleAck
  <1>7. ASSUME NEW s \in Sessions, ServerTimeout(s) \/ ServerGivesUp(s)
        PROVE  InOrder'
    <2>1. \A t \in Sessions : /\ session'[t].port = session[t].port
                             /\ session'[t].block = session[t].block
      <3>1. CASE ServerTimeout(s)
        BY <1>0, <3>1 DEF ServerTimeout, SessionTypeOK, SessionRecord
      <3>2. CASE ServerGivesUp(s)
        BY <1>0, <3>2 DEF ServerGivesUp, SessionTypeOK, SessionRecord
      <3> QED
        BY <1>7, <3>1, <3>2
    <2>2. \A x \in net' : \/ x \in net
                          \/ /\ x.port = session[s].port
                             /\ \/ x.type = "OACK"
                                \/ x.type = "DATA" /\ x.block = session[s].block
      BY <1>7 DEF ServerTimeout, ServerGivesUp, Reply
    <2>3. \A x \in net' : x \in net \/ (Clean => Follows(x))
      BY <1>1, <2>2 DEF Follows
    <2> QED
      BY <1>1, <1>7, <2>1, <2>2, <2>3, OutsideStep DEF ServerTimeout, ServerGivesUp
  <1> QED
    BY <1>3, <1>4, <1>5, <1>6, <1>7 DEF Server

LEMMA NextInOrder ==
  ASSUME NBlocks < SequenceSize, Inv, [Next]_vars
  PROVE  InOrder'
  <1>0. TypeOK /\ InOrder
    BY DEF Inv
  <1>1. CASE UNCHANGED vars
    BY <1>0, <1>1
       DEF InOrder, Placed, Phases, FreshPorts, Clean, Draining, Known, Stored,
           Follows, Deserved, vars, clientVars, loopVars, tftpVars, memVars
  <1>2. ASSUME NEW m \in net, HandleOther(m) \/ Lose(m)
        PROVE  InOrder'
    <2>1. /\ UNCHANGED clientVars /\ net' \subseteq net
          /\ session' \in {session, Rearmed}
      BY <1>2 DEF HandleOther, Lose
    <2>2. \A t \in Sessions : /\ session'[t].port = session[t].port
                             /\ session'[t].block = session[t].block
      <3>1. \A t \in Sessions : session[t] \in SessionRecord
        BY <1>0 DEF TypeOK, SessionRecord
      <3>2. CASE session' = Rearmed
        <4> SUFFICES ASSUME NEW t \in Sessions
                     PROVE  /\ session'[t].port = session[t].port
                            /\ session'[t].block = session[t].block
          OBVIOUS
        <4>1. session'[t] = [session[t] EXCEPT !.resent = FALSE] /\ session[t] \in SessionRecord
          BY <3>1, <3>2 DEF Rearmed
        <4> QED BY <4>1 DEF SessionRecord
      <3> QED BY <2>1, <3>2
    <2>3. \A t \in Sessions :
              /\ session'[t].port <= TftpOurPort
              /\ Clean /\ session'[t].port = TftpOurPort => Stored(session'[t].block - 1)
      BY <1>0, <2>2 DEF InOrder, FreshPorts
    <2> QED
      BY <2>1, <2>3, OutsideStep
  <1>3. CASE Client
    BY <1>2, <1>3, HandlerInOrder, LoopInOrder DEF Client
  <1> QED
    BY <1>1, <1>2, <1>3, ServerInOrder DEF Next, Finished

(* InOrder is the inductive strengthening of ImageComplete: for every file
   shorter than the wrap of the block counter, whatever the network and the
   server do, blocks reach the handler in order.                            *)
THEOREM AlwaysInOrder == NBlocks < SequenceSize => (Spec => []InOrder)
  <1> SUFFICES ASSUME NBlocks < SequenceSize PROVE Spec => []InOrder
    OBVIOUS
  <1>1. Init => Inv
    BY InitTypeOK, InitInOrder DEF Inv
  <1>2. Inv /\ [Next]_vars => Inv'
    BY NextTypeOK, NextInOrder DEF Inv
  <1>3. Inv => InOrder
    BY DEF Inv
  <1> QED
    BY <1>1, <1>2, <1>3, PTL DEF Spec

(* When NetLoop reports success, the whole file is at load_addr and the size
   it reports is the file's.                                                *)
THEOREM DownloadComplete == NBlocks < SequenceSize => (Spec => []ImageComplete)
  <1> SUFFICES ASSUME NBlocks < SequenceSize PROVE Spec => []ImageComplete
    OBVIOUS
  <1>1. InOrder => ImageComplete
    BY DEF InOrder, Placed, Stored, ImageComplete
  <1> QED
    BY <1>1, AlwaysInOrder, PTL

-----------------------------------------------------------------------------
(* The refinement of FileTransfer. *)

image  == {i \in File : mem[i] = i}
status == IF Running THEN "running" ELSE pc

LEMMA AbstractStep ==
  ASSUME NBlocks < SequenceSize, Inv, [Next]_vars
  PROVE  [Abstract!Next]_<<image, NetBootFileXferSize, status>>
  <1> USE DEF image, status, memVars
  <1>1. CASE /\ UNCHANGED <<mem, NetBootFileXferSize>>
             /\ (Running /\ Running') \/ UNCHANGED pc
    BY <1>1 DEF Running
  <1>2. ASSUME NEW m \in net, NEW dup \in BOOLEAN, HandleBlock(m, dup)
        PROVE  Abstract!Next
    <2> DEFINE b == m.block
    <2>1. /\ b \in File
          /\ Stored(b - 1)
          /\ mem' = [i \in File |-> IF i = b THEN b ELSE mem[i]]
          /\ NetBootFileXferSize' = IF NetBootFileXferSize < b THEN b
                                    ELSE NetBootFileXferSize
      BY <1>2, BlockStored
    <2>2. Running /\ Running' /\ UNCHANGED pc
      BY <1>2 DEF HandleBlock, Accepts, Receives, Running
    <2>3. 1 .. b - 1 \subseteq image
      BY <2>1, TftpAssumption DEF Stored
    <2>4. image' = image \cup {b}
      BY <2>1
    <2>5. Abstract!Deliver(b)
      BY <2>1, <2>2, <2>3, <2>4 DEF Abstract!Deliver
    <2> QED
      BY <2>1, <2>5 DEF Abstract!Next, Abstract!File
  <1>3. CASE Restart
    BY <1>3 DEF Restart, TftpStart, Running, Abstract!Next, Abstract!StartAgain
  <1>4. CASE EndOfIteration
    <2>1. UNCHANGED <<mem, NetBootFileXferSize>> /\ Running
      BY <1>4 DEF EndOfIteration, Running
    <2>2. CASE NetState = "CONTINUE" /\ pc' = "rx"
      BY <1>1, <2>1, <2>2 DEF Running
    <2>3. CASE NetState = "SUCCESS" /\ pc' = "done"
      <3>1. image = File /\ NetBootFileXferSize = NBlocks
        BY <2>3 DEF Inv, InOrder, Placed, Stored
      <3>2. Abstract!Finish
        BY <2>1, <2>3, <3>1 DEF Running, Abstract!Finish, Abstract!File
      <3> QED
        BY <3>2 DEF Abstract!Next
    <2>4. CASE NetState = "FAIL" /\ pc' = "failed"
      BY <2>1, <2>4 DEF Running, Abstract!Next, Abstract!GiveUp
    <2> QED
      BY <1>4, <2>2, <2>3, <2>4 DEF EndOfIteration
  <1>5. ASSUME NEW m \in net, NEW dup \in BOOLEAN,
               \/ HandleOack(m, dup) \/ HandleBadFirst(m, dup)
               \/ HandleSameBlock(m, dup) \/ HandleError(m, dup)
        PROVE  UNCHANGED <<mem, NetBootFileXferSize>> /\ Running /\ Running'
    BY <1>5 DEF HandleOack, HandleBadFirst, HandleSameBlock, HandleError,
                Accepts, Receives, Running, loopVars
  <1>6. CASE TftpTimeout \/ startAgainTimeout \/ NoTimeout
    BY <1>1, <1>6 DEF TftpTimeout, startAgainTimeout, NoTimeout, Running
  <1>7. CASE Server \/ Finished \/ UNCHANGED vars
              \/ \E m \in net : HandleOther(m) \/ Lose(m)
    <2>1. UNCHANGED clientVars
      BY <1>7 DEF Server, Finished, vars, HandleOther, Lose, OpenSession,
                  RefuseRequest, NextBlock, LastBlockAcknowledged, StaleAck,
                  ServerTimeout, ServerGivesUp
    <2> QED
      BY <1>1, <2>1 DEF clientVars, loopVars
  <1> QED
    BY <1>1, <1>2, <1>3, <1>4, <1>5, <1>6, <1>7 DEF Next, Client, TftpHandler

(* The TFTP client, with its loop, its server and any network, implements
   FileTransfer: blocks come into place in order, none is spoilt, success is
   reported last.                                                           *)
THEOREM TftpImplementsFileTransfer ==
  NBlocks < SequenceSize => (Spec => ImplementsFileTransfer)
  <1> SUFFICES ASSUME NBlocks < SequenceSize PROVE Spec => Abstract!Spec
    BY DEF ImplementsFileTransfer
  <1>1. Init => Inv
    BY InitTypeOK, InitInOrder DEF Inv
  <1>2. Inv /\ [Next]_vars => Inv'
    BY NextTypeOK, NextInOrder DEF Inv
  <1>3. Init => Abstract!Init
    BY DEF Init, Abstract!Init, Running
  <1>4. Inv /\ [Next]_vars => [Abstract!Next]_<<image, NetBootFileXferSize, status>>
    BY AbstractStep
  <1> QED
    BY <1>1, <1>2, <1>3, <1>4, PTL DEF Spec, Abstract!Spec, image, status
=============================================================================
