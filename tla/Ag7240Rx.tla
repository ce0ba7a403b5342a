----------------------------- MODULE Ag7240Rx ------------------------------
(***************************************************************************)
(* The receive ring of one AR7240 MAC: the driver of                       *)
(* cpu/mips/ar7240/ag7240.c and the DMA engine (external), which runs      *)
(* concurrently with it.  Packets are numbered in the order of their       *)
(* arrival.                                                                *)
(*                                                                         *)
(* ag7240_recv hands a packet to NetReceive before it gives the descriptor *)
(* back.  The handler called from there may call NetStartAgain (net.c),    *)
(* which halts the MAC and - when no other interface has a link - calls    *)
(* ag7240_clean_rx of the very MAC whose ag7240_recv is still running.     *)
(***************************************************************************)
EXTENDS Integers

CONSTANTS
    NO_OF_RX_FIFOS,     \* descriptors of the ring, 8 in the code
    MaxPackets          \* bound: packets that arrive

ASSUME Ag7240RxAssumption ==
    /\ NO_OF_RX_FIFOS \in Nat \ {0}
    /\ MaxPackets \in Nat

Fifo == 0 .. NO_OF_RX_FIFOS - 1

VARIABLES
    pc,         \* "prompt", "loop" (between two eth_rx), "recv", "handler"
    fifo_rx,    \* per descriptor: 0 if owned by the DMA, else its packet
    next_rx,
    f,          \* the descriptor ag7240_recv is working on
    mapped,     \* the descriptors point to NetRxPackets
    DMA_RX_DESC,\* external: the descriptor the DMA fills next
    DMA_RX_CTRL,\* external: receiver on
    arrived,    \* packets that have arrived
    last,       \* the last packet handed to NetReceive
    seen,       \* all packets handed to NetReceive
    wild,       \* packets written to where a null pkt_start_addr points
    restarted   \* a handler has set the ring up under a running ag7240_recv,
                \* and no command has set it up since

vars == <<pc, fifo_rx, next_rx, f, mapped, DMA_RX_DESC, DMA_RX_CTRL, arrived, last, seen, wild,
          restarted>>

(* Every variable ranges over the values its declaration allows. *)
TypeOK ==
    /\ pc \in {"prompt", "loop", "recv", "handler"}
    /\ fifo_rx \in [Fifo -> Nat]
    /\ next_rx \in Fifo /\ f \in Fifo
    /\ mapped \in BOOLEAN
    /\ DMA_RX_DESC \in Fifo /\ DMA_RX_CTRL \in BOOLEAN
    /\ arrived \in Nat /\ last \in Nat /\ seen \subseteq Nat /\ wild \in Nat
    /\ restarted \in BOOLEAN

(* The ring is circular: next_desc of the last one, and ++next_rx *)
after(i) == IF i + 1 >= NO_OF_RX_FIFOS THEN 0 ELSE i + 1

rx_owned_by_dma(i) == fifo_rx[i] = 0

-----------------------------------------------------------------------------
(* The DMA engine (external)                                                *)

(* A packet is stored in the next descriptor, or ends reception if the driver
   has not given that descriptor back *)
Arrives ==
    /\ arrived < MaxPackets
    /\ DMA_RX_CTRL
    /\ arrived' = arrived + 1
    /\ \/ /\ rx_owned_by_dma(DMA_RX_DESC)
          /\ fifo_rx' = [fifo_rx EXCEPT ![DMA_RX_DESC] = arrived + 1]
          /\ DMA_RX_DESC' = after(DMA_RX_DESC)
          /\ wild' = IF mapped THEN wild ELSE wild + 1
          /\ UNCHANGED DMA_RX_CTRL
       \/ /\ ~ rx_owned_by_dma(DMA_RX_DESC)
          /\ DMA_RX_CTRL' = FALSE
          /\ UNCHANGED <<fifo_rx, DMA_RX_DESC, wild>>
    /\ UNCHANGED <<pc, next_rx, f, mapped, last, seen, restarted>>

-----------------------------------------------------------------------------
(* The driver                                                               *)

(* ag7240_clean_rx, with a link *)
CleanRx ==
    /\ next_rx' = 0
    /\ fifo_rx' = [i \in Fifo |-> 0]
    /\ mapped' = TRUE
    /\ DMA_RX_DESC' = 0
    /\ DMA_RX_CTRL' = TRUE

(* eth_init, called by NetLoop for a new command *)
clean_rx ==
    /\ pc = "prompt"
    /\ CleanRx
    /\ restarted' = FALSE
    /\ pc' = "loop"
    /\ UNCHANGED <<f, arrived, last, seen, wild>>

(* ag7240_clean_rx without a link leaves the ring as it is; if no interface has
   one, NetLoop goes on all the same *)
clean_rx_no_link ==
    /\ pc = "prompt"
    /\ pc' = "loop"
    /\ UNCHANGED <<fifo_rx, next_rx, f, mapped, DMA_RX_DESC, DMA_RX_CTRL, arrived, last, seen, wild, restarted>>

(* ag7240_halt, at the end of a command *)
halt ==
    /\ pc = "loop"
    /\ DMA_RX_CTRL' = FALSE
    /\ pc' = "prompt"
    /\ UNCHANGED <<fifo_rx, next_rx, f, mapped, DMA_RX_DESC, arrived, last, seen, wild, restarted>>

recv ==
    /\ pc = "loop"
    /\ pc' = "recv"
    /\ UNCHANGED <<fifo_rx, next_rx, f, mapped, DMA_RX_DESC, DMA_RX_CTRL, arrived, last, seen, wild, restarted>>

(* NetReceive after the descriptor has been given back to the DMA *)
NetReceiveGiven ==
    /\ pc = "recv"
    /\ ~ rx_owned_by_dma(next_rx)
    /\ f' = next_rx
    /\ last' = fifo_rx[next_rx]
    /\ seen' = seen \cup {fifo_rx[next_rx]}
    /\ fifo_rx' = [fifo_rx EXCEPT ![next_rx] = 0]
    /\ pc' = "handler"
    /\ UNCHANGED <<next_rx, mapped, DMA_RX_DESC, DMA_RX_CTRL, arrived, wild, restarted>>

(* NetReceive for the newest packet of the ring *)
NetReceiveNewest ==
    /\ pc = "recv"
    /\ ~ rx_owned_by_dma(next_rx)
    /\ f' \in {i \in Fifo : \A j \in Fifo : fifo_rx[j] <= fifo_rx[i]}
    /\ last' = fifo_rx[f']
    /\ seen' = seen \cup {fifo_rx[f']}
    /\ pc' = "handler"
    /\ UNCHANGED <<fifo_rx, next_rx, mapped, DMA_RX_DESC, DMA_RX_CTRL, arrived, wild, restarted>>

(* The descriptor at next_rx holds a packet: NetReceive is called *)
NetReceive ==
    /\ pc = "recv"
    /\ ~ rx_owned_by_dma(next_rx)
    /\ f' = next_rx
    /\ last' = fifo_rx[next_rx]
    /\ seen' = seen \cup {fifo_rx[next_rx]}
    /\ pc' = "handler"
    /\ UNCHANGED <<fifo_rx, next_rx, mapped, DMA_RX_DESC, DMA_RX_CTRL, arrived, wild, restarted>>

(* The handler calls NetStartAgain, and no other interface comes up *)
NetStartAgain ==
    /\ pc = "handler"
    /\ CleanRx
    /\ restarted' = TRUE
    /\ UNCHANGED <<pc, f, arrived, last, seen, wild>>

(* ... or, with netretry "no", only halts the MAC *)
HandlerHalts ==
    /\ pc = "handler"
    /\ DMA_RX_CTRL' = FALSE
    /\ UNCHANGED <<pc, fifo_rx, next_rx, f, mapped, DMA_RX_DESC, arrived, last, seen, wild, restarted>>

(* HandlerReturns without ag7240_rx_give_to_dma *)
HandlerReturnsKeeps ==
    /\ pc = "handler"
    /\ next_rx' = after(next_rx)
    /\ pc' = "recv"
    /\ UNCHANGED <<fifo_rx, f, mapped, DMA_RX_DESC, DMA_RX_CTRL, arrived, last, seen, wild, restarted>>

(* HandlerReturns where next_rx is compared with > instead of >= *)
HandlerReturnsPastEnd ==
    /\ pc = "handler"
    /\ fifo_rx' = [fifo_rx EXCEPT ![f] = 0]
    /\ next_rx' = IF next_rx + 1 > NO_OF_RX_FIFOS THEN 0 ELSE next_rx + 1
    /\ pc' = "recv"
    /\ UNCHANGED <<f, mapped, DMA_RX_DESC, DMA_RX_CTRL, arrived, last, seen, wild, restarted>>

(* NetReceive returns: ag7240_rx_give_to_dma(f), ++next_rx *)
HandlerReturns ==
    /\ pc = "handler"
    /\ fifo_rx' = [fifo_rx EXCEPT ![f] = 0]
    /\ next_rx' = after(next_rx)
    /\ pc' = "recv"
    /\ UNCHANGED <<f, mapped, DMA_RX_DESC, DMA_RX_CTRL, arrived, last, seen, wild, restarted>>

(* recv_ends that lets a stopped DMA go on with the first descriptor *)
recv_endsAtFirst ==
    /\ pc = "recv"
    /\ rx_owned_by_dma(next_rx)
    /\ f' = next_rx
    /\ DMA_RX_DESC' = IF DMA_RX_CTRL THEN DMA_RX_DESC ELSE 0
    /\ DMA_RX_CTRL' = TRUE
    /\ pc' = "loop"
    /\ UNCHANGED <<fifo_rx, next_rx, mapped, arrived, last, seen, wild, restarted>>

(* No packet at next_rx: a DMA that has stopped is started at that descriptor.  The
   test of the descriptor and the read of the control register are one step: a ring
   that fills between the two is not represented *)
recv_ends ==
    /\ pc = "recv"
    /\ rx_owned_by_dma(next_rx)
    /\ f' = next_rx
    /\ DMA_RX_DESC' = IF DMA_RX_CTRL THEN DMA_RX_DESC ELSE next_rx
    /\ DMA_RX_CTRL' = TRUE
    /\ pc' = "loop"
    /\ UNCHANGED <<fifo_rx, next_rx, mapped, arrived, last, seen, wild, restarted>>

-----------------------------------------------------------------------------
(* ag7240_setup_fifos leaves the receive descriptors as malloc delivers them,
   zeroed.  A zero is_empty reads as a packet (of length 0, which NetReceive
   drops): these are the packets 1 .. NO_OF_RX_FIFOS.                       *)
Init ==
    /\ pc = "prompt"
    /\ fifo_rx = [i \in Fifo |-> i + 1]
    /\ next_rx = 0 /\ f = 0
    /\ mapped = FALSE
    /\ DMA_RX_DESC = 0 /\ DMA_RX_CTRL = FALSE
    /\ arrived = NO_OF_RX_FIFOS
    /\ last = 0 /\ seen = {} /\ wild = 0
    /\ restarted = FALSE

Next == \/ Arrives
        \/ clean_rx \/ clean_rx_no_link \/ halt
        \/ recv \/ NetReceive \/ NetStartAgain \/ HandlerHalts \/ HandlerReturns
        \/ recv_ends

Spec == Init /\ [][Next]_vars

-----------------------------------------------------------------------------
(* Properties                                                               *)

(* After NetStartAgain from a handler the driver goes on one descriptor behind
   the DMA, and what follows does not hold until the next command sets the ring
   up again.  clean_rx has to repair whatever that left behind.             *)

(* No packet is stuck in the ring: whenever the driver looks, the descriptor
   it looks at holds a packet if any descriptor does *)
NothingStuck ==
    ~ restarted /\ pc \in {"loop", "recv"} /\ (\E i \in Fifo : fifo_rx[i] # 0)
      => fifo_rx[next_rx] # 0

(* The packets are handed over in the order in which they arrived *)
HandedInOrder == [][last' # last => last' > last \/ restarted]_vars

(* No packet is handed over twice, even if the ring is set up again behind the
   back of a running ag7240_recv *)
HandedOnce == [][pc = "recv" /\ pc' = "handler" => last' \notin seen]_vars

(* As long as a handler reads a packet, the DMA does not own its buffer *)
HandlerOwnsBuffer == pc = "handler" /\ ~ restarted => fifo_rx[f] = last /\ last # 0

(* The DMA never writes a packet to where no buffer is.  It may, before the
   first link: ag7240_clean_rx has not set up the ring (no run checks this) *)
NoWildWrite == wild = 0

-----------------------------------------------------------------------------
(* Why the ring keeps the order, as an inductive invariant                  *)

(* How far the driver has to go to descriptor i *)
Dist(i) == IF i >= next_rx THEN i - next_rx ELSE i - next_rx + NO_OF_RX_FIFOS

(* The packets lie behind each other from next_rx on, the oldest first *)
Contiguous ==
    \A i, j \in Fifo :
      Dist(i) < Dist(j) /\ fifo_rx[j] # 0 => fifo_rx[i] # 0 /\ fifo_rx[i] < fifo_rx[j]

(* The DMA goes on right behind the last of them *)
DmaBehindLast ==
    IF fifo_rx[DMA_RX_DESC] # 0
    THEN DMA_RX_DESC = next_rx /\ \A i \in Fifo : fifo_rx[i] # 0
    ELSE \A i \in Fifo : Dist(i) < Dist(DMA_RX_DESC) => fifo_rx[i] # 0

(* The packets of the ring are newer than the one handed over last, except
   that one itself while its handler runs *)
RestIsNewer ==
    \A i \in Fifo :
      fifo_rx[i] # 0 => last < fifo_rx[i] \/ (pc = "handler" /\ i = next_rx)

Counted == last <= arrived /\ \A i \in Fifo : fifo_rx[i] <= arrived

InHandler == pc = "handler" => f = next_rx /\ fifo_rx[f] = last /\ last # 0

(* All of it: the ring of ag7240_recv and the DMA is one queue *)
Queue == /\ Contiguous
         /\ DmaBehindLast
         /\ RestIsNewer
         /\ Counted
         /\ InHandler

(* ... and is one again from the next command on if a handler has spoilt it *)
RingInOrder == Counted /\ (restarted \/ Queue)

(* The ring seen from outside, as long as no handler has spoilt it *)
Waiting == IF restarted THEN {} ELSE {fifo_rx[i] : i \in Fifo} \ {0}
Busy == IF pc = "handler" /\ ~ restarted THEN last ELSE 0
Receiving == DMA_RX_CTRL /\ ~ restarted

PQ == INSTANCE PacketQueue
        WITH Buffers <- NO_OF_RX_FIFOS, waiting <- Waiting, busy <- Busy,
             newest <- arrived, on <- Receiving, spoilt <- restarted

(* Driver and DMA, whatever the order of their steps, are a queue of packets:
   the oldest one is handed over first, a packet is lost only if all descriptors
   are in use, also by the one being handled, and a receiver that has stopped
   because of that goes on when all of them have been given back *)
ImplementsPacketQueue == PQ!Spec

(* For HandedOnce, whatever the handlers do: a packet that was handed over is
   in the ring no more once its handler has returned *)
SeenIsGone ==
    /\ \A i \in Fifo : fifo_rx[i] # 0 /\ fifo_rx[i] \in seen => pc = "handler" /\ i = f
    /\ \A i, j \in Fifo : fifo_rx[i] = fifo_rx[j] /\ fifo_rx[i] # 0 => i = j
    /\ \A i \in Fifo : fifo_rx[i] <= arrived
    /\ \A p \in seen : p <= arrived
=============================================================================
