--------------------------- MODULE Ag7240RxProofs ---------------------------
(***************************************************************************)
(* Proofs about the receive ring of module Ag7240Rx, for a ring of any     *)
(* size and any number of packets.                                         *)
(***************************************************************************)
EXTENDS Ag7240Rx, FiniteSets, FiniteSetTheorems, TLAPS

LEMMA FifoFacts ==
    /\ NO_OF_RX_FIFOS \in Nat /\ NO_OF_RX_FIFOS > 0
    /\ 0 \in Fifo
    /\ \A i \in Fifo : i \in Nat /\ i < NO_OF_RX_FIFOS /\ after(i) \in Fifo
BY Ag7240RxAssumption DEF Fifo, after

(* The driver reaches every descriptor in fewer than NO_OF_RX_FIFOS steps *)
LEMMA DistFacts ==
    ASSUME next_rx \in Fifo
    PROVE  /\ \A i \in Fifo : Dist(i) \in 0 .. NO_OF_RX_FIFOS - 1
           /\ Dist(next_rx) = 0
           /\ \A i \in Fifo : i # next_rx => Dist(i) > 0
<1>1. NO_OF_RX_FIFOS \in Nat /\ next_rx \in Nat /\ next_rx < NO_OF_RX_FIFOS
  BY FifoFacts
<1>2. ASSUME NEW i \in Fifo
      PROVE  Dist(i) \in 0 .. NO_OF_RX_FIFOS - 1 /\ (i # next_rx => Dist(i) > 0)
  <2>1. i \in Nat /\ i < NO_OF_RX_FIFOS
    BY FifoFacts
  <2> QED
    BY <1>1, <2>1 DEF Dist
<1>3. Dist(next_rx) = 0
  BY <1>1 DEF Dist
<1> QED
  BY <1>2, <1>3

(* ... and is one step nearer to it when it has taken one *)
LEMMA DistStep ==
    ASSUME next_rx \in Fifo, next_rx' = after(next_rx)
    PROVE  /\ \A i \in Fifo : i # next_rx => Dist(i)' = Dist(i) - 1
           /\ \A i \in Fifo : i = next_rx => Dist(i)' = NO_OF_RX_FIFOS - 1
           /\ \A i \in Fifo : Dist(i)' \in 0 .. NO_OF_RX_FIFOS - 1
<1>1. NO_OF_RX_FIFOS \in Nat /\ next_rx \in Nat /\ next_rx < NO_OF_RX_FIFOS
  BY FifoFacts
<1>2. next_rx' = IF next_rx + 1 >= NO_OF_RX_FIFOS THEN 0 ELSE next_rx + 1
  BY DEF after
<1>3. ASSUME NEW i \in Fifo
      PROVE  /\ i # next_rx => Dist(i)' = Dist(i) - 1
             /\ i = next_rx => Dist(i)' = NO_OF_RX_FIFOS - 1
             /\ Dist(i)' \in 0 .. NO_OF_RX_FIFOS - 1
  <2>1. i \in Nat /\ i < NO_OF_RX_FIFOS
    BY FifoFacts
  <2>2. CASE next_rx + 1 >= NO_OF_RX_FIFOS
    <3>1. next_rx' = 0 /\ next_rx = NO_OF_RX_FIFOS - 1
      BY <2>2, <1>1, <1>2
    <3> QED
      BY <3>1, <1>1, <2>1 DEF Dist
  <2>3. CASE ~ (next_rx + 1 >= NO_OF_RX_FIFOS)
    <3>1. next_rx' = next_rx + 1 /\ next_rx + 1 < NO_OF_RX_FIFOS
      BY <2>3, <1>1, <1>2
    <3> QED
      BY <3>1, <1>1, <2>1 DEF Dist
  <2> QED
    BY <2>2, <2>3
<1> QED
  BY <1>3

(* Every variable keeps its type: next_rx and the DMA never leave the ring. *)
THEOREM TypeCorrect == Spec => []TypeOK
<1>1. Init => TypeOK
  <2> SUFFICES ASSUME Init PROVE TypeOK
    OBVIOUS
  <2>1. \A i \in Fifo : i + 1 \in Nat
    BY FifoFacts
  <2>2. fifo_rx \in [Fifo -> Nat]
    BY <2>1 DEF Init
  <2>3. arrived \in Nat /\ last \in Nat /\ wild \in Nat
    BY FifoFacts DEF Init
  <2>4. mapped \in BOOLEAN /\ DMA_RX_CTRL \in BOOLEAN /\ seen \subseteq Nat
    BY Zenon DEF Init
  <2>7. restarted \in BOOLEAN
    BY Zenon DEF Init
  <2>5. next_rx \in Fifo /\ f \in Fifo /\ DMA_RX_DESC \in Fifo
    BY FifoFacts DEF Init
  <2>6. pc \in {"prompt", "loop", "recv", "handler"}
    BY Zenon DEF Init
  <2> QED
    BY <2>2, <2>3, <2>4, <2>5, <2>6, <2>7, Zenon DEF TypeOK
<1>2. TypeOK /\ [Next]_vars => TypeOK'
  <2> SUFFICES ASSUME TypeOK, [Next]_vars PROVE TypeOK'
    OBVIOUS
  <2> USE FifoFacts DEF TypeOK
  <2>1. CASE Arrives
    <3>1. arrived + 1 \in Nat /\ wild + 1 \in Nat
      OBVIOUS
    <3>2. wild' = wild \/ wild' = wild + 1
      BY <2>1 DEF Arrives
    <3>3. DMA_RX_CTRL' = DMA_RX_CTRL \/ DMA_RX_CTRL' = FALSE
      BY <2>1, Zenon DEF Arrives
    <3> QED
      BY <2>1, <3>1, <3>2, <3>3 DEF Arrives
  <2>2. CASE clean_rx
    BY <2>2 DEF clean_rx, CleanRx
  <2>3. CASE clean_rx_no_link
    BY <2>3 DEF clean_rx_no_link
  <2>4. CASE halt
    BY <2>4 DEF halt
  <2>5. CASE recv
    BY <2>5 DEF recv
  <2>6. CASE NetReceive
    BY <2>6 DEF NetReceive
  <2>7. CASE NetStartAgain
    BY <2>7 DEF NetStartAgain, CleanRx
  <2>8. CASE HandlerHalts
    BY <2>8 DEF HandlerHalts
  <2>9. CASE HandlerReturns
    BY <2>9 DEF HandlerReturns
  <2>10. CASE recv_ends
    BY <2>10 DEF recv_ends
  <2>11. CASE UNCHANGED vars
    BY <2>11 DEF vars
  <2> QED
    BY <2>1, <2>2, <2>3, <2>4, <2>5, <2>6, <2>7, <2>8, <2>9, <2>10, <2>11 DEF Next
<1> QED
  BY <1>1, <1>2, PTL DEF Spec

-----------------------------------------------------------------------------
(* The ring as a queue, except between a handler's NetStartAgain and the next
   command.                                                                 *)

LEMMA RingInit == Init => Queue
<1> SUFFICES ASSUME Init PROVE Queue
  OBVIOUS
<1> USE FifoFacts DEF Init
<1>1. Contiguous
  BY DEF Contiguous, Dist, Fifo
<1>2. DmaBehindLast
  BY DEF DmaBehindLast, Fifo
<1>3. RestIsNewer /\ Counted /\ InHandler
  BY DEF RestIsNewer, Counted, InHandler, Fifo
<1> QED
  BY <1>1, <1>2, <1>3 DEF Queue

(* A ring that has just been set up is an empty queue *)
LEMMA CleanRing ==
    ASSUME TypeOK, Counted, CleanRx, last' = last, arrived' = arrived,
           pc' # "handler"
    PROVE  Queue'
<1> USE FifoFacts DEF TypeOK, CleanRx
<1>1. Contiguous'
  BY DEF Contiguous, Dist, Fifo
<1>2. DmaBehindLast'
  BY DEF DmaBehindLast, Dist, Fifo
<1>3. RestIsNewer' /\ Counted' /\ InHandler'
  BY DEF RestIsNewer, Counted, InHandler, Fifo
<1> QED
  BY <1>1, <1>2, <1>3 DEF Queue

(* The DMA appends a packet, or stops because the ring is full *)
LEMMA ArriveRing ==
    ASSUME TypeOK, Queue, Arrives
    PROVE  Queue'
<1> USE FifoFacts DEF TypeOK
<1>1. CASE ~ rx_owned_by_dma(DMA_RX_DESC)
  <2>1. /\ fifo_rx' = fifo_rx /\ DMA_RX_DESC' = DMA_RX_DESC
        /\ arrived' = arrived + 1
        /\ next_rx' = next_rx /\ pc' = pc /\ f' = f /\ last' = last
    BY <1>1 DEF Arrives
  <2>2. Contiguous' /\ DmaBehindLast'
    BY <2>1 DEF Queue, Contiguous, DmaBehindLast, Dist
  <2>3. RestIsNewer' /\ InHandler'
    BY <2>1 DEF Queue, RestIsNewer, InHandler
  <2>4. Counted'
    BY <2>1 DEF Queue, Counted
  <2> QED
    BY <2>2, <2>3, <2>4 DEF Queue
<1>2. CASE rx_owned_by_dma(DMA_RX_DESC)
  <2> DEFINE d == DMA_RX_DESC
  <2>1. /\ d \in Fifo /\ fifo_rx[d] = 0
        /\ fifo_rx' = [fifo_rx EXCEPT ![d] = arrived + 1]
        /\ DMA_RX_DESC' = after(d)
        /\ arrived' = arrived + 1
        /\ next_rx' = next_rx /\ pc' = pc /\ f' = f /\ last' = last
    BY <1>2 DEF Arrives, rx_owned_by_dma
  <2>2. /\ fifo_rx'[d] = arrived + 1
        /\ \A i \in Fifo : i # d => fifo_rx'[i] = fifo_rx[i]
    BY <2>1
  <2>3. \A i \in Fifo : fifo_rx[i] <= arrived /\ fifo_rx[i] \in Nat
    BY DEF Queue, Counted
  <2>4. \A i \in Fifo : Dist(i)' = Dist(i)
    BY <2>1 DEF Dist
  <2>5. \A i, j \in Fifo : Dist(i) = Dist(j) => i = j
    BY DEF Dist
  <2>6. \A i \in Fifo : Dist(i) \in 0 .. NO_OF_RX_FIFOS - 1
    BY DEF Dist
  (* what lies between next_rx and the DMA is full, the rest empty *)
  <2>7. \A i \in Fifo : fifo_rx[i] # 0 <=> Dist(i) < Dist(d)
    <3>1. \A i \in Fifo : Dist(i) < Dist(d) => fifo_rx[i] # 0
      BY <2>1 DEF Queue, DmaBehindLast
    <3>2. ASSUME NEW i \in Fifo, fifo_rx[i] # 0, ~ (Dist(i) < Dist(d)) PROVE FALSE
      <4>1. CASE i = d
        BY <4>1, <3>2, <2>1
      <4>2. CASE i # d
        <5>1. Dist(d) < Dist(i)
          BY <4>2, <3>2, <2>5, <2>6, <2>1
        <5>2. fifo_rx[d] # 0
          BY <5>1, <3>2, <2>1 DEF Queue, Contiguous
        <5> QED
          BY <5>2, <2>1
      <4> QED
        BY <4>1, <4>2
    <3> QED
      BY <3>1, <3>2
  <2>8. Contiguous'
    <3> SUFFICES ASSUME NEW i \in Fifo, NEW j \in Fifo, Dist(i) < Dist(j), fifo_rx'[j] # 0
                 PROVE  fifo_rx'[i] # 0 /\ fifo_rx'[i] < fifo_rx'[j]
      BY <2>4 DEF Contiguous
    <3>1. CASE j = d
      <4>1. i # d /\ fifo_rx[i] # 0
        BY <3>1, <2>7, <2>6
      <4> QED
        BY <3>1, <4>1, <2>2, <2>3
    <3>2. CASE j # d
      <4>1. fifo_rx[j] # 0 /\ Dist(j) < Dist(d)
        BY <3>2, <2>2, <2>7
      <4>2. i # d
        BY <4>1, <2>6, <2>1
      <4>3. fifo_rx[i] # 0 /\ fifo_rx[i] < fifo_rx[j]
        BY <4>1 DEF Queue, Contiguous
      <4> QED
        BY <3>2, <4>2, <4>3, <2>2
    <3> QED
      BY <3>1, <3>2
  <2>9. DmaBehindLast'
    <3>1. CASE after(d) = next_rx
      <4>1. Dist(d) = NO_OF_RX_FIFOS - 1
        BY <3>1, <2>1 DEF after, Dist, Fifo
      <4>2. \A i \in Fifo : fifo_rx'[i] # 0
        <5> SUFFICES ASSUME NEW i \in Fifo PROVE fifo_rx'[i] # 0
          OBVIOUS
        <5>1. CASE i = d
          BY <5>1, <2>2, <2>3
        <5>2. CASE i # d
          <6>1. Dist(i) < Dist(d)
            BY <5>2, <4>1, <2>5, <2>6, <2>1
          <6> QED
            BY <6>1, <5>2, <2>2, <2>7
        <5> QED
          BY <5>1, <5>2
      <4> QED
        BY <3>1, <4>2, <2>1 DEF DmaBehindLast
    <3>2. CASE after(d) # next_rx
      <4>1. Dist(after(d)) = Dist(d) + 1 /\ after(d) # d
        BY <3>2, <2>1 DEF after, Dist, Fifo
      <4>2. fifo_rx'[after(d)] = 0
        BY <4>1, <2>2, <2>7, <2>6, <2>1
      <4>3. ASSUME NEW i \in Fifo, Dist(i) < Dist(after(d)) PROVE fifo_rx'[i] # 0
        <5>1. CASE i = d
          BY <5>1, <2>2, <2>3
        <5>2. CASE i # d
          <6>1. Dist(i) < Dist(d)
            BY <5>2, <4>3, <4>1, <2>5, <2>6, <2>1
          <6> QED
            BY <6>1, <5>2, <2>2, <2>7
        <5> QED
          BY <5>1, <5>2
      <4>4. Dist(DMA_RX_DESC)' = Dist(after(d))
        BY <2>1 DEF Dist
      <4> QED
        BY <4>2, <4>3, <4>4, <2>1, <2>4 DEF DmaBehindLast
    <3> QED
      BY <3>1, <3>2
  <2>10. RestIsNewer'
    BY <2>1, <2>2 DEF Queue, RestIsNewer, Counted
  <2>11. Counted'
    BY <2>1, <2>2, <2>3 DEF Queue, Counted
  <2>12. InHandler'
    <3> SUFFICES ASSUME pc = "handler" PROVE f = next_rx /\ fifo_rx'[f] = last /\ last # 0
      BY <2>1 DEF InHandler
    <3>1. f = next_rx /\ fifo_rx[f] = last /\ last # 0
      BY DEF Queue, InHandler
    <3> QED
      BY <3>1, <2>1, <2>2
  <2> QED
    BY <2>8, <2>9, <2>10, <2>11, <2>12 DEF Queue
<1> QED
  BY <1>1, <1>2

(* Giving the descriptor back removes the oldest packet of the queue *)
LEMMA ReturnRing ==
    ASSUME TypeOK, Queue, HandlerReturns
    PROVE  Queue'
<1> USE FifoFacts DEF TypeOK
<1>1. /\ pc = "handler" /\ pc' = "recv"
      /\ f = next_rx /\ fifo_rx[next_rx] = last /\ last # 0
      /\ fifo_rx' = [fifo_rx EXCEPT ![next_rx] = 0]
      /\ next_rx' = after(next_rx)
      /\ DMA_RX_DESC' = DMA_RX_DESC /\ last' = last /\ arrived' = arrived
  BY DEF HandlerReturns, Queue, InHandler
<1>2. /\ fifo_rx'[next_rx] = 0
      /\ \A i \in Fifo : i # next_rx => fifo_rx'[i] = fifo_rx[i]
  BY <1>1
<1>3. /\ \A i \in Fifo : i # next_rx => Dist(i)' = Dist(i) - 1 /\ Dist(i) > 0
      /\ Dist(next_rx) = 0
  BY <1>1, DistFacts, DistStep
<1>4. \A i \in Fifo : /\ Dist(i) \in 0 .. NO_OF_RX_FIFOS - 1
                      /\ Dist(i)' \in 0 .. NO_OF_RX_FIFOS - 1
                      /\ i = next_rx => Dist(i)' = NO_OF_RX_FIFOS - 1
  BY <1>1, DistFacts, DistStep
<1>5. Contiguous'
  <2> SUFFICES ASSUME NEW i \in Fifo, NEW j \in Fifo, Dist(i)' < Dist(j)', fifo_rx'[j] # 0
               PROVE  fifo_rx'[i] # 0 /\ fifo_rx'[i] < fifo_rx'[j]
    BY DEF Contiguous
  <2>1. j # next_rx
    BY <1>2
  <2>2. i # next_rx
    BY <2>1, <1>3, <1>4
  <2>3. Dist(i) < Dist(j)
    BY <2>1, <2>2, <1>3, <1>4
  <2> QED
    BY <2>1, <2>2, <2>3, <1>2 DEF Queue, Contiguous
<1>6. DmaBehindLast'
  <2>1. CASE DMA_RX_DESC = next_rx
    (* the DMA has stopped in front of a full ring: it is now the last, empty one *)
    <3>1. \A i \in Fifo : fifo_rx[i] # 0
      BY <2>1, <1>1 DEF Queue, DmaBehindLast
    <3>2. Dist(DMA_RX_DESC)' = NO_OF_RX_FIFOS - 1
      BY <2>1, <1>1, <1>4 DEF Dist
    <3>3. ASSUME NEW i \in Fifo, Dist(i)' < Dist(DMA_RX_DESC)' PROVE fifo_rx'[i] # 0
      <4>1. i # next_rx
        BY <3>3, <3>2, <1>4
      <4> QED
        BY <4>1, <3>1, <1>2
    <3> QED
      BY <2>1, <3>3, <1>1, <1>2 DEF DmaBehindLast
  <2>2. CASE DMA_RX_DESC # next_rx
    <3>1. fifo_rx[DMA_RX_DESC] = 0
      BY <2>2 DEF Queue, DmaBehindLast
    <3>2. fifo_rx'[DMA_RX_DESC'] = 0
      BY <3>1, <2>2, <1>1, <1>2
    <3>3. Dist(DMA_RX_DESC)' = Dist(DMA_RX_DESC) - 1
      BY <2>2, <1>1, <1>3 DEF Dist
    <3>4. ASSUME NEW i \in Fifo, Dist(i)' < Dist(DMA_RX_DESC)' PROVE fifo_rx'[i] # 0
      <4>1. i # next_rx
        BY <3>4, <3>3, <1>3, <1>4
      <4>2. Dist(i) < Dist(DMA_RX_DESC)
        BY <4>1, <3>4, <3>3, <1>3, <1>4
      <4>3. fifo_rx[i] # 0
        BY <4>2, <3>1 DEF Queue, DmaBehindLast
      <4> QED
        BY <4>1, <4>3, <1>2
    <3> QED
      BY <3>2, <3>4 DEF DmaBehindLast
  <2> QED
    BY <2>1, <2>2
<1>7. RestIsNewer'
  <2> SUFFICES ASSUME NEW i \in Fifo, fifo_rx'[i] # 0 PROVE last < fifo_rx'[i]
    BY <1>1 DEF RestIsNewer
  <2>1. i # next_rx /\ fifo_rx[i] # 0
    BY <1>2
  <2> QED
    BY <2>1, <1>2 DEF Queue, RestIsNewer
<1>8. Counted'
  BY <1>1, <1>2 DEF Queue, Counted
<1>9. InHandler'
  BY <1>1 DEF InHandler
<1> QED
  BY <1>5, <1>6, <1>7, <1>8, <1>9 DEF Queue

(* Every step keeps the ring in order, unless a handler sets it up again *)
LEMMA QueueStep ==
    ASSUME TypeOK, Queue, [Next]_vars, ~ NetStartAgain
    PROVE  Queue'
<1> USE FifoFacts DEF TypeOK
<1> DEFINE Same == /\ fifo_rx' = fifo_rx /\ next_rx' = next_rx
                   /\ last' = last /\ arrived' = arrived
<1>0. ASSUME Same, DMA_RX_DESC' = DMA_RX_DESC, f' = f, pc' = pc \/ "handler" \notin {pc, pc'}
      PROVE  Queue'
  BY <1>0 DEF Queue, Contiguous, DmaBehindLast, Dist, RestIsNewer, Counted, InHandler
<1>1. CASE Arrives
  BY <1>1, ArriveRing
<1>2. CASE clean_rx
  BY <1>2, CleanRing DEF clean_rx, Queue
<1>3. CASE clean_rx_no_link
  BY <1>3, <1>0 DEF clean_rx_no_link
<1>4. CASE halt
  BY <1>4, <1>0 DEF halt
<1>5. CASE recv
  BY <1>5, <1>0 DEF recv
<1>6. CASE NetReceive
  <2>1. /\ fifo_rx[next_rx] # 0 /\ f' = next_rx /\ last' = fifo_rx[next_rx]
        /\ pc = "recv" /\ pc' = "handler"
        /\ fifo_rx' = fifo_rx /\ next_rx' = next_rx /\ arrived' = arrived
        /\ DMA_RX_DESC' = DMA_RX_DESC
    BY <1>6 DEF NetReceive, rx_owned_by_dma
  <2>2. Contiguous' /\ DmaBehindLast'
    BY <2>1 DEF Queue, Contiguous, DmaBehindLast, Dist
  <2>3. RestIsNewer'
    <3> SUFFICES ASSUME NEW i \in Fifo, fifo_rx[i] # 0, i # next_rx
                 PROVE  fifo_rx[next_rx] < fifo_rx[i]
      BY <2>1 DEF RestIsNewer
    <3>1. Dist(next_rx) < Dist(i)
      BY DistFacts
    <3> QED
      BY <3>1 DEF Queue, Contiguous
  <2>4. Counted' /\ InHandler'
    BY <2>1 DEF Queue, Counted, InHandler
  <2> QED
    BY <2>2, <2>3, <2>4 DEF Queue
<1>7. CASE NetStartAgain
  BY <1>7
<1>8. CASE HandlerHalts
  BY <1>8, <1>0 DEF HandlerHalts
<1>9. CASE HandlerReturns
  BY <1>9, ReturnRing
<1>10. CASE recv_ends
  <2>1. /\ fifo_rx[next_rx] = 0 /\ Same /\ pc' = "loop" /\ pc = "recv"
        /\ DMA_RX_DESC' = DMA_RX_DESC \/ DMA_RX_DESC' = next_rx
    BY <1>10 DEF recv_ends, rx_owned_by_dma
  <2>2. Contiguous' /\ RestIsNewer' /\ Counted' /\ InHandler'
    BY <2>1 DEF Queue, Contiguous, RestIsNewer, Counted, InHandler, Dist
  <2>3. DmaBehindLast'
    <3>1. CASE DMA_RX_DESC' = DMA_RX_DESC
      BY <3>1, <2>1 DEF Queue, DmaBehindLast, Dist
    <3>2. CASE DMA_RX_DESC' = next_rx
      <4>1. \A i \in Fifo : ~ (Dist(i)' < Dist(DMA_RX_DESC)')
        BY <3>2, <2>1 DEF Dist
      <4> QED
        BY <4>1, <3>2, <2>1 DEF DmaBehindLast
    <3> QED
      BY <3>1, <3>2, <2>1
  <2> QED
    BY <2>2, <2>3 DEF Queue
<1>11. CASE UNCHANGED vars
  BY <1>11, <1>0 DEF vars
<1> QED
  BY <1>1, <1>2, <1>3, <1>4, <1>5, <1>6, <1>7, <1>8, <1>9, <1>10, <1>11 DEF Next

(* Whatever the ring has gone through, no packet is in it that has not arrived *)
LEMMA CountedStep ==
    ASSUME TypeOK, Counted, [Next]_vars
    PROVE  Counted'
<1> USE FifoFacts DEF TypeOK, Counted
<1>1. CASE Arrives
  <2>1. /\ arrived' = arrived + 1 /\ last' = last
        /\ fifo_rx' = fifo_rx \/ fifo_rx' = [fifo_rx EXCEPT ![DMA_RX_DESC] = arrived + 1]
    BY <1>1 DEF Arrives
  <2> QED
    BY <2>1
<1>2. CASE clean_rx \/ NetStartAgain
  BY <1>2 DEF clean_rx, NetStartAgain, CleanRx
<1>3. CASE clean_rx_no_link \/ halt \/ recv \/ HandlerHalts \/ recv_ends \/ UNCHANGED vars
  BY <1>3 DEF clean_rx_no_link, halt, recv, HandlerHalts, recv_ends, vars
<1>4. CASE NetReceive
  BY <1>4 DEF NetReceive
<1>5. CASE HandlerReturns
  BY <1>5 DEF HandlerReturns
<1> QED
  BY <1>1, <1>2, <1>3, <1>4, <1>5 DEF Next

(* A handler may spoil the queue, the next command makes it one again *)
LEMMA RingStep ==
    ASSUME TypeOK, RingInOrder, [Next]_vars
    PROVE  RingInOrder'
<1>1. Counted'
  BY CountedStep DEF RingInOrder
<1>2. CASE NetStartAgain
  BY <1>2, <1>1 DEF NetStartAgain, RingInOrder
<1>3. CASE clean_rx
  <2>1. Queue'
    BY <1>3, CleanRing DEF clean_rx, RingInOrder
  <2> QED
    BY <2>1, <1>1 DEF RingInOrder
<1>4. CASE ~ NetStartAgain /\ ~ clean_rx
  <2>1. restarted' = restarted
    BY <1>4 DEF Next, Arrives, clean_rx_no_link, halt, recv, NetReceive,
                HandlerHalts, HandlerReturns, recv_ends, vars
  <2>2. CASE restarted
    BY <2>1, <2>2, <1>1 DEF RingInOrder
  <2>3. CASE ~ restarted
    <3>1. Queue'
      BY <1>4, <2>3, QueueStep DEF RingInOrder
    <3> QED
      BY <3>1, <1>1 DEF RingInOrder
  <2> QED
    BY <2>2, <2>3
<1> QED
  BY <1>2, <1>3, <1>4

(* The ring and the DMA together are one queue, whatever the order in which
   the driver and the DMA take their steps, and a ring that a handler has
   spoilt is one again from the next command on. *)
THEOREM AlwaysRingInOrder == Spec => []RingInOrder
<1>1. Init => RingInOrder
  BY RingInit DEF RingInOrder, Queue
<1>2. TypeOK /\ RingInOrder /\ [Next]_vars => RingInOrder'
  BY RingStep
<1> QED
  BY <1>1, <1>2, TypeCorrect, PTL DEF Spec

(* No packet is stuck in a ring whose driver looks at an empty descriptor. *)
THEOREM NeverStuck == Spec => []NothingStuck
<1>1. TypeOK /\ RingInOrder => NothingStuck
  <2> SUFFICES ASSUME TypeOK, RingInOrder, ~ restarted, NEW i \in Fifo, fifo_rx[i] # 0
               PROVE  fifo_rx[next_rx] # 0
    BY DEF NothingStuck
  <2>1. CASE i = next_rx
    BY <2>1
  <2>2. CASE i # next_rx
    <3>1. Dist(next_rx) < Dist(i)
      BY <2>2, DistFacts DEF TypeOK
    <3> QED
      BY <3>1 DEF RingInOrder, Queue, Contiguous, TypeOK
  <2> QED
    BY <2>1, <2>2
<1> QED
  BY <1>1, AlwaysRingInOrder, TypeCorrect, PTL

(* A handler reads its packet from a buffer the DMA does not own. *)
THEOREM BufferIsStable == Spec => []HandlerOwnsBuffer
<1>1. RingInOrder => HandlerOwnsBuffer
  BY DEF RingInOrder, Queue, InHandler, HandlerOwnsBuffer
<1> QED
  BY <1>1, AlwaysRingInOrder, PTL

(* The handlers see the packets in the order in which they arrived. *)
THEOREM ArrivalOrder == Spec => HandedInOrder
<1>1. ASSUME TypeOK, RingInOrder, [Next]_vars, last' # last, ~ restarted PROVE last' > last
  <2>1. NetReceive
    BY <1>1 DEF Next, Arrives, clean_rx, clean_rx_no_link, halt, recv, NetStartAgain,
                HandlerHalts, HandlerReturns, recv_ends, vars
  <2>2. pc = "recv" /\ fifo_rx[next_rx] # 0 /\ last' = fifo_rx[next_rx]
    BY <2>1 DEF NetReceive, rx_owned_by_dma
  <2>3. last < fifo_rx[next_rx]
    BY <2>2, <1>1 DEF RingInOrder, Queue, RestIsNewer, TypeOK
  <2> QED
    BY <2>2, <2>3, <1>1 DEF TypeOK
<1>2. TypeOK /\ RingInOrder /\ [Next]_vars => [last' # last => last' > last \/ restarted]_vars
  BY <1>1
<1> QED
  BY <1>2, AlwaysRingInOrder, TypeCorrect, PTL DEF Spec, HandedInOrder

-----------------------------------------------------------------------------
(* No duplicates, also when a handler sets the ring up again.               *)

LEMMA SeenStep ==
    ASSUME TypeOK, SeenIsGone, [Next]_vars
    PROVE  SeenIsGone'
<1> USE FifoFacts DEF TypeOK, SeenIsGone
<1>1. CASE Arrives
  <2>1. CASE rx_owned_by_dma(DMA_RX_DESC)
    <3> DEFINE d == DMA_RX_DESC
    <3>1. /\ arrived' = arrived + 1 /\ seen' = seen /\ pc' = pc /\ f' = f
          /\ fifo_rx[d] = 0 /\ fifo_rx'[d] = arrived + 1
          /\ \A i \in Fifo : i # d => fifo_rx'[i] = fifo_rx[i]
      BY <1>1, <2>1 DEF Arrives, rx_owned_by_dma
    <3>2. \A i \in Fifo : fifo_rx'[i] # 0 /\ fifo_rx'[i] \in seen => pc = "handler" /\ i = f
      BY <3>1
    <3>3. \A i, j \in Fifo : fifo_rx'[i] = fifo_rx'[j] /\ fifo_rx'[i] # 0 => i = j
      BY <3>1
    <3>4. \A i \in Fifo : fifo_rx'[i] <= arrived + 1
      BY <3>1
    <3>5. \A p \in seen : p <= arrived + 1
      OBVIOUS
    <3> QED
      BY <3>1, <3>2, <3>3, <3>4, <3>5
  <2>2. CASE ~ rx_owned_by_dma(DMA_RX_DESC)
    <3>1. /\ arrived' = arrived + 1 /\ seen' = seen /\ pc' = pc /\ f' = f
          /\ fifo_rx' = fifo_rx
      BY <1>1, <2>2 DEF Arrives
    <3>2. \A i \in Fifo : fifo_rx[i] <= arrived + 1
      OBVIOUS
    <3>3. \A p \in seen : p <= arrived + 1
      OBVIOUS
    <3> QED
      BY <3>1, <3>2, <3>3
  <2> QED
    BY <2>1, <2>2
<1>2. CASE clean_rx
  BY <1>2 DEF clean_rx, CleanRx
<1>3. CASE clean_rx_no_link
  BY <1>3 DEF clean_rx_no_link
<1>4. CASE halt
  BY <1>4 DEF halt
<1>5. CASE recv
  BY <1>5 DEF recv
<1>6. CASE NetReceive
  BY <1>6 DEF NetReceive, rx_owned_by_dma
<1>7. CASE NetStartAgain
  BY <1>7 DEF NetStartAgain, CleanRx
<1>8. CASE HandlerHalts
  BY <1>8 DEF HandlerHalts
<1>9. CASE HandlerReturns
  BY <1>9 DEF HandlerReturns
<1>10. CASE recv_ends
  BY <1>10 DEF recv_ends
<1>11. CASE UNCHANGED vars
  BY <1>11 DEF vars
<1> QED
  BY <1>1, <1>2, <1>3, <1>4, <1>5, <1>6, <1>7, <1>8, <1>9, <1>10, <1>11 DEF Next

(* No packet is handed to NetReceive twice. *)
THEOREM NoDuplicate == Spec => HandedOnce
<1>1. Init => SeenIsGone
  BY FifoFacts DEF Init, SeenIsGone, Fifo
<1>2. TypeOK /\ SeenIsGone /\ [Next]_vars => SeenIsGone'
  BY SeenStep
<1>3. TypeOK /\ SeenIsGone /\ [Next]_vars
        => [pc = "recv" /\ pc' = "handler" => last' \notin seen]_vars
  <2> SUFFICES ASSUME TypeOK, SeenIsGone, Next, pc = "recv", pc' = "handler"
               PROVE  last' \notin seen
    BY DEF vars
  <2>1. NetReceive
    BY DEF Next, Arrives, clean_rx, clean_rx_no_link, halt, recv, NetStartAgain,
           HandlerHalts, HandlerReturns, recv_ends
  <2> QED
    BY <2>1 DEF NetReceive, rx_owned_by_dma, SeenIsGone, TypeOK
<1> QED
  BY <1>1, <1>2, <1>3, TypeCorrect, PTL DEF Spec, HandedOnce
-----------------------------------------------------------------------------
(* The ring as a queue of packets                                           *)

(* The descriptors that hold a packet *)
InUse == {i \in Fifo : fifo_rx[i] # 0}

LEMMA WaitingIs ==
    ASSUME TypeOK, ~ restarted
    PROVE  /\ Waiting = {fifo_rx[i] : i \in InUse}
           /\ \A i \in Fifo : fifo_rx[i] # 0 => fifo_rx[i] \in Waiting
           /\ \A p \in Waiting : p # 0 /\ \E i \in Fifo : fifo_rx[i] = p
BY DEF Waiting, InUse

(* No packet is in the ring twice *)
LEMMA Different ==
    ASSUME TypeOK, Queue, NEW i \in Fifo, NEW j \in Fifo, i # j, fifo_rx[i] # 0
    PROVE  fifo_rx[i] # fifo_rx[j]
<1>1. Dist(i) \in Int /\ Dist(j) \in Int /\ fifo_rx[i] \in Nat /\ fifo_rx[j] \in Nat
  BY DistFacts DEF TypeOK
<1>2. Dist(i) # Dist(j)
  <2>1. /\ i \in Nat /\ j \in Nat /\ next_rx \in Nat /\ NO_OF_RX_FIFOS \in Nat
        /\ i < NO_OF_RX_FIFOS /\ j < NO_OF_RX_FIFOS
    BY FifoFacts DEF TypeOK
  <2> QED
    BY <2>1 DEF Dist
<1>3. CASE Dist(i) < Dist(j)
  BY <1>1, <1>3 DEF Queue, Contiguous
<1>4. CASE Dist(j) < Dist(i)
  BY <1>1, <1>4 DEF Queue, Contiguous
<1> QED
  BY <1>1, <1>2, <1>3, <1>4

(* As many packets wait as descriptors are in use *)
LEMMA RoomIs ==
    ASSUME TypeOK, Queue, ~ restarted
    PROVE  /\ Cardinality(Waiting) \in Nat /\ Cardinality(Waiting) <= NO_OF_RX_FIFOS
           /\ Cardinality(Waiting) = NO_OF_RX_FIFOS <=> \A i \in Fifo : fifo_rx[i] # 0
<1>1. IsFiniteSet(Fifo) /\ Cardinality(Fifo) = NO_OF_RX_FIFOS
  <2>1. 0 \in Int /\ NO_OF_RX_FIFOS - 1 \in Int /\ NO_OF_RX_FIFOS \in Nat /\ NO_OF_RX_FIFOS > 0
    BY FifoFacts
  <2>2. /\ IsFiniteSet(0 .. NO_OF_RX_FIFOS - 1)
        /\ Cardinality(0 .. NO_OF_RX_FIFOS - 1) =
             IF 0 > NO_OF_RX_FIFOS - 1 THEN 0 ELSE (NO_OF_RX_FIFOS - 1) - 0 + 1
    BY <2>1, FS_Interval
  <2> QED
    BY <2>1, <2>2 DEF Fifo
<1>2. InUse \in SUBSET Fifo
  BY DEF InUse
<1>3. /\ IsFiniteSet(InUse) /\ Cardinality(InUse) <= NO_OF_RX_FIFOS
      /\ Cardinality(InUse) = NO_OF_RX_FIFOS => InUse = Fifo
  BY <1>1, <1>2, FS_Subset, Zenon
<1>4. Cardinality(InUse) \in Nat
  BY <1>3, FS_CardinalityType
<1>5. Cardinality(Waiting) = Cardinality(InUse)
  <2> DEFINE g == [i \in InUse |-> fifo_rx[i]]
  <2>1. g \in [InUse -> Waiting]
    BY WaitingIs DEF InUse
  <2>2. \A i, j \in InUse : g[i] = g[j] => i = j
    BY Different DEF InUse
  <2>3. \A p \in Waiting : \E i \in InUse : g[i] = p
    BY WaitingIs DEF InUse
  <2> HIDE DEF g
  <2>4. g \in Bijection(InUse, Waiting)
    <3>1. g \in Injection(InUse, Waiting)
      BY <2>1, <2>2, Zenon DEF Injection, IsInjective
    <3>2. g \in Surjection(InUse, Waiting)
      BY <2>1, <2>3, Zenon DEF Surjection
    <3> QED
      BY <3>1, <3>2, Zenon DEF Bijection
  <2>5. ExistsBijection(InUse, Waiting)
    BY <2>4 DEF ExistsBijection
  <2> QED
    BY <2>5, <1>3, FS_Bijection
<1>6. InUse = Fifo <=> \A i \in Fifo : fifo_rx[i] # 0
  BY DEF InUse
<1> QED
  BY <1>1, <1>3, <1>4, <1>5, <1>6

(* What the queue shows depends on these alone *)
LEMMA SameShown ==
    ASSUME UNCHANGED <<fifo_rx, last, restarted>>, (pc' = "handler") <=> (pc = "handler")
    PROVE  Waiting' = Waiting /\ Busy' = Busy
BY DEF Waiting, Busy

LEMMA SameCardinality == \A S : PQ!Cardinality(S) = Cardinality(S)
BY DEF PQ!Cardinality, Cardinality

LEMMA ArriveShown ==
    ASSUME TypeOK, Queue, ~ restarted, Arrives
    PROVE  PQ!Arrive \/ PQ!Overrun
<1>1. /\ DMA_RX_CTRL /\ arrived' = arrived + 1
      /\ UNCHANGED <<pc, last, restarted>>
  BY DEF Arrives
<1>2. Receiving /\ Busy' = Busy
  BY <1>1 DEF Receiving, Busy
<1>3. DMA_RX_DESC \in Fifo
  BY DEF TypeOK
<1>4. CASE rx_owned_by_dma(DMA_RX_DESC)
  <2>1. fifo_rx[DMA_RX_DESC] = 0
    BY <1>4 DEF rx_owned_by_dma
  <2>2. fifo_rx' = [fifo_rx EXCEPT ![DMA_RX_DESC] = arrived + 1] /\ DMA_RX_CTRL' = DMA_RX_CTRL
    BY <1>4 DEF Arrives
  <2>3. Cardinality(Waiting) < NO_OF_RX_FIFOS
    <3>1. Cardinality(Waiting) # NO_OF_RX_FIFOS
      BY <1>3, <2>1, RoomIs
    <3> QED
      BY <3>1, RoomIs, FifoFacts
  <2>4. Waiting' = Waiting \cup {arrived + 1}
    <3>1. arrived + 1 # 0 /\ fifo_rx \in [Fifo -> Nat]
      BY DEF TypeOK
    <3> QED
      BY <1>1, <1>3, <2>1, <2>2, <3>1 DEF Waiting
  <2>5. Receiving' = Receiving
    BY <1>1, <2>2 DEF Receiving
  <2> QED
    BY <1>1, <1>2, <2>3, <2>4, <2>5, SameCardinality DEF PQ!Arrive
<1>5. CASE ~ rx_owned_by_dma(DMA_RX_DESC)
  <2>1. UNCHANGED fifo_rx /\ DMA_RX_CTRL' = FALSE
    BY <1>5 DEF Arrives
  <2>2. Cardinality(Waiting) = NO_OF_RX_FIFOS
    BY <1>5, RoomIs DEF rx_owned_by_dma, Queue, DmaBehindLast
  <2>3. Waiting' = Waiting
    BY <1>1, <2>1 DEF Waiting
  <2>4. Receiving' = FALSE
    BY <2>1 DEF Receiving
  <2> QED
    BY <1>1, <1>2, <2>2, <2>3, <2>4, SameCardinality DEF PQ!Overrun
<1> QED
  BY <1>4, <1>5

LEMMA HandShown ==
    ASSUME TypeOK, Queue, ~ restarted, NetReceive
    PROVE  \E p \in Waiting : PQ!Hand(p)
<1> DEFINE p == fifo_rx[next_rx]
<1>1. /\ pc = "recv" /\ p # 0 /\ last' = p /\ pc' = "handler"
      /\ UNCHANGED <<fifo_rx, DMA_RX_CTRL, arrived, restarted>> /\ next_rx \in Fifo
  BY DEF NetReceive, rx_owned_by_dma, TypeOK
<1>2. p \in Waiting
  BY <1>1, WaitingIs
<1>3. \A q \in Waiting : p <= q
  <2> SUFFICES ASSUME NEW q \in Waiting PROVE p <= q
    OBVIOUS
  <2>1. PICK j \in Fifo : fifo_rx[j] = q /\ q # 0
    BY WaitingIs
  <2>2. fifo_rx[j] \in Nat /\ p \in Nat
    BY <1>1 DEF TypeOK
  <2>3. CASE j = next_rx
    BY <2>1, <2>2, <2>3
  <2>4. CASE j # next_rx
    <3>1. Dist(next_rx) < Dist(j)
      BY <1>1, <2>4, DistFacts
    <3>2. p < fifo_rx[j]
      BY <1>1, <2>1, <3>1 DEF Queue, Contiguous
    <3> QED
      BY <2>1, <2>2, <3>2
  <2> QED
    BY <2>3, <2>4
<1>4. Busy = 0 /\ Busy' = p /\ Waiting' = Waiting /\ Receiving' = Receiving
  BY <1>1 DEF Busy, Waiting, Receiving
<1> QED
  BY <1>1, <1>2, <1>3, <1>4 DEF PQ!Hand

LEMMA ReleaseShown ==
    ASSUME TypeOK, Queue, ~ restarted, HandlerReturns
    PROVE  PQ!Release
<1>1. /\ pc = "handler" /\ fifo_rx' = [fifo_rx EXCEPT ![f] = 0] /\ pc' = "recv"
      /\ UNCHANGED <<DMA_RX_CTRL, arrived, last, restarted>> /\ f \in Fifo
  BY DEF HandlerReturns, TypeOK
<1>2. fifo_rx[f] = last /\ last # 0
  BY <1>1 DEF Queue, InHandler
<1>3. Busy = last /\ Busy' = 0 /\ Receiving' = Receiving
  BY <1>1 DEF Busy, Receiving
<1>4. Waiting' = Waiting \ {last}
  <2>1. \A i \in Fifo : i # f => fifo_rx[i] # last
    BY <1>1, <1>2, Different
  <2>2. \A i \in Fifo : fifo_rx'[i] = IF i = f THEN 0 ELSE fifo_rx[i]
    BY <1>1 DEF TypeOK
  <2> QED
    BY <1>1, <1>2, <2>1, <2>2 DEF Waiting
<1> QED
  BY <1>1, <1>2, <1>3, <1>4 DEF PQ!Release

LEMMA SwitchOnShown ==
    ASSUME TypeOK, Queue, ~ restarted, recv_ends
    PROVE  PQ!SwitchOn
<1>1. /\ pc = "recv" /\ fifo_rx[next_rx] = 0 /\ DMA_RX_CTRL' = TRUE /\ pc' = "loop"
      /\ UNCHANGED <<fifo_rx, arrived, last, restarted>> /\ next_rx \in Fifo
  BY DEF recv_ends, rx_owned_by_dma, TypeOK
<1>2. \A i \in Fifo : fifo_rx[i] = 0
  <2> SUFFICES ASSUME NEW i \in Fifo, fifo_rx[i] # 0 PROVE FALSE
    OBVIOUS
  <2>1. i # next_rx
    BY <1>1
  <2>2. Dist(next_rx) < Dist(i)
    BY <1>1, <2>1, DistFacts
  <2> QED
    BY <1>1, <2>2 DEF Queue, Contiguous
<1>3. Waiting = {} /\ Waiting' = Waiting
  BY <1>1, <1>2 DEF Waiting
<1>4. Busy = 0 /\ Busy' = Busy
  BY <1>1 DEF Busy
<1>5. Receiving' = TRUE
  BY <1>1 DEF Receiving
<1> QED
  BY <1>1, <1>3, <1>4, <1>5 DEF PQ!SwitchOn

LEMMA SetUpShown ==
    ASSUME clean_rx
    PROVE  PQ!SetUp
<1>1. /\ pc = "prompt" /\ pc' = "loop" /\ restarted' = FALSE /\ DMA_RX_CTRL' = TRUE
      /\ fifo_rx' = [i \in Fifo |-> 0] /\ UNCHANGED arrived
  BY DEF clean_rx, CleanRx
<1>2. Busy = 0 /\ Busy' = 0 /\ Receiving' = TRUE
  BY <1>1 DEF Busy, Receiving
<1>3. Waiting' = {}
  BY <1>1 DEF Waiting
<1> QED
  BY <1>1, <1>2, <1>3 DEF PQ!SetUp

LEMMA SpoilShown ==
    ASSUME Queue, ~ restarted, NetStartAgain
    PROVE  PQ!Spoil
<1>1. pc = "handler" /\ restarted' = TRUE /\ UNCHANGED arrived
  BY DEF NetStartAgain
<1>2. Busy # 0 /\ Busy' = 0
  BY <1>1 DEF Busy, Queue, InHandler
<1>3. Waiting' = {} /\ Receiving' = FALSE
  BY <1>1 DEF Waiting, Receiving
<1> QED
  BY <1>1, <1>2, <1>3 DEF PQ!Spoil

(* A spoilt ring shows nothing *)
LEMMA SpoiltShown ==
    ASSUME restarted, [Next]_vars, ~ clean_rx
    PROVE  PQ!Unknown \/ UNCHANGED PQ!vars
<1>1. restarted' /\ restarted' = restarted /\ (arrived' = arrived + 1 \/ arrived' = arrived)
  BY DEF Next, Arrives, clean_rx_no_link, halt, recv, NetReceive, NetStartAgain,
         HandlerHalts, HandlerReturns, recv_ends, vars
<1>2. Waiting' = Waiting /\ Busy' = Busy /\ Receiving' = Receiving
  BY <1>1 DEF Waiting, Busy, Receiving
<1> QED
  BY <1>1, <1>2 DEF PQ!Unknown, PQ!vars

LEMMA QueueShown ==
    ASSUME TypeOK, RingInOrder, [Next]_vars
    PROVE  PQ!Next \/ UNCHANGED PQ!vars
<1>1. CASE clean_rx
  BY <1>1, SetUpShown DEF PQ!Next
<1>2. CASE restarted /\ ~ clean_rx
  BY <1>2, SpoiltShown DEF PQ!Next
<1>3. CASE ~ restarted /\ ~ clean_rx
  <2>0. Queue
    BY <1>3 DEF RingInOrder
  <2>1. CASE Arrives
    BY <1>3, <2>0, <2>1, ArriveShown DEF PQ!Next
  <2>2. CASE NetReceive
    BY <1>3, <2>0, <2>2, HandShown DEF PQ!Next
  <2>3. CASE HandlerReturns
    BY <1>3, <2>0, <2>3, ReleaseShown DEF PQ!Next
  <2>4. CASE recv_ends
    BY <1>3, <2>0, <2>4, SwitchOnShown DEF PQ!Next
  <2>5. CASE NetStartAgain
    BY <1>3, <2>0, <2>5, SpoilShown DEF PQ!Next
  <2>6. CASE halt \/ HandlerHalts
    <3>1. /\ UNCHANGED <<fifo_rx, last, restarted, arrived>> /\ DMA_RX_CTRL' = FALSE
          /\ (pc' = "handler") <=> (pc = "handler")
      BY <2>6 DEF halt, HandlerHalts
    <3>2. Waiting' = Waiting /\ Busy' = Busy
      BY <3>1, SameShown
    <3>3. Receiving' = FALSE /\ Receiving \in BOOLEAN
      BY <3>1 DEF Receiving
    <3>4. CASE Receiving
      BY <3>1, <3>2, <3>3, <3>4 DEF PQ!SwitchOff, PQ!Next
    <3>5. CASE ~ Receiving
      BY <3>1, <3>2, <3>3, <3>5 DEF PQ!vars
    <3> QED
      BY <3>4, <3>5
  <2>7. CASE clean_rx_no_link \/ recv \/ UNCHANGED vars
    <3>1. /\ UNCHANGED <<fifo_rx, last, restarted, arrived, DMA_RX_CTRL>>
          /\ (pc' = "handler") <=> (pc = "handler")
      BY <2>7 DEF clean_rx_no_link, recv, vars
    <3>2. Waiting' = Waiting /\ Busy' = Busy
      BY <3>1, SameShown
    <3>3. Receiving' = Receiving
      BY <3>1 DEF Receiving
    <3> QED
      BY <3>1, <3>2, <3>3 DEF PQ!vars
  <2> QED
    BY <1>3, <2>1, <2>2, <2>3, <2>4, <2>5, <2>6, <2>7 DEF Next
<1> QED
  BY <1>1, <1>2, <1>3

(* ag7240_recv and the DMA, sharing descriptors without a lock, are a queue of
   packets for a ring of any size: none is lost while a descriptor is free and the
   receiver is on, and none is handed over before an older one. *)
THEOREM RingIsQueue == Spec => ImplementsPacketQueue
<1>1. Init => PQ!Init
  <2> SUFFICES ASSUME Init PROVE PQ!Init
    OBVIOUS
  <2>1. /\ restarted = FALSE /\ DMA_RX_CTRL = FALSE /\ pc = "prompt"
        /\ arrived = NO_OF_RX_FIFOS /\ fifo_rx = [i \in Fifo |-> i + 1]
    BY DEF Init
  <2>2. Waiting = 1 .. NO_OF_RX_FIFOS
    <3>1. \A i \in Fifo : i + 1 \in 1 .. NO_OF_RX_FIFOS /\ i + 1 # 0
      BY FifoFacts
    <3>2. \A p \in 1 .. NO_OF_RX_FIFOS : p # 0 /\ p - 1 \in Fifo /\ (p - 1) + 1 = p
      BY FifoFacts DEF Fifo
    <3> QED
      BY <2>1, <3>1, <3>2 DEF Waiting
  <2>3. Busy = 0 /\ Receiving = FALSE
    BY <2>1 DEF Busy, Receiving
  <2> QED
    BY <2>1, <2>2, <2>3 DEF PQ!Init
<1>2. TypeOK /\ RingInOrder /\ [Next]_vars => [PQ!Next]_(PQ!vars)
  BY QueueShown
<1> QED
  BY <1>1, <1>2, TypeCorrect, AlwaysRingInOrder, PTL
     DEF Spec, ImplementsPacketQueue, PQ!Spec

=============================================================================
