---------------------------- MODULE YmodemProofs ----------------------------
(***************************************************************************)
(* Proofs about module Ymodem: without crossed answers, loady stores the   *)
(* file, whatever its length and however packets and answers are lost or   *)
(* garbled, unless a garbled packet is misread.                            *)
(***************************************************************************)
EXTENDS Ymodem, FiniteSetTheorems, SequenceTheorems, TLAPS

\* There are at least two tries for each fault and two more (else the block before is
\* stored again by the last try), and the padding can be told from the file.
EnoughTries ==
    /\ 2 * MaxNoise + 2 <= MAX_RETRIES
    /\ \/ LengthSent = {TRUE}
       \/ \A u \in EofUnits : u % BlockLen # 0 /\ u # FileLength

\* Units in the first b blocks.
UnitsIn(b) == IF b * BlockLen <= FileLength THEN b * BlockLen ELSE FileLength

\* The board is in xyzModem_stream_read or its caller, and goes on.
Loading == ~ at_eof /\ (pc = "read" \/ (pc = "load" /\ len >= 0))
Opening == pc \in {"prompt", "open"}

\* What has been put into place: pkt is the number of blocks received.
Storage ==
    /\ \A i \in DOMAIN stored : stored[i] = i
    /\ Len(stored) <= FileLength
    /\ len + bufp <= BlockLen
    /\ pc = "final" => len = 0
    /\ at_eof => pc \in {"load", "ended", "aborted", "undefined"}
    /\ pc = "final" \/ at_eof => Len(stored) = FileLength
    /\ Opening => /\ stored = <<>> /\ pkt = 0 /\ bufp = 0 /\ len = 0 /\ ~ at_eof
                  /\ file_length = 0 /\ read_length = 0
    /\ Loading =>
         /\ Len(stored) + len = UnitsIn(pkt)
         /\ len > 0 => pkt > 0 /\ Len(stored) = ((pkt - 1) * BlockLen) + bufp
         /\ pc = "read" => len = 0
         /\ IF file_length = 0 THEN FALSE \in LengthSent ELSE read_length = pkt * BlockLen

IsBlock(i) == line[i].type = "block"

OnlyCAN == \A i \in DOMAIN line : line[i].type = "CAN"

\* Which packets may be on their way.
Lines ==
    \A i \in DOMAIN line :
      /\ i > 1 => line[i].type = "CAN"
      /\ IsBlock(i) => line[i].blk = sblk /\ line[i].crc = scrc
      /\ IsBlock(i) => snd \in {"header", "data", "stopped"}
      /\ line[i].type = "EOT" => snd \in {"eot", "stopped"} /\ sblk = NBlocks /\ pkt = NBlocks
      /\ ~ IsBlock(i) => line[i].bad = "no"
      /\ line[i].type = "CAN" => snd = "stopped"

\* At most one packet or answer is on its way; nothing comes while
\* xyzModem_flush runs, and nothing has been left to it when the board goes on.
Ring ==
    /\ Lines
    /\ snd # "stopped" => (line = <<>> \/ back = <<>>) /\ Len(line) <= 1 /\ Len(back) <= 1
    /\ snd \in {"off", "stopped"} => back = <<>>
    /\ flushing # "no" => back = <<>> /\ OnlyCAN
    /\ pc \in {"prompt", "load"} => flushing = "no" /\ back = <<>> /\ OnlyCAN

\* Where the sender is while the header is awaited ...
RingOpen ==
    /\ Ring
    /\ snd \in {"off", "start", "header", "stopped"} /\ sblk = 0
    /\ \A i \in DOMAIN back : back[i] # "ACK"
    /\ \A i \in DOMAIN line : line[i].type # "EOT"

\* ... and later: at the block received last, or at the next one.
RingLoad ==
    /\ Ring
    /\ next_blk = (pkt + 1) % BlkModulus
    /\ scrc = crc_mode
    /\ \/ snd \in {"header", "wait"} /\ sblk = 0 /\ pkt = 0
       \/ snd = "data" /\ sblk > 0 /\ pkt \in {sblk - 1, sblk}
       \/ snd = "eot" /\ sblk = NBlocks /\ pkt = NBlocks
       \/ snd = "stopped" /\ pkt \in {sblk - 1, sblk}
    /\ \A i \in DOMAIN back : back[i] = "ACK" => snd \in {"header", "data"} /\ sblk = pkt
    /\ pc = "load" => tx_ack /\ snd \in {"header", "data", "stopped"} /\ sblk = pkt

\* The tries that are needed until the next block when nothing is on its way ...
Lag == IF snd = "header" THEN 3 ELSE IF snd = "data" /\ sblk = pkt THEN 2 ELSE 1

\* ... and in general, without a further fault.
Need ==
    IF snd = "stopped"
    THEN IF line # <<>> /\ IsBlock(1) /\ line[1].bad = "no" /\ sblk = pkt THEN 1 ELSE 0
    ELSE IF back # <<>> THEN IF back[1] = "ACK" THEN Lag - 2 ELSE Lag - 1
    ELSE IF line # <<>> /\ line[1].bad = "no" THEN Lag - 1 ELSE Lag

Tries == pc = "read" => retries >= IF snd = "stopped" THEN Need ELSE 2 * noise + Need

FileInv ==
    /\ TypeOK /\ Storage
    /\ Opening => RingOpen
    /\ Loading => RingLoad /\ Tries

-----------------------------------------------------------------------------
(* Arithmetic: blocks, units and block numbers *)

LEMMA Product ==
    ASSUME NEW a \in Int, NEW n \in Int
    PROVE  a * n \in Int /\ (a - 1) * n = (a * n) - n /\ (a + 1) * n = (a * n) + n
OBVIOUS

LEMMA ProductGrows ==
    ASSUME NEW a \in Nat, NEW b \in Nat, NEW n \in Nat, a <= b
    PROVE  a * n <= b * n /\ a * n \in Nat
<1>1. b - a \in Nat /\ (b - a) * n \in Nat
  OBVIOUS
<1>2. (b - a) * n = (b * n) - (a * n) /\ a * n \in Nat /\ b * n \in Nat
  OBVIOUS
<1> QED BY <1>1, <1>2

LEMMA Division ==
    ASSUME NEW a \in Nat, NEW n \in Nat \ {0}
    PROVE  /\ a \div n \in Nat /\ a % n \in 0 .. n - 1
           /\ a = (a \div n) * n + (a % n)
OBVIOUS

\* The blocks cover the file, and the last one is needed.
LEMMA LastBlock ==
    /\ NBlocks \in Nat \ {0}
    /\ FileLength <= NBlocks * BlockLen /\ (NBlocks - 1) * BlockLen < FileLength
<1> DEFINE a == FileLength + BlockLen - 1
<1>1. a \in Nat /\ BlockLen \in Nat \ {0} /\ FileLength \in Nat \ {0} /\ a = FileLength + BlockLen - 1
  BY YmodemAssumption
<1>2. NBlocks = a \div BlockLen
  BY DEF NBlocks
<1> HIDE DEF a
<1>3. NBlocks \in Nat /\ a % BlockLen \in 0 .. BlockLen - 1 /\ a = (NBlocks * BlockLen) + (a % BlockLen)
  BY <1>1, <1>2, Division
<1>4. NBlocks * BlockLen \in Int /\ (NBlocks - 1) * BlockLen = (NBlocks * BlockLen) - BlockLen
  BY <1>1, <1>3, Product
<1>5. FileLength <= NBlocks * BlockLen /\ (NBlocks - 1) * BlockLen < FileLength
  BY <1>1, <1>3, <1>4
<1>6. NBlocks # 0
  <2>1. 0 * BlockLen = 0
    BY <1>1
  <2> QED BY <1>1, <1>5, <2>1
<1> QED BY <1>3, <1>5, <1>6

LEMMA Units ==
    /\ UnitsIn(0) = 0 /\ UnitsIn(NBlocks) = FileLength
    /\ \A b \in 0 .. NBlocks : UnitsIn(b) \in 0 .. FileLength
    /\ \A b \in 1 .. NBlocks :
         /\ UnitsIn(b - 1) = (b - 1) * BlockLen /\ (b - 1) * BlockLen \in Nat
         /\ b * BlockLen = ((b - 1) * BlockLen) + BlockLen
         /\ UnitsIn(b) - ((b - 1) * BlockLen) \in 1 .. BlockLen
<1> USE YmodemAssumption
<1>1. ASSUME NEW b \in Nat PROVE b * BlockLen \in Nat
  OBVIOUS
<1>2. UnitsIn(0) = 0
  <2>1. 0 * BlockLen = 0
    OBVIOUS
  <2> QED BY <2>1 DEF UnitsIn
<1>3. UnitsIn(NBlocks) = FileLength
  BY <1>1, LastBlock DEF UnitsIn
<1>4. \A b \in 0 .. NBlocks : UnitsIn(b) \in 0 .. FileLength
  BY <1>1, LastBlock DEF UnitsIn
<1>5. ASSUME NEW b \in 1 .. NBlocks
      PROVE  /\ UnitsIn(b - 1) = (b - 1) * BlockLen /\ (b - 1) * BlockLen \in Nat
             /\ b * BlockLen = ((b - 1) * BlockLen) + BlockLen
             /\ UnitsIn(b) - ((b - 1) * BlockLen) \in 1 .. BlockLen
  <2>1. b \in Nat /\ b - 1 \in Nat /\ b - 1 <= NBlocks - 1 /\ NBlocks - 1 \in Nat
    BY LastBlock
  <2>2. (b - 1) * BlockLen <= (NBlocks - 1) * BlockLen /\ (b - 1) * BlockLen \in Nat
    BY <2>1, ProductGrows
  <2>3. b * BlockLen = ((b - 1) * BlockLen) + BlockLen /\ b * BlockLen \in Int
    BY <2>1, <2>2, Product
  <2>4. (b - 1) * BlockLen < FileLength
    BY <2>1, <2>2, LastBlock, <1>1
  <2> QED BY <2>2, <2>3, <2>4 DEF UnitsIn
<1> QED BY <1>2, <1>3, <1>4, <1>5

\* Only padding is removed.
LEMMA DataLengthRight ==
    ASSUME EnoughTries, NEW b \in 1 .. NBlocks, NEW read \in Nat,
           IF file_length = 0 THEN FALSE \in LengthSent
           ELSE file_length = FileLength /\ read = b * BlockLen
    PROVE  DataLength(b, read) = UnitsIn(b) - ((b - 1) * BlockLen)
<1> USE YmodemAssumption
<1> DEFINE o == (b - 1) * BlockLen
           n0 == UnitsIn(b) - o
<1>0. /\ o \in Nat /\ b * BlockLen = o + BlockLen /\ n0 \in 1 .. BlockLen
      /\ UnitsIn(b) \in 0 .. FileLength
  BY Units, LastBlock
<1>1. UnitsIn(b) = IF o + BlockLen <= FileLength THEN o + BlockLen ELSE FileLength
  BY <1>0 DEF UnitsIn
<1>2. CASE file_length = 0
  <2>1. \A u \in EofUnits : u % BlockLen # 0 /\ u # FileLength
    BY <1>2 DEF EnoughTries
  <2>2. ~ Eof(UnitsIn(b))
    <3>1. UnitsIn(b) \notin EofUnits
      <4>1. CASE UnitsIn(b) = FileLength
        BY <2>1, <4>1
      <4>2. CASE UnitsIn(b) = b * BlockLen
        <5>1. (b * BlockLen) % BlockLen = 0
          <6>1. b \in Nat /\ BlockLen \in Nat \ {0}
            BY LastBlock
          <6> QED BY <6>1
        <5> QED BY <2>1, <4>2, <5>1
      <4> QED BY <1>0, <1>1, <4>1, <4>2
    <3> QED BY <1>0, <3>1 DEF Eof
  <2> DEFINE Fits(n) == /\ \A i \in n + 1 .. BlockLen : Eof(o + i)
                        /\ n = 0 \/ ~ Eof(o + n)
  <2> HIDE DEF o
  <2>3. Fits(n0)
    <3>1. ASSUME NEW i \in n0 + 1 .. BlockLen PROVE o + i > FileLength
      BY <1>0, <1>1, <3>1
    <3>2. o + n0 = UnitsIn(b)
      BY <1>0
    <3> QED BY <2>2, <3>1, <3>2 DEF Eof
  <2>4. ASSUME NEW n \in 0 .. BlockLen, Fits(n) PROVE n = n0
    <3>1. ~ (n < n0)
      <4>1. n < n0 => Eof(o + n0)
        BY <1>0, <2>4
      <4>2. o + n0 = UnitsIn(b)
        BY <1>0
      <4> QED BY <2>2, <4>1, <4>2
    <3>2. ~ (n0 < n)
      <4>1. n0 < n => o + n > FileLength /\ n # 0
        BY <1>0, <1>1
      <4> QED BY <2>4, <4>1 DEF Eof
    <3> QED BY <1>0, <3>1, <3>2
  <2> HIDE DEF n0
  <2>5. n0 = CHOOSE n \in 0 .. BlockLen : Fits(n)
    <3>1. n0 \in 0 .. BlockLen
      BY <1>0
    <3> HIDE DEF Fits
    <3> QED BY <2>3, <2>4, <3>1
  <2>6. Trimmed(b) = n0
    BY <2>5 DEF Trimmed, o
  <2> QED BY <1>2, <2>6 DEF DataLength, n0, o
<1>3. CASE file_length # 0
  <2>1. file_length = FileLength /\ read = o + BlockLen
    BY <1>0, <1>3
  <2> HIDE DEF o
  <2>2. DataLength(b, read) = n0
    BY <1>0, <1>1, <1>3, <2>1 DEF DataLength
  <2> QED BY <2>2 DEF o
<1> QED BY <1>2, <1>3

LEMMA DivisionUnique ==
    ASSUME NEW n \in Nat \ {0}, NEW k \in Nat, NEW y \in 0 .. n - 1
    PROVE  ((k * n) + y) % n = y
<1> DEFINE a == (k * n) + y
           q == a \div n
           r == a % n
<1>1. k * n \in Nat /\ a \in Nat
  OBVIOUS
<1>2. a = (k * n) + y
  OBVIOUS
<1> HIDE DEF a
<1>3. q \in Nat /\ r \in 0 .. n - 1 /\ a = (q * n) + r
  BY <1>1, Division
<1> HIDE DEF q, r
<1>4. q * n \in Nat /\ (q + 1) * n = (q * n) + n /\ (k + 1) * n = (k * n) + n
  BY <1>3
<1>5. ~ (q + 1 <= k)
  <2>1. q + 1 <= k => (q + 1) * n <= k * n
    BY <1>3, ProductGrows
  <2> QED BY <1>1, <1>2, <1>3, <1>4, <2>1
<1>6. ~ (k + 1 <= q)
  <2>1. k + 1 <= q => (k + 1) * n <= q * n
    BY <1>3, ProductGrows
  <2> QED BY <1>1, <1>2, <1>3, <1>4, <2>1
<1>7. q = k
  BY <1>3, <1>5, <1>6
<1>8. r = y
  BY <1>1, <1>2, <1>3, <1>7
<1> QED BY <1>8, Zenon DEF r, a

LEMMA NextRemainder ==
    ASSUME NEW b \in Nat
    PROVE  (b + 1) % BlkModulus = IF b % BlkModulus = BlkModulus - 1 THEN 0 ELSE (b % BlkModulus) + 1
<1> DEFINE M == BlkModulus
           k == b \div M
           a == b % M
<1>1. M \in Nat \ {0}
  BY YmodemAssumption
<1> HIDE DEF M
<1>2. k \in Nat /\ a \in 0 .. M - 1 /\ b = (k * M) + a
  BY <1>1, Division
<1> HIDE DEF k
<1>3. k * M \in Nat /\ (k + 1) * M = (k * M) + M
  BY <1>1, <1>2
<1>4. CASE a = M - 1
  <2>1. b + 1 = ((k + 1) * M) + 0
    BY <1>1, <1>2, <1>3, <1>4
  <2>2. (((k + 1) * M) + 0) % M = 0
    BY <1>1, <1>2, DivisionUnique
  <2> QED BY <1>4, <2>1, <2>2 DEF M
<1>5. CASE a # M - 1
  <2>1. b + 1 = (k * M) + (a + 1) /\ a + 1 \in 0 .. M - 1
    BY <1>1, <1>2, <1>3, <1>5
  <2>2. ((k * M) + (a + 1)) % M = a + 1
    BY <1>1, <1>2, <2>1, DivisionUnique
  <2> QED BY <1>5, <2>1, <2>2 DEF M
<1> QED BY <1>4, <1>5

\* The numbers of a block and of the next one differ.
LEMMA Numbers ==
    ASSUME NEW b \in Nat
    PROVE  /\ (b + 1) % BlkModulus \in 0 .. BlkModulus - 1
           /\ b % BlkModulus # (b + 1) % BlkModulus
           /\ (((b + 1) % BlkModulus) - 1) % BlkModulus = b % BlkModulus
           /\ NextBlk((b + 1) % BlkModulus) = (b + 2) % BlkModulus
<1> DEFINE M == BlkModulus
           a == b % M
           c == (b + 1) % M
<1>1. M \in Nat /\ M >= 3
  BY YmodemAssumption
<1>2. a \in 0 .. M - 1
  BY <1>1, Division
<1>3. c = IF a = M - 1 THEN 0 ELSE a + 1
  BY NextRemainder
<1>4. (b + 2) % M = IF c = M - 1 THEN 0 ELSE c + 1
  <2>1. b + 1 \in Nat /\ (b + 1) + 1 = b + 2
    OBVIOUS
  <2> QED BY <2>1, NextRemainder
<1> HIDE DEF a, c
<1>5. (c - 1) % M = a
  <2>1. CASE a = M - 1
    <3>1. c - 1 = -1
      BY <1>3, <2>1
    <3>2. (-1) % M = M - 1
      BY <1>1
    <3> QED BY <2>1, <3>1, <3>2
  <2>2. CASE a # M - 1
    <3>1. c - 1 = a
      BY <1>2, <1>3, <2>2
    <3>2. a % M = a
      BY <1>1, <1>2
    <3> QED BY <3>1, <3>2
  <2> QED BY <2>1, <2>2
<1>6. (c + 1) % M = IF c = M - 1 THEN 0 ELSE c + 1
  <2>1. c \in 0 .. M - 1
    BY <1>1, <1>2, <1>3
  <2>2. CASE c = M - 1
    <3>1. c + 1 = (1 * M) + 0
      BY <1>1, <2>2
    <3>2. ((1 * M) + 0) % M = 0
      BY <1>1, DivisionUnique
    <3> QED BY <2>2, <3>1, <3>2
  <2>3. CASE c # M - 1
    BY <1>1, <2>1, <2>3
  <2> QED BY <2>2, <2>3
<1>7. c \in 0 .. M - 1 /\ a # c
  BY <1>1, <1>2, <1>3
<1> QED BY <1>4, <1>5, <1>6, <1>7 DEF a, c, NextBlk

-----------------------------------------------------------------------------
(* Types *)

LEMMA NonEmpty ==
    ASSUME NEW S, NEW s \in Seq(S)
    PROVE  /\ Len(s) \in Nat /\ DOMAIN s = 1 .. Len(s)
           /\ s = <<>> <=> Len(s) = 0
           /\ s # <<>> => Len(s) >= 1 /\ Head(s) = s[1] /\ s[1] \in S /\ 1 \in DOMAIN s
           /\ Len(s) >= 1 => s # <<>>
           /\ <<>> \in Seq(S) /\ DOMAIN <<>> = {} /\ Len(<<>>) = 0
<1>1. Len(s) \in Nat /\ DOMAIN s = 1 .. Len(s)
  OBVIOUS
<1>2. s = <<>> <=> Len(s) = 0
  BY EmptySeq
<1>3. <<>> \in Seq(S) /\ Len(<<>>) = 0 /\ DOMAIN <<>> = {}
  BY EmptySeq
<1> QED BY <1>1, <1>2, <1>3

LEMMA Tails ==
    ASSUME NEW S, NEW s \in Seq(S), s # <<>>
    PROVE  /\ Tail(s) \in Seq(S) /\ Len(Tail(s)) = Len(s) - 1
           /\ \A i \in 1 .. Len(s) - 1 : Tail(s)[i] = s[i + 1]
BY HeadTailProperties

Answers == {"ACK", "NAK", "C"}

LEMMA PutType ==
    ASSUME TypeOK, NEW chars \in Seq(Answers), Put(chars)
    PROVE  back' \in Seq(Answers)
BY DEF TypeOK, Put, Answers

\* A time-out that crosses no answer.
LEMMA NothingComes ==
    ASSUME TypeOK, slow' = slow, Silence
    PROVE  line = <<>> /\ back = <<>>
<1>1. slow \in Int
  BY YmodemAssumption DEF TypeOK
<1> QED BY <1>1 DEF Silence

LEMMA NakType == Nak \in Answers /\ <<Nak>> \in Seq(Answers)
BY DEF Nak, Answers

\* xyzModem_get_hdr never leaves anything but packets on the line.
LEMMA HdrTypes ==
    ASSUME TypeOK, NEW stat, NEW p, NEW chars \in Seq(Answers), get_hdr(stat, p, chars)
    PROVE  /\ UNCHANGED <<snd, sblk, scrc, noise>>
           /\ line' \in Seq(Packets) /\ back' \in Seq(Answers) /\ flushing' = "no"
<1>1. line \in Seq(Packets) /\ flushing \in {"no", "timeout", "frame"}
  BY DEF TypeOK
<1>2. line # <<>> => Head(line) \in Packets /\ Tail(line) \in Seq(Packets)
  BY <1>1
<1>3. back' \in Seq(Answers)
  <2>1. <<"ACK">> \in Seq(Answers)
    BY DEF Answers
  <2>2. <<"ACK">> \o chars \in Seq(Answers)
    BY <2>1
  <2>3. Put(IF stat = "eof" THEN <<"ACK">> \o chars ELSE chars)
    BY DEF get_hdr
  <2> QED BY <2>2, <2>3, PutType
<1>4. ASSUME p \in Packets, NEW rest \in Rest(p) PROVE rest \in Seq(Packets)
  <2>1. CASE rest = <<>>
    BY <2>1
  <2>2. ASSUME NEW b \in {"cksum", "EOT", "frame", "short"}, rest = <<[p EXCEPT !.bad = b]>>
        PROVE  rest \in Seq(Packets)
    <3>1. [p EXCEPT !.bad = b] \in Packets
      BY <1>4 DEF Packets, Whole, Early
    <3> QED BY <2>2, <3>1
  <2> QED BY <1>4, <2>1, <2>2 DEF Rest
<1>5. line' \in Seq(Packets) /\ flushing' = "no"
  <2>1. CASE /\ flushing = "no" /\ line # <<>> /\ p = Head(line)
             /\ \E rest \in Rest(p) : line' = rest \o Tail(line)
             /\ UNCHANGED flushing
    <3>1. PICK rest \in Rest(p) : line' = rest \o Tail(line)
      BY <2>1
    <3>2. rest \in Seq(Packets) /\ Tail(line) \in Seq(Packets)
      BY <1>2, <1>4, <2>1
    <3>3. line' \in Seq(Packets)
      BY <3>1, <3>2, ConcatProperties
    <3> QED BY <2>1, <3>3
  <2>2. CASE flushing = "no" /\ line' = <<>> /\ UNCHANGED flushing
    BY <2>2
  <2>3. CASE flushing' = "no" /\ UNCHANGED line
    BY <1>1, <2>3
  <2> QED BY <2>1, <2>2, <2>3 DEF get_hdr
<1> QED BY <1>3, <1>5 DEF get_hdr, senderVars

\* A packet whose checksum has two characters where the board expects one.
Mismatch(p) == p.type = "block" /\ p.crc # crc_mode

\* xyzModem_get_hdr returns after a packet, after an incomplete one, or after it has
\* flushed, when nothing was on its way.  Unless it misreads the packet it leaves at
\* most the second character of such a checksum.
LEMMA GetHdr ==
    ASSUME TypeOK, slow' = slow, misread' \in BOOLEAN, ~ misread', pc # "final",
           NEW stat, NEW p, NEW chars \in Seq(Answers), get_hdr(stat, p, chars)
    PROVE  /\ UNCHANGED <<snd, sblk, scrc, noise, slow>>
           /\ line' \in Seq(Packets) /\ back' \in Seq(Answers) /\ flushing' = "no"
           /\ Put(IF stat = "eof" THEN <<"ACK">> \o chars ELSE chars)
           /\ \/ /\ line # <<>> /\ p = line[1] /\ p \in Packets
                 /\ p.bad \in {"no", "cksum"} /\ stat = Verdict(p)
                 /\ \/ line' = Tail(line)
                    \/ /\ Mismatch(p)
                       /\ \E b \in {"EOT", "short"} : line' = <<[p EXCEPT !.bad = b]>> \o Tail(line)
              \/ /\ Len(line) = 1 /\ line # <<>> /\ p = line[1] /\ p.bad = "short" /\ line' = <<>>
                 /\ stat = "timeout"
              \/ /\ line = <<>> /\ back = <<>> /\ line' = line
                 /\ stat \in {"timeout", "frame"}
<1>1. line \in Seq(Packets) /\ flushing \in {"no", "timeout", "frame"}
  BY DEF TypeOK
<1>2. line # <<>> => Head(line) = line[1] /\ line[1] \in Packets /\ Tail(line) \in Seq(Packets)
  BY <1>1
<1>3. Put(IF stat = "eof" THEN <<"ACK">> \o chars ELSE chars)
  BY DEF get_hdr
<1>4. /\ UNCHANGED <<snd, sblk, scrc, noise>>
      /\ line' \in Seq(Packets) /\ back' \in Seq(Answers) /\ flushing' = "no"
  BY HdrTypes
<1>5. p.bad \notin Early
  <2>1. misread' = (misread \/ (pc # "final" /\ p.bad \in Early))
    BY DEF get_hdr
  <2> QED BY <2>1
<1>6. CASE /\ flushing = "no" /\ line # <<>>
           /\ p = Head(line) /\ p.bad \notin {"frame", "short"}
           /\ stat = Verdict(p) /\ (\E rest \in Rest(p) : line' = rest \o Tail(line))
           /\ UNCHANGED <<flushing, slow>>
  <2>1. PICK rest \in Rest(p) : line' = rest \o Tail(line)
    BY <1>6
  <2>2. p = line[1] /\ p \in Packets /\ p.bad \in {"no", "cksum"}
    BY <1>2, <1>5, <1>6 DEF Packets, Whole, Early
  <2>3. CASE rest = <<>>
    <3>1. line' = Tail(line)
      BY <1>2, <1>6, <2>1, <2>3
    <3> QED BY <1>3, <1>4, <1>6, <2>2, <3>1
  <2>4. CASE rest # <<>>
    <3>1. p.type = "block" /\ p.crc /\ ~ crc_mode /\ \E b \in {"EOT", "short"} : rest = <<[p EXCEPT !.bad = b]>>
      BY <2>2, <2>4 DEF Rest
    <3>2. Mismatch(p)
      BY <3>1, Zenon DEF Mismatch
    <3> QED BY <1>3, <1>4, <1>6, <2>1, <2>2, <3>1, <3>2
  <2> QED BY <2>3, <2>4
<1>7. CASE /\ flushing = "no" /\ Len(line) = 1
           /\ p = Head(line) /\ p.bad = "short"
           /\ stat = "timeout" /\ line' = <<>> /\ UNCHANGED <<flushing, slow>>
  <2>0. Len(line) >= 1
    BY <1>7
  <2>1. line # <<>> /\ <<>> \in Seq(Packets)
    BY <1>1, <2>0, NonEmpty, Zenon
  <2> QED BY <1>1, <1>2, <1>3, <1>4, <1>7, <2>1
<1>8. CASE /\ flushing # "no" /\ Silence
           /\ stat = flushing /\ flushing' = "no" /\ UNCHANGED line
  BY <1>1, <1>3, <1>4, <1>8, NothingComes
<1> QED BY <1>6, <1>7, <1>8 DEF get_hdr

LEMMA GoesOn ==
    ASSUME TypeOK, slow' = slow, get_hdr_goes_on
    PROVE  /\ UNCHANGED <<pc, retries, crc_retries, crc_mode, at_eof, tx_ack, next_blk, len, pkt, bufp,
                           read_length, file_length, size, stored, misread, back, snd, sblk, scrc, noise, slow>>
           /\ pc \in {"open", "read", "final"}
           /\ line' \in Seq(Packets) /\ flushing' \in {"no", "timeout", "frame"}
           /\ \/ line' = line /\ line = <<>> /\ back = <<>>
              \/ line # <<>> /\ line[1].bad = "frame" /\ line' = Tail(line)
              \/ /\ Len(line) > 1 /\ line # <<>> /\ line[1].bad = "short" /\ Len(line') = Len(line) - 1
                 /\ \E b \in {"cksum", "frame"} : line'[1] = [line[1] EXCEPT !.bad = b]
                 /\ \A i \in 2 .. Len(line) - 1 : line'[i] = line[i + 1]
                 /\ flushing' = flushing
              \/ line # <<>> /\ flushing # "no" /\ line' = Tail(line) /\ flushing' = flushing
<1> USE DEF retryVars, seqVars, dataVars, senderVars
<1>1. line \in Seq(Packets) /\ flushing \in {"no", "timeout", "frame"}
  BY DEF TypeOK
<1>2. line # <<>> => Head(line) = line[1] /\ line[1] \in Packets /\ Tail(line) \in Seq(Packets)
  BY <1>1
<1>3. /\ UNCHANGED <<pc, retries, crc_retries, crc_mode, at_eof, tx_ack, next_blk, len, pkt, bufp,
                     read_length, file_length, size, stored, misread, back, snd, sblk, scrc, noise>>
      /\ pc \in {"open", "read", "final"}
  BY DEF get_hdr_goes_on, Waiting
<1>4. CASE flushing = "no" /\ Silence /\ flushing' = "timeout" /\ UNCHANGED line
  BY <1>1, <1>3, <1>4, NothingComes
<1>5. CASE /\ flushing = "no" /\ line # <<>> /\ Head(line).bad = "frame"
           /\ flushing' = "frame" /\ line' = Tail(line) /\ UNCHANGED slow
  BY <1>2, <1>3, <1>5
<1>6. CASE /\ flushing = "no" /\ Len(line) > 1 /\ Head(line).bad = "short"
           /\ \E b \in {"cksum", "frame"} :
                line' = <<[Head(line) EXCEPT !.bad = b]>> \o Tail(Tail(line))
           /\ UNCHANGED <<flushing, slow>>
  <2>1. PICK b \in {"cksum", "frame"} : line' = <<[Head(line) EXCEPT !.bad = b]>> \o Tail(Tail(line))
    BY <1>6
  <2> DEFINE h == [Head(line) EXCEPT !.bad = b]
             t == Tail(Tail(line))
  <2>2. line # <<>> /\ Len(line) \in Nat
    BY <1>1, <1>6, NonEmpty
  <2>3. h \in Packets /\ h = [line[1] EXCEPT !.bad = b]
    BY <1>2, <2>2 DEF Packets, Whole
  <2>4. /\ t \in Seq(Packets) /\ Len(t) = Len(line) - 2
        /\ \A i \in 1 .. Len(line) - 2 : t[i] = line[i + 2]
    <3> DEFINE s == Tail(line)
    <3>1. /\ s \in Seq(Packets) /\ Len(s) = Len(line) - 1 /\ s # <<>>
          /\ \A i \in 1 .. Len(line) - 1 : s[i] = line[i + 1]
      <4>1. /\ s \in Seq(Packets) /\ Len(s) = Len(line) - 1
            /\ \A i \in 1 .. Len(line) - 1 : s[i] = line[i + 1]
        BY <1>1, <2>2, Tails
      <4>2. Len(line) - 1 # 0
        BY <1>6, <2>2
      <4> QED BY <4>1, <4>2, NonEmpty
    <3> HIDE DEF s
    <3>2. t = Tail(s)
      BY DEF s, t
    <3>3. /\ Tail(s) \in Seq(Packets) /\ Len(Tail(s)) = Len(s) - 1
          /\ \A i \in 1 .. Len(s) - 1 : Tail(s)[i] = s[i + 1]
      BY <3>1, Tails
    <3>4. ASSUME NEW i \in 1 .. Len(line) - 2 PROVE t[i] = line[i + 2]
      <4>1. i + 1 \in 1 .. Len(line) - 1 /\ i \in 1 .. Len(s) - 1 /\ (i + 1) + 1 = i + 2
        BY <2>2, <3>1
      <4> QED BY <3>1, <3>2, <3>3, <4>1
    <3>5. t \in Seq(Packets) /\ Len(t) = Len(line) - 2
      <4>1. (Len(line) - 1) - 1 = Len(line) - 2
        BY <2>2
      <4> QED BY <3>1, <3>2, <3>3, <4>1
    <3> HIDE DEF t
    <3> QED BY <3>4, <3>5
  <2> HIDE DEF h, t
  <2>5. line' = <<h>> \o t
    BY <2>1 DEF h, t
  <2>6. line' \in Seq(Packets) /\ Len(line') = Len(line) - 1 /\ line'[1] = h
    BY <2>2, <2>3, <2>4, <2>5
  <2>7. \A i \in 2 .. Len(line) - 1 : line'[i] = line[i + 1]
    BY <2>2, <2>3, <2>4, <2>5
  <2> QED BY <1>1, <1>3, <1>6, <2>2, <2>3, <2>6, <2>7, <1>2
<1>7. CASE flushing # "no" /\ line # <<>> /\ line' = Tail(line) /\ UNCHANGED <<flushing, slow>>
  BY <1>1, <1>2, <1>3, <1>7
<1> QED BY <1>4, <1>5, <1>6, <1>7 DEF get_hdr_goes_on

-----------------------------------------------------------------------------
(* Packets and answers *)

\* The first packet leaves the line: what is left are the sender's last words.
LEMMA DropFirst ==
    ASSUME TypeOK, Lines, line # <<>>, line' = Tail(line)
    PROVE  /\ Len(line') = Len(line) - 1 /\ Len(line) <= 1 => line' = <<>>
           /\ \A i \in DOMAIN line' : i + 1 \in DOMAIN line /\ line'[i] = line[i + 1] /\ line'[i].type = "CAN"
<1>1. line \in Seq(Packets)
  BY DEF TypeOK
<1>2. /\ line' \in Seq(Packets) /\ Len(line') = Len(line) - 1
      /\ \A i \in 1 .. Len(line) - 1 : line'[i] = line[i + 1]
  BY <1>1, Tails
<1>3. Len(line) \in Nat /\ DOMAIN line = 1 .. Len(line) /\ DOMAIN line' = 1 .. Len(line) - 1
  BY <1>1, <1>2, NonEmpty
<1>4. Len(line) >= 1
  BY <1>1, NonEmpty
<1>5. Len(line) <= 1 => line' = <<>>
  <2>1. Len(line) <= 1 => Len(line') = 0
    BY <1>2, <1>3, <1>4
  <2> QED BY <1>2, <2>1, NonEmpty
<1>6. ASSUME NEW i \in DOMAIN line'
      PROVE  i + 1 \in DOMAIN line /\ line'[i] = line[i + 1] /\ line'[i].type = "CAN"
  <2>1. i \in 1 .. Len(line) - 1 /\ i + 1 \in DOMAIN line /\ i + 1 > 1
    BY <1>3
  <2>2. line'[i] = line[i + 1]
    BY <1>2, <2>1
  <2>3. line[i + 1].type = "CAN"
    BY <2>1 DEF Lines
  <2> QED BY <2>1, <2>2, <2>3
<1> QED BY <1>2, <1>5, <1>6

Shorter == \A i \in DOMAIN line' : line'[i].type = "CAN" /\ \E j \in DOMAIN line : line'[i] = line[j]

LEMMA LinesKept ==
    ASSUME Lines, Shorter, UNCHANGED <<snd, sblk, scrc, pkt>>
    PROVE  Lines'
<1> SUFFICES ASSUME NEW i \in DOMAIN line'
             PROVE  /\ i > 1 => line'[i].type = "CAN"
                    /\ IsBlock(i)' => line'[i].blk = sblk' /\ line'[i].crc = scrc'
                    /\ IsBlock(i)' => snd' \in {"header", "data", "stopped"}
                    /\ line'[i].type = "EOT" => snd' \in {"eot", "stopped"} /\ sblk' = NBlocks /\ pkt' = NBlocks
                    /\ ~ IsBlock(i)' => line'[i].bad = "no"
                    /\ line'[i].type = "CAN" => snd' = "stopped"
  BY Zenon DEF Lines
<1>1. PICK j \in DOMAIN line : line'[i] = line[j]
  BY DEF Shorter
<1>2. ~ IsBlock(i)' /\ ~ IsBlock(j)
  BY <1>1 DEF Shorter, IsBlock
<1> QED BY <1>1, <1>2 DEF Lines, Shorter

\* The sender's packet has been used up, and the answer is the only thing on its way.
LEMMA HdrRing ==
    ASSUME TypeOK, slow' = slow, misread' \in BOOLEAN, ~ misread', pc # "final", Ring, NEW stat, NEW p,
           NEW chars \in Seq(Answers), get_hdr(stat, p, chars), stat # "eof",
           scrc = crc_mode \/ stat # "cksum"
    PROVE  /\ UNCHANGED <<snd, sblk, scrc, noise, slow>> /\ flushing' = "no" /\ Shorter
           /\ line' \in Seq(Packets) /\ back' \in Seq(Answers)
           /\ snd # "stopped" => line' = <<>> /\ back' = IF snd = "off" THEN <<>> ELSE chars
           /\ snd = "stopped" => back' = <<>>
           /\ stat = "ok" => /\ line # <<>> /\ p = line[1] /\ IsBlock(1) /\ p.bad = "no" /\ p \in Packets
                             /\ p.crc = crc_mode /\ p.crc = scrc /\ p.blk = sblk
                             /\ snd \in {"header", "data", "stopped"}
           /\ stat \in {"timeout", "frame", "cksum"} =>
                \/ line = <<>> /\ back = <<>>
                \/ line # <<>> /\ (line[1].bad # "no" \/ (IsBlock(1) /\ line[1].crc # crc_mode))
<1> DEFINE c == IF stat = "eof" THEN <<"ACK">> \o chars ELSE chars
<1>1. /\ UNCHANGED <<snd, sblk, scrc, noise, slow>>
      /\ line' \in Seq(Packets) /\ back' \in Seq(Answers) /\ flushing' = "no"
      /\ Put(c)
  BY GetHdr
<1>2. c = chars
  OBVIOUS
<1> HIDE DEF c
<1>3. line \in Seq(Packets) /\ back \in Seq(Answers)
  BY DEF TypeOK, Answers
<1>4. back = <<>> => back' = IF snd \in {"off", "stopped"} THEN <<>> ELSE chars
  <2>1. <<>> \o chars = chars
    OBVIOUS
  <2> QED BY <1>1, <1>2, <2>1 DEF Put
<1>5. snd = "stopped" => back' = <<>>
  BY <1>1 DEF Put
<1>6. line # <<>> /\ snd # "stopped" => back = <<>> /\ Len(line) <= 1
  BY DEF Ring
<1>7. line # <<>> => 1 \in DOMAIN line /\ line[1] \in Packets
  BY <1>3, NonEmpty
<1>8. CASE /\ line # <<>> /\ p = line[1] /\ p \in Packets
           /\ p.bad \in {"no", "cksum"} /\ stat = Verdict(p)
           /\ line' = Tail(line) \/ Mismatch(p)
  <2>0. line' = Tail(line)
    <3>1. p.type = "block" => p.crc = scrc
      BY <1>7, <1>8 DEF Ring, Lines, IsBlock
    <3>2. Mismatch(p) => stat = "cksum"
      BY <1>8 DEF Mismatch, Verdict
    <3> QED BY <1>8, <3>1, <3>2 DEF Mismatch
  <2>1. Shorter /\ (snd # "stopped" => line' = <<>>)
    <3>1. /\ Len(line') = Len(line) - 1 /\ Len(line) <= 1 => line' = <<>>
          /\ \A i \in DOMAIN line' : i + 1 \in DOMAIN line /\ line'[i] = line[i + 1] /\ line'[i].type = "CAN"
      BY <1>8, <2>0, DropFirst DEF Ring
    <3> QED BY <1>6, <1>8, <2>0, <3>1 DEF Shorter
  <2>2. p.type \in {"block", "EOT", "CAN"}
    BY <1>8 DEF Packets
  <2>3. IsBlock(1) => p.blk = sblk /\ p.crc = scrc /\ snd \in {"header", "data", "stopped"}
    BY <1>7, <1>8 DEF Ring, Lines
  <2>4. stat = "ok" => p.type = "block" /\ p.bad = "no" /\ p.crc = crc_mode
    BY <1>8, <2>2 DEF Verdict
  <2>5. stat \in {"timeout", "frame", "cksum"} => p.type = "block" /\ (p.bad # "no" \/ p.crc # crc_mode)
    BY <1>8, <2>2 DEF Verdict
  <2> QED BY <1>1, <1>4, <1>5, <1>6, <1>8, <2>1, <2>3, <2>4, <2>5 DEF IsBlock
<1>9. CASE /\ Len(line) = 1 /\ line # <<>> /\ p = line[1] /\ p.bad = "short" /\ line' = <<>>
           /\ stat = "timeout"
  <2>1. Shorter
    <3>1. DOMAIN line' = {}
      BY <1>3, <1>9, NonEmpty
    <3> QED BY <3>1 DEF Shorter
  <2> QED BY <1>1, <1>4, <1>5, <1>6, <1>9, <2>1
<1>10. CASE /\ line = <<>> /\ back = <<>> /\ line' = line
            /\ stat \in {"timeout", "frame"}
  <2>1. Shorter
    <3>1. DOMAIN line' = {}
      BY <1>3, <1>10, NonEmpty
    <3> QED BY <3>1 DEF Shorter
  <2> QED BY <1>1, <1>4, <1>5, <1>10, <2>1
<1>11. \/ /\ line # <<>> /\ p = line[1] /\ p \in Packets
          /\ p.bad \in {"no", "cksum"} /\ stat = Verdict(p)
          /\ line' = Tail(line) \/ Mismatch(p)
       \/ /\ Len(line) = 1 /\ line # <<>> /\ p = line[1] /\ p.bad = "short" /\ line' = <<>>
          /\ stat = "timeout"
       \/ line = <<>> /\ back = <<>> /\ line' = line /\ stat \in {"timeout", "frame"}
  BY GetHdr, Zenon
<1> QED BY <1>8, <1>9, <1>10, <1>11

LEMMA Chars == <<>> \in Seq(Answers) /\ <<"ACK">> \in Seq(Answers) /\ <<"C">> \in Seq(Answers)
               /\ <<"NAK">> \in Seq(Answers) /\ Len(<<>>) = 0
BY DEF Answers

\* A good block is the one received last or the next one, and its number tells which.
LEMMA ReadOk ==
    ASSUME FileInv, misread' \in BOOLEAN, ~ misread', slow' = slow, NEW p, NEW chars \in Seq(Answers), pc = "read", get_hdr("ok", p, chars)
    PROVE  /\ Loading /\ RingLoad /\ p = line[1] /\ line # <<>> /\ IsBlock(1) /\ p.bad = "no"
           /\ snd \in {"header", "data", "stopped"} /\ sblk \in {pkt, pkt + 1}
           /\ p.blk = sblk /\ p \in Packets
           /\ p.blk % BlkModulus = next_blk <=> sblk = pkt + 1
           /\ p.blk % BlkModulus = (next_blk - 1) % BlkModulus <=> sblk = pkt
<1>1. Loading /\ RingLoad /\ Ring
  BY DEF FileInv, Storage, Loading, RingLoad
<1>2. /\ p = line[1] /\ line # <<>> /\ IsBlock(1) /\ p.bad = "no" /\ p.blk = sblk /\ p \in Packets
      /\ snd \in {"header", "data", "stopped"}
  BY <1>1, HdrRing DEF FileInv
<1>3. pkt \in Nat /\ sblk \in Nat /\ next_blk = (pkt + 1) % BlkModulus
  BY <1>1, LastBlock DEF FileInv, TypeOK, RingLoad
<1>4. sblk \in {pkt, pkt + 1}
  BY <1>1, <1>2, <1>3 DEF RingLoad
<1>5. /\ pkt % BlkModulus # (pkt + 1) % BlkModulus
      /\ (((pkt + 1) % BlkModulus) - 1) % BlkModulus = pkt % BlkModulus
  BY <1>3, Numbers
<1>6. pkt # pkt + 1
  BY <1>3
<1> QED BY <1>1, <1>2, <1>3, <1>4, <1>5, <1>6

LEMMA HdrKeepsRing ==
    ASSUME TypeOK, slow' = slow, misread' \in BOOLEAN, ~ misread', pc # "final", Ring, NEW stat, NEW p,
           NEW chars \in Seq(Answers), Len(chars) <= 1, get_hdr(stat, p, chars), stat # "eof",
           scrc = crc_mode \/ stat # "cksum", pkt' = pkt, pc' \notin {"prompt", "load"}
    PROVE  Ring'
<1>1. /\ UNCHANGED <<snd, sblk, scrc, noise, slow>> /\ flushing' = "no" /\ Shorter
      /\ line' \in Seq(Packets) /\ back' \in Seq(Answers)
      /\ snd # "stopped" => line' = <<>> /\ back' = IF snd = "off" THEN <<>> ELSE chars
      /\ snd = "stopped" => back' = <<>>
  BY HdrRing
<1>2. Lines'
  BY <1>1, LinesKept DEF Ring
<1>3. Len(<<>>) = 0
  BY Chars
<1> QED BY <1>1, <1>2, <1>3 DEF Ring

LEMMA OpenTypes ==
    ASSUME FileInv, misread' \in BOOLEAN, ~ misread', EnoughTries, slow' = slow, NEW p, OpenSucceeds(p) \/ OpenRetries(p) \/ stream_open
    PROVE  TypeOK'
<1> USE DEF retryVars, seqVars, dataVars
<1>1. CASE OpenSucceeds(p)
  <2>1. line' \in Seq(Packets) /\ back' \in Seq(Answers) /\ flushing' = "no"
        /\ UNCHANGED <<snd, sblk, scrc, noise>>
    BY <1>1, Chars, HdrTypes DEF OpenSucceeds, FileInv
  <2>2. file_length' \in {0, FileLength}
    BY <1>1 DEF OpenSucceeds, FileInv, TypeOK
  <2>3. tx_ack' \in BOOLEAN
    BY <1>1, Zenon DEF OpenSucceeds
  <2> QED BY <1>1, <2>1, <2>2, <2>3, YmodemAssumption DEF OpenSucceeds, FileInv, TypeOK, Answers
<1>2. CASE OpenRetries(p)
  <2>1. PICK stat \in {"timeout", "frame", "cksum", "eof", "cancel"} :
             /\ crc_retries' = IF stat = "timeout" THEN crc_retries - 1 ELSE crc_retries
             /\ crc_mode' = (crc_mode /\ (stat = "timeout" => crc_retries' > 0))
             /\ get_hdr(stat, p, IF stat = "timeout" THEN <<IF crc_mode' THEN "C" ELSE "NAK">> ELSE <<>>)
             /\ IF retries = 0 \/ stat = "cancel"
                  THEN Ended /\ UNCHANGED retries
                  ELSE retries' = TriesLeft(retries) /\ UNCHANGED pc
    BY <1>2 DEF OpenRetries
  <2> DEFINE ch == IF stat = "timeout" THEN <<IF crc_mode' THEN "C" ELSE "NAK">> ELSE <<>>
  <2>2. ch \in Seq(Answers)
    BY Chars
  <2>3. get_hdr(stat, p, ch)
    BY <2>1
  <2> HIDE DEF ch
  <2>4. line' \in Seq(Packets) /\ back' \in Seq(Answers) /\ flushing' = "no"
        /\ UNCHANGED <<snd, sblk, scrc, noise>>
    BY <2>2, <2>3, HdrTypes DEF FileInv
  <2>5. crc_mode' \in BOOLEAN
    BY <2>1, Zenon
  <2>6. crc_retries' \in Int /\ retries' \in 0 .. MAX_RETRIES /\ pc' \in {"open", "ended"}
    BY <1>2, <2>1, YmodemAssumption DEF OpenRetries, FileInv, TypeOK, Ended, TriesLeft
  <2> QED BY <1>2, <2>4, <2>5, <2>6 DEF OpenRetries, FileInv, TypeOK, Answers
<1>3. CASE stream_open
  <2>1. back' \in Seq(Answers)
    BY <1>3, Chars, PutType DEF stream_open, FileInv
  <2>2. crc_mode' \in BOOLEAN /\ at_eof' \in BOOLEAN /\ tx_ack' \in BOOLEAN
    BY <1>3, Zenon DEF stream_open
  <2> QED BY <1>3, <2>1, <2>2, YmodemAssumption
          DEF stream_open, FileInv, TypeOK, Answers, senderVars
<1> QED BY <1>1, <1>2, <1>3

-----------------------------------------------------------------------------
(* The invariant, action by action: xyzModem_stream_open *)

LEMMA StreamOpenInv ==
    ASSUME FileInv, misread' \in BOOLEAN, ~ misread', EnoughTries, slow' = slow, stream_open
    PROVE  FileInv'
<1>1. TypeOK'
  BY OpenTypes
<1>2. Opening /\ RingOpen /\ Ring /\ back = <<>> /\ OnlyCAN /\ pc' = "open" /\ flushing = "no"
  BY DEF stream_open, FileInv, Opening, RingOpen, Ring
<1>3. Storage'
  BY <1>2 DEF stream_open, FileInv, Storage, Opening, Loading, dataVars
<1>4. back' = IF snd \in {"off", "stopped"} THEN <<>> ELSE <<"C">>
  <2>1. <<>> \o <<"C">> = <<"C">>
    OBVIOUS
  <2> QED BY <1>2, <2>1 DEF stream_open, Put
<1>5. UNCHANGED <<line, snd, sblk, scrc, pkt, flushing>>
  BY DEF stream_open, senderVars
<1>6. Lines'
  BY <1>2, <1>5 DEF Ring, Lines, IsBlock
<1>7. snd # "stopped" => line = <<>>
  <2>1. line \in Seq(Packets)
    BY DEF FileInv, TypeOK
  <2> QED BY <1>2, <2>1, NonEmpty DEF OnlyCAN, Ring, Lines
<1>8. snd # "stopped" => Len(back') <= 1 /\ Len(line') <= 1
  BY <1>4, <1>5, <1>7
<1>9. Ring'
  BY <1>2, <1>4, <1>5, <1>6, <1>7, <1>8 DEF Ring
<1>10. RingOpen'
  BY <1>2, <1>4, <1>5, <1>9 DEF RingOpen
<1> QED BY <1>1, <1>2, <1>3, <1>10 DEF FileInv, Opening, Loading

LEMMA OpenSucceedsInv ==
    ASSUME FileInv, misread' \in BOOLEAN, ~ misread', EnoughTries, slow' = slow, NEW p, OpenSucceeds(p)
    PROVE  FileInv'
<1> USE DEF retryVars, seqVars, dataVars
<1>1. TypeOK'
  BY OpenTypes
<1>2. Opening /\ RingOpen /\ Ring /\ pc' = "load" /\ pc = "open" /\ TypeOK /\ slow' = slow
  BY DEF OpenSucceeds, FileInv, Opening, RingOpen
<1>3. /\ UNCHANGED <<snd, sblk, scrc, noise, slow>> /\ flushing' = "no" /\ Shorter
      /\ line' \in Seq(Packets) /\ back' \in Seq(Answers)
      /\ snd # "stopped" => line' = <<>> /\ back' = IF snd = "off" THEN <<>> ELSE <<>>
      /\ snd = "stopped" => back' = <<>>
      /\ p.crc = crc_mode /\ p.crc = scrc /\ p.blk = sblk /\ snd \in {"header", "data", "stopped"}
  BY <1>2, Chars, HdrRing DEF OpenSucceeds
<1>4. p.blk = 0 /\ sblk = 0 /\ 0 % BlkModulus = 0 /\ 1 % BlkModulus = 1
  BY <1>2, <1>3, YmodemAssumption DEF RingOpen
<1>5. PICK sent \in LengthSent : file_length' = IF p.blk % BlkModulus = 0 /\ sent THEN FileLength ELSE file_length
  BY DEF OpenSucceeds
<1>6. stored = <<>> /\ pkt = 0 /\ bufp = 0 /\ len = 0 /\ ~ at_eof /\ file_length = 0 /\ read_length = 0
  BY <1>2 DEF FileInv, Storage
<1>7. file_length' = 0 => FALSE \in LengthSent
  <2>1. file_length' = 0 => ~ sent
    BY <1>4, <1>5, YmodemAssumption
  <2>2. sent \in BOOLEAN
    BY YmodemAssumption
  <2>3. sent = TRUE \/ sent = FALSE
    BY <2>2, Zenon
  <2> QED BY <2>1, <2>3, Zenon
<1>8. UNCHANGED <<stored, pkt, bufp, at_eof, read_length, crc_mode>> /\ len' = 0 /\ tx_ack' /\ next_blk' = 1
  BY <1>4 DEF OpenSucceeds
<1>9. Storage'
  <2>1. Len(<<>>) = 0 /\ DOMAIN <<>> = {} /\ 0 * BlockLen = 0 /\ UnitsIn(0) = 0
    BY Units, YmodemAssumption
  <2>2. UnitsIn(pkt') = 0 /\ pkt' * BlockLen = 0 /\ Len(stored') = 0 /\ DOMAIN stored' = {} /\ pkt' = 0 /\ bufp' = 0 /\ ~ at_eof'
    BY <1>6, <1>8, <2>1
  <2>3. /\ Len(stored') + len' = UnitsIn(pkt')
        /\ IF file_length' = 0 THEN FALSE \in LengthSent ELSE read_length' = pkt' * BlockLen
    <3>1. Len(stored') + len' = UnitsIn(pkt')
      BY <1>8, <2>2
    <3>2. read_length' = pkt' * BlockLen
      BY <1>6, <1>8, <2>2
    <3> QED BY <1>7, <3>1, <3>2
  <2>4. /\ \A i \in DOMAIN stored' : stored'[i] = i
        /\ Len(stored') <= FileLength /\ len' + bufp' <= BlockLen
    BY <1>8, <2>2, YmodemAssumption
  <2>5. ~ (len' > 0)
    BY <1>8
  <2> QED BY <1>2, <1>8, <2>2, <2>3, <2>4, <2>5 DEF Storage, Opening, Loading
<1>10. Lines' /\ OnlyCAN'
  <2>1. Lines'
    BY <1>2, <1>3, <1>8, LinesKept DEF Ring
  <2> QED BY <1>3, <2>1 DEF OnlyCAN, Shorter
<1>11. back' = <<>> /\ Len(<<>>) = 0
  BY <1>3, Chars
<1>12. Ring'
  BY <1>2, <1>3, <1>10, <1>11 DEF Ring
<1>13. RingLoad'
  <2>1. DOMAIN back' = {}
    BY <1>11, NonEmpty, Chars
  <2>2. snd \in {"header", "stopped"}
    BY <1>2, <1>3 DEF RingOpen
  <2>3. pkt' = 0 /\ sblk' = 0 /\ next_blk' = (pkt' + 1) % BlkModulus
    BY <1>3, <1>4, <1>6, <1>8
  <2>4. scrc' = crc_mode'
    BY <1>3, <1>8, Zenon
  <2> QED BY <1>3, <1>8, <1>12, <2>1, <2>2, <2>3, <2>4 DEF RingLoad
<1> QED BY <1>1, <1>2, <1>9, <1>13 DEF FileInv, Opening, Loading, Tries

\* A wrong checksum is not answered; of one that was too long a character is left.
LEMMA OpenLeaves ==
    ASSUME TypeOK, RingOpen, slow' = slow, misread' \in BOOLEAN, ~ misread', pc = "open", pc' \in {"open", "ended"},
           UNCHANGED pkt, NEW p, get_hdr("cksum", p, <<>>)
    PROVE  RingOpen'
<1>1. Ring /\ Lines /\ line \in Seq(Packets) /\ back \in Seq(Answers)
  BY DEF RingOpen, Ring, TypeOK, Answers
<1>2. /\ UNCHANGED <<snd, sblk, scrc>> /\ flushing' = "no" /\ line' \in Seq(Packets) /\ Put(<<>>)
      /\ line # <<>> /\ p = line[1] /\ p \in Packets /\ Verdict(p) = "cksum"
      /\ \/ line' = Tail(line)
         \/ \E b \in {"EOT", "short"} : line' = <<[p EXCEPT !.bad = b]>> \o Tail(line)
  <2> DEFINE stat == "cksum"
             ch == <<>>
  <2>1. ch \in Seq(Answers) /\ get_hdr(stat, p, ch) /\ stat \notin {"eof", "timeout", "frame"} /\ pc # "final"
    BY Chars
  <2> HIDE DEF stat, ch
  <2>2. /\ UNCHANGED <<snd, sblk, scrc>> /\ flushing' = "no" /\ line' \in Seq(Packets) /\ Put(ch)
        /\ line # <<>> /\ p = line[1] /\ p \in Packets /\ Verdict(p) = stat
        /\ \/ line' = Tail(line)
           \/ \E b \in {"EOT", "short"} : line' = <<[p EXCEPT !.bad = b]>> \o Tail(line)
    BY <2>1, GetHdr
  <2> QED BY <2>2 DEF stat, ch
<1>3. p.type = "block" /\ 1 \in DOMAIN line
  <2>1. p.type \in {"block", "EOT", "CAN"}
    BY <1>2 DEF Packets
  <2> QED BY <1>1, <1>2, <2>1, NonEmpty DEF Verdict
<1>4. back' = IF snd \in {"off", "stopped"} THEN <<>> ELSE back
  <2>1. back \o <<>> = back
    BY <1>1
  <2> QED BY <1>2, <2>1 DEF Put
<1>5. snd # "stopped" => back' = <<>> /\ Len(line) <= 1
  BY <1>1, <1>2, <1>4 DEF Ring
<1>6. /\ Tail(line) \in Seq(Packets) /\ Len(Tail(line)) = Len(line) - 1 /\ Len(line) \in Nat
      /\ DOMAIN line = 1 .. Len(line)
      /\ \A i \in 1 .. Len(line) - 1 : Tail(line)[i] = line[i + 1]
  BY <1>1, <1>2, Tails, NonEmpty
<1>7. /\ Len(line') <= Len(line) /\ DOMAIN line' = 1 .. Len(line')
      /\ \A i \in DOMAIN line' :
           \/ line'[i].type = "CAN" /\ \E j \in DOMAIN line : line'[i] = line[j]
           \/ i = 1 /\ line'[i].type = "block" /\ line'[i].blk = p.blk /\ line'[i].crc = p.crc
  <2>1. CASE line' = Tail(line)
    <3>1. /\ Len(line') = Len(line) - 1
          /\ \A i \in DOMAIN line' : i + 1 \in DOMAIN line /\ line'[i] = line[i + 1] /\ line'[i].type = "CAN"
      BY <1>1, <1>2, <2>1, DropFirst
    <3>2. DOMAIN line' = 1 .. Len(line')
      BY <1>2, NonEmpty
    <3> QED BY <1>6, <3>1, <3>2
  <2>2. ASSUME NEW b \in {"EOT", "short"}, line' = <<[p EXCEPT !.bad = b]>> \o Tail(line)
        PROVE  /\ Len(line') <= Len(line) /\ DOMAIN line' = 1 .. Len(line')
               /\ \A i \in DOMAIN line' :
                    \/ line'[i].type = "CAN" /\ \E j \in DOMAIN line : line'[i] = line[j]
                    \/ i = 1 /\ line'[i].type = "block" /\ line'[i].blk = p.blk /\ line'[i].crc = p.crc
    <3> DEFINE h == [p EXCEPT !.bad = b]
               t == Tail(line)
    <3>1. h \in Packets /\ h.type = "block" /\ h.blk = p.blk /\ h.crc = p.crc
      BY <1>2, <1>3 DEF Packets, Whole, Early
    <3>2. line' = <<h>> \o t /\ t \in Seq(Packets) /\ Len(t) = Len(line) - 1
          /\ \A i \in 1 .. Len(line) - 1 : t[i] = line[i + 1]
      BY <1>6, <2>2
    <3> HIDE DEF h, t
    <3>3. Len(line') = Len(line) /\ line'[1] = h /\ DOMAIN line' = 1 .. Len(line)
      <4>1. <<h>> \in Seq(Packets) /\ Len(<<h>>) = 1 /\ <<h>>[1] = h
        BY <3>1
      <4>2. /\ Len(<<h>> \o t) = Len(<<h>>) + Len(t)
            /\ \A i \in 1 .. Len(<<h>>) + Len(t) :
                 (<<h>> \o t)[i] = IF i <= Len(<<h>>) THEN <<h>>[i] ELSE t[i - Len(<<h>>)]
        BY <3>2, <4>1, ConcatProperties
      <4>3. Len(line') = Len(line) /\ line'[1] = h
        <5>1. Len(line) >= 1
          BY <1>1, <1>2, NonEmpty
        <5>2. Len(<<h>>) = 1 /\ Len(t) = Len(line) - 1 /\ Len(line) \in Nat /\ <<h>>[1] = h
          BY <1>6, <3>2, <4>1
        <5>3. Len(<<h>> \o t) = Len(line)
          BY <4>2, <5>2
        <5>4. 1 \in 1 .. Len(<<h>>) + Len(t) /\ 1 <= Len(<<h>>)
          BY <5>1, <5>2
        <5>5. (<<h>> \o t)[1] = h
          BY <4>2, <5>2, <5>4, Zenon
        <5> QED BY <3>2, <5>3, <5>5, Zenon
      <4> QED BY <1>2, <4>3, NonEmpty
    <3>4. ASSUME NEW i \in DOMAIN line', i # 1
          PROVE  line'[i].type = "CAN" /\ \E j \in DOMAIN line : line'[i] = line[j]
      <4>1. i \in 2 .. Len(line) /\ i - 1 \in 1 .. Len(line) - 1 /\ (i - 1) + 1 = i
        BY <1>6, <3>3, <3>4
      <4>2. line'[i] = t[i - 1]
        BY <1>6, <3>1, <3>2, <4>1
      <4>3. line'[i] = line[i] /\ i \in DOMAIN line /\ i > 1
        BY <1>6, <3>2, <4>1, <4>2
      <4> QED BY <1>1, <4>3 DEF Lines
    <3> QED BY <1>6, <3>1, <3>3, <3>4
  <2> QED BY <1>2, <2>1, <2>2
<1>8. Lines'
  <2> SUFFICES ASSUME NEW i \in DOMAIN line'
               PROVE  /\ i > 1 => line'[i].type = "CAN"
                      /\ IsBlock(i)' => line'[i].blk = sblk' /\ line'[i].crc = scrc'
                      /\ IsBlock(i)' => snd' \in {"header", "data", "stopped"}
                      /\ line'[i].type = "EOT" => snd' \in {"eot", "stopped"} /\ sblk' = NBlocks /\ pkt' = NBlocks
                      /\ ~ IsBlock(i)' => line'[i].bad = "no"
                      /\ line'[i].type = "CAN" => snd' = "stopped"
    BY Zenon DEF Lines
  <2>1. CASE line'[i].type = "CAN" /\ \E j \in DOMAIN line : line'[i] = line[j]
    BY <1>1, <1>2, <2>1 DEF Lines, IsBlock
  <2>2. CASE i = 1 /\ line'[i].type = "block" /\ line'[i].blk = p.blk /\ line'[i].crc = p.crc
    BY <1>1, <1>2, <1>3, <2>2 DEF Lines, IsBlock
  <2> QED BY <1>7, <2>1, <2>2
<1>9. snd # "stopped" => Len(back') <= 1 /\ Len(line') <= 1
  <2>1. Len(<<>>) = 0 /\ Len(line') \in Nat
    BY <1>2
  <2> QED BY <1>5, <1>6, <1>7, <2>1
<1>10. Ring'
  BY <1>1, <1>2, <1>4, <1>5, <1>8, <1>9 DEF Ring
<1>11. \A i \in DOMAIN line' : line'[i].type # "EOT"
  BY <1>7
<1>12. \A i \in DOMAIN back' : back'[i] # "ACK"
  <2>1. DOMAIN <<>> = {}
    OBVIOUS
  <2> QED BY <1>4, <2>1 DEF RingOpen
<1> QED BY <1>2, <1>10, <1>11, <1>12 DEF RingOpen

LEMMA OpenRetriesInv ==
    ASSUME FileInv, misread' \in BOOLEAN, ~ misread', EnoughTries, slow' = slow, NEW p, OpenRetries(p)
    PROVE  FileInv'
<1> USE DEF retryVars, seqVars, dataVars
<1>1. TypeOK'
  BY OpenTypes
<1>2. Opening /\ RingOpen /\ Ring /\ pc = "open" /\ TypeOK /\ slow' = slow
  BY DEF OpenRetries, FileInv, Opening, RingOpen
<1>3. PICK stat \in {"timeout", "frame", "cksum", "eof", "cancel"} :
             /\ get_hdr(stat, p, IF stat = "timeout" THEN <<IF crc_mode' THEN "C" ELSE "NAK">> ELSE <<>>)
             /\ pc' \in {"open", "ended"}
  BY <1>2 DEF OpenRetries, Ended
<1> DEFINE ch == IF stat = "timeout" THEN <<IF crc_mode' THEN "C" ELSE "NAK">> ELSE <<>>
<1>4. ch \in Seq(Answers) /\ Len(ch) <= 1 /\ \A i \in DOMAIN ch : ch[i] # "ACK"
  BY Chars
<1>5. get_hdr(stat, p, ch)
  BY <1>3
<1> HIDE DEF ch
<1>6. UNCHANGED <<at_eof, tx_ack, next_blk, len, pkt, bufp, read_length, file_length, size, stored>>
  BY DEF OpenRetries
<1>7. Storage'
  BY <1>2, <1>3, <1>6 DEF FileInv, Storage, Opening, Loading
<1>8. stat # "eof"
  <2>1. stat = "eof" => line # <<>> /\ p = line[1] /\ p \in Packets /\ stat = Verdict(p)
    BY <1>2, <1>4, <1>5, GetHdr
  <2>2. stat = "eof" => p.type = "EOT"
    <3>1. p \in Packets => p.type \in {"block", "EOT", "CAN"}
      BY DEF Packets
    <3>2. stat = "eof" => p.bad \in {"no", "cksum"}
      BY <1>2, <1>4, <1>5, GetHdr
    <3> QED BY <2>1, <3>1, <3>2 DEF Verdict
  <2>3. line # <<>> => 1 \in DOMAIN line
    BY <1>2, NonEmpty DEF TypeOK
  <2> QED BY <1>2, <2>1, <2>2, <2>3 DEF RingOpen
<1>9. CASE stat # "cksum"
  <2>1. /\ UNCHANGED <<snd, sblk, scrc, noise, slow>> /\ Shorter
        /\ snd # "stopped" => back' = IF snd = "off" THEN <<>> ELSE ch
        /\ snd = "stopped" => back' = <<>>
    BY <1>2, <1>4, <1>5, <1>8, <1>9, HdrRing
  <2>2. Ring'
    BY <1>2, <1>3, <1>4, <1>5, <1>6, <1>8, <1>9, HdrKeepsRing
  <2>3. \A i \in DOMAIN back' : back'[i] # "ACK"
    <3>1. DOMAIN <<>> = {}
      OBVIOUS
    <3> QED BY <1>4, <2>1, <3>1
  <2>4. \A i \in DOMAIN line' : line'[i].type # "EOT"
    BY <1>2, <2>1 DEF Shorter, RingOpen
  <2> QED BY <1>1, <1>2, <1>3, <1>7, <2>1, <2>2, <2>3, <2>4 DEF RingOpen, FileInv, Opening, Loading
<1>10. CASE stat = "cksum"
  <2>1. RingOpen'
    BY <1>2, <1>3, <1>5, <1>6, <1>10, OpenLeaves DEF ch
  <2> QED BY <1>1, <1>3, <1>7, <2>1 DEF FileInv, Opening, Loading
<1> QED BY <1>9, <1>10

-----------------------------------------------------------------------------
(* The invariant, action by action: xyzModem_stream_read *)

LEMMA Reading ==
    ASSUME FileInv, pc = "read"
    PROVE  /\ Loading /\ RingLoad /\ Ring /\ Tries /\ TypeOK /\ ~ at_eof /\ len = 0
           /\ Len(stored) = UnitsIn(pkt)
<1>1. Loading
  BY DEF FileInv, Storage, Loading
<1>2. len = 0 /\ Len(stored) + len = UnitsIn(pkt) /\ Len(stored) \in Nat
  BY <1>1 DEF FileInv, Storage, TypeOK
<1> QED BY <1>1, <1>2 DEF FileInv, Loading, RingLoad

LEMMA StreamReadInv ==
    ASSUME FileInv, misread' \in BOOLEAN, ~ misread', EnoughTries, stream_read
    PROVE  FileInv'
<1> USE DEF dataVars, senderVars
<1>1. Loading /\ RingLoad /\ Ring /\ back = <<>> /\ OnlyCAN /\ pc' = "read" /\ flushing = "no" /\ TypeOK
      /\ tx_ack /\ snd \in {"header", "data", "stopped"} /\ sblk = pkt /\ ~ at_eof /\ len = 0
  BY DEF stream_read, FileInv, Loading, RingLoad, Ring
<1>2. /\ UNCHANGED <<flushing, crc_retries, crc_mode, at_eof, next_blk, len, pkt, bufp, read_length,
                     file_length, size, stored, line, snd, sblk, scrc, noise, slow>>
      /\ retries' = MAX_RETRIES - 1 /\ tx_ack' = FALSE
      /\ Put(<<"ACK">>)
  BY <1>1 DEF stream_read
<1>3. TypeOK'
  <2>1. back' \in Seq(Answers)
    BY <1>1, <1>2, Chars, PutType
  <2>2. tx_ack' \in BOOLEAN
    BY <1>2
  <2> QED BY <1>1, <1>2, <2>1, <2>2, YmodemAssumption DEF FileInv, TypeOK, Answers
<1>4. Storage'
  BY <1>1, <1>2 DEF FileInv, Storage, Opening, Loading
<1>5. back' = IF snd = "stopped" THEN <<>> ELSE <<"ACK">>
  <2>1. <<>> \o <<"ACK">> = <<"ACK">>
    OBVIOUS
  <2> QED BY <1>1, <1>2, <2>1 DEF Put
<1>6. Lines'
  BY <1>1, <1>2 DEF Ring, Lines, IsBlock
<1>7. snd # "stopped" => line = <<>>
  BY <1>1, NonEmpty DEF OnlyCAN, Ring, Lines, TypeOK
<1>8. snd # "stopped" => Len(back') <= 1 /\ Len(line') <= 1
  BY <1>2, <1>5, <1>7
<1>9. Ring'
  BY <1>1, <1>2, <1>5, <1>6, <1>7, <1>8 DEF Ring
<1>10. RingLoad'
  <2>1. \A i \in DOMAIN back' : snd # "stopped"
    BY <1>5
  <2> QED BY <1>1, <1>2, <1>9, <2>1 DEF RingLoad
<1>11. Tries'
  <2>1. noise \in 0 .. MaxNoise /\ 2 * MaxNoise + 2 <= MAX_RETRIES /\ MaxNoise \in Nat /\ MAX_RETRIES \in Nat
    BY <1>1, YmodemAssumption DEF EnoughTries, TypeOK
  <2>2. CASE snd = "stopped"
    <3>1. ~ (line' # <<>> /\ IsBlock(1)')
      BY <1>1, <1>2, NonEmpty DEF OnlyCAN, IsBlock, TypeOK
    <3>2. Need' = 0
      BY <1>2, <2>2, <3>1 DEF Need
    <3> QED BY <1>2, <2>1, <2>2, <3>2 DEF Tries
  <2>3. CASE snd # "stopped"
    <3>1. Need' <= 1 /\ Need' \in Int
      BY <1>1, <1>2, <1>5, <2>3 DEF Need, Lag
    <3>2. 2 * noise' <= 2 * MaxNoise /\ 2 * noise' \in Nat /\ 2 * MaxNoise \in Nat
      BY <1>2, <2>1
    <3>3. (2 * noise') + Need' <= MAX_RETRIES - 1
      BY <2>1, <3>1, <3>2
    <3> QED BY <1>2, <2>3, <3>3 DEF Tries
  <2> QED BY <2>2, <2>3
<1> QED BY <1>1, <1>3, <1>4, <1>10, <1>11 DEF FileInv, Opening, Loading

\* A good block that follows: the block received last is now this one.
LEMMA ReadBlockInv ==
    ASSUME FileInv, misread' \in BOOLEAN, ~ misread', EnoughTries, slow' = slow, NEW p, ReadBlock(p)
    PROVE  FileInv'
<1> USE DEF retryVars
<1>1. /\ Loading /\ RingLoad /\ Ring /\ Tries /\ TypeOK /\ slow' = slow /\ ~ at_eof /\ len = 0
      /\ Len(stored) = UnitsIn(pkt) /\ pc = "read"
  BY Reading DEF ReadBlock
<1>2. get_hdr("ok", p, <<>>)
  BY DEF ReadBlock
<1>3. /\ sblk = pkt + 1 /\ p.blk = sblk /\ snd \in {"header", "data", "stopped"} /\ p \in Packets
  BY <1>1, <1>2, Chars, ReadOk DEF ReadBlock
<1>4. pkt \in 0 .. NBlocks /\ sblk \in 0 .. NBlocks /\ NBlocks \in Nat /\ pkt + 1 \in 1 .. NBlocks
      /\ (pkt + 1) - 1 = pkt
  BY <1>1, <1>3, LastBlock DEF TypeOK
<1>5. /\ UNCHANGED <<snd, sblk, scrc, noise, slow>> /\ flushing' = "no" /\ Shorter
      /\ line' \in Seq(Packets) /\ back' \in Seq(Answers)
      /\ snd # "stopped" => line' = <<>> /\ back' = IF snd = "off" THEN <<>> ELSE <<>>
      /\ snd = "stopped" => back' = <<>>
  BY <1>1, <1>2, Chars, HdrRing
<1>6. /\ UNCHANGED <<retries, crc_retries, crc_mode, at_eof, file_length, size, stored>>
      /\ pc' = "load" /\ next_blk' = NextBlk(next_blk) /\ tx_ack' = TRUE /\ pkt' = pkt + 1 /\ bufp' = 0
      /\ read_length' = IF file_length = 0 THEN read_length ELSE read_length + BlockLen
      /\ len' = DataLength(pkt + 1, read_length + BlockLen)
  BY <1>3 DEF ReadBlock
<1> DEFINE b == pkt + 1
           o == (b - 1) * BlockLen
<1>7. /\ UnitsIn(pkt) = o /\ o \in Nat /\ b * BlockLen = o + BlockLen /\ UnitsIn(b) - o \in 1 .. BlockLen
      /\ UnitsIn(b) \in 0 .. FileLength /\ UnitsIn(pkt) \in 0 .. FileLength /\ o = pkt * BlockLen
  <2>1. b \in 1 .. NBlocks /\ b - 1 = pkt /\ b \in 0 .. NBlocks
    BY <1>4
  <2> HIDE DEF b
  <2> QED BY <1>4, <2>1, Units
<1>8. IF file_length = 0 THEN FALSE \in LengthSent
      ELSE file_length = FileLength /\ read_length = o
  BY <1>1, <1>7 DEF FileInv, Storage, TypeOK
<1>9. len' = UnitsIn(b) - o
  <2>1. read_length + BlockLen \in Nat
    BY <1>1, YmodemAssumption DEF TypeOK
  <2>2. IF file_length = 0 THEN FALSE \in LengthSent
        ELSE file_length = FileLength /\ read_length + BlockLen = b * BlockLen
    BY <1>7, <1>8
  <2>3. b \in 1 .. NBlocks
    BY <1>4
  <2>4. DataLength(b, read_length + BlockLen) = UnitsIn(b) - o
    <3> HIDE DEF b
    <3> QED BY <2>1, <2>2, <2>3, DataLengthRight
  <2> QED BY <1>6, <2>4
<1> HIDE DEF o
<1>10. next_blk' = (pkt' + 1) % BlkModulus /\ next_blk' \in 0 .. BlkModulus - 1
  <2>1. next_blk = (pkt + 1) % BlkModulus
    BY <1>1 DEF RingLoad
  <2>0. pkt \in Nat /\ pkt + 1 \in Nat /\ (pkt + 1) + 1 = pkt + 2
    BY <1>4
  <2>2. NextBlk((pkt + 1) % BlkModulus) = (pkt + 2) % BlkModulus
    BY <2>0, Numbers
  <2>3. pkt' + 1 = pkt + 2
    BY <1>4, <1>6
  <2>4. ((pkt + 1) + 1) % BlkModulus \in 0 .. BlkModulus - 1
    BY <2>0, Numbers
  <2> QED BY <1>6, <2>0, <2>1, <2>2, <2>3, <2>4
<1>11. TypeOK'
  <2>1. len' \in -1 .. BlockLen /\ pkt' \in 0 .. NBlocks /\ bufp' \in 0 .. BlockLen /\ read_length' \in Nat
    BY <1>1, <1>4, <1>6, <1>7, <1>9, YmodemAssumption DEF TypeOK
  <2>2. tx_ack' \in BOOLEAN
    BY <1>6
  <2> QED BY <1>1, <1>5, <1>6, <1>10, <2>1, <2>2 DEF TypeOK, Answers
<1>12. Storage'
  <2>1. /\ Len(stored') + len' = UnitsIn(pkt')
        /\ len' > 0 => pkt' > 0 /\ Len(stored') = ((pkt' - 1) * BlockLen) + bufp'
    <3>1. (pkt' - 1) * BlockLen = o /\ pkt' = b /\ pkt' > 0
      BY <1>4, <1>6 DEF o
    <3> HIDE DEF b
    <3> QED BY <1>1, <1>6, <1>7, <1>9, <3>1
  <2>2. IF file_length' = 0 THEN FALSE \in LengthSent ELSE read_length' = pkt' * BlockLen
    BY <1>6, <1>7, <1>8
  <2>3. len' + bufp' <= BlockLen /\ Len(stored') <= FileLength
    BY <1>1, <1>6, <1>7, <1>9
  <2>4. \A i \in DOMAIN stored' : stored'[i] = i
    BY <1>6 DEF FileInv, Storage
  <2> QED BY <1>1, <1>6, <2>1, <2>2, <2>3, <2>4 DEF Storage, Opening, Loading
<1>13. OnlyCAN' /\ Lines'
  <2>1. ASSUME NEW i \in DOMAIN line' PROVE line'[i].type = "CAN" /\ snd = "stopped" /\ line'[i].bad = "no"
    <3>1. PICK j \in DOMAIN line : line'[i] = line[j] /\ line[j].type = "CAN"
      BY <1>5 DEF Shorter
    <3> QED BY <1>1, <3>1 DEF Ring, Lines, IsBlock
  <2> QED BY <1>5, <2>1 DEF OnlyCAN, Lines, IsBlock
<1>14. back' = <<>> /\ Len(<<>>) = 0 /\ DOMAIN <<>> = {}
  BY <1>5
<1>15. Ring'
  BY <1>5, <1>6, <1>13, <1>14 DEF Ring
<1>16. RingLoad'
  <2>1. snd \in {"data", "stopped"} /\ sblk > 0
    BY <1>1, <1>3, <1>4 DEF RingLoad
  <2>2. sblk' = pkt'
    BY <1>3, <1>5, <1>6
  <2>3. scrc' = crc_mode'
    BY <1>1, <1>5, <1>6 DEF RingLoad
  <2> QED BY <1>5, <1>6, <1>10, <1>14, <1>15, <2>1, <2>2, <2>3 DEF RingLoad
<1> QED BY <1>6, <1>11, <1>12, <1>16 DEF FileInv, Opening, Loading, Tries

\* The same block again: never at the last try, which would store it a second time.
LEMMA ReadSameBlockInv ==
    ASSUME FileInv, misread' \in BOOLEAN, ~ misread', EnoughTries, slow' = slow, NEW p, ReadSameBlock(p)
    PROVE  FileInv'
<1> USE DEF seqVars
<1>1. /\ Loading /\ RingLoad /\ Ring /\ Tries /\ TypeOK /\ slow' = slow /\ ~ at_eof /\ len = 0 /\ pc = "read"
  BY Reading DEF ReadSameBlock
<1>2. ReAck = <<"ACK">> /\ get_hdr("ok", p, <<"ACK">>)
  BY DEF ReadSameBlock, ReAck
<1>3. /\ sblk = pkt /\ p.blk = sblk /\ snd \in {"header", "data", "stopped"} /\ p \in Packets
      /\ line # <<>> /\ p = line[1] /\ IsBlock(1) /\ p.bad = "no"
  BY <1>1, <1>2, Chars, ReadOk DEF ReadSameBlock
<1>4. /\ UNCHANGED <<snd, sblk, scrc, noise, slow>> /\ flushing' = "no" /\ Shorter
      /\ line' \in Seq(Packets) /\ back' \in Seq(Answers)
      /\ snd # "stopped" => line' = <<>> /\ back' = IF snd = "off" THEN <<>> ELSE <<"ACK">>
      /\ snd = "stopped" => back' = <<>>
  BY <1>1, <1>2, Chars, HdrRing
<1>5. retries \in Nat /\ retries <= MAX_RETRIES /\ noise \in Nat /\ 2 * noise \in Nat /\ MAX_RETRIES \in Nat
  BY <1>1, YmodemAssumption DEF TypeOK
<1>6. snd = "stopped" => Need = 1 /\ retries >= 1
  BY <1>1, <1>3 DEF Need, Tries
<1>7. snd # "stopped" => Need = Lag - 1 /\ Lag \in {2, 3} /\ retries >= (2 * noise) + Lag - 1
  <2>1. snd # "stopped" => back = <<>>
    BY <1>1, <1>3 DEF Ring
  <2>2. snd # "stopped" => Need = Lag - 1
    BY <1>3, <2>1 DEF Need
  <2>3. snd # "stopped" => Lag \in {2, 3}
    BY <1>3 DEF Lag
  <2> HIDE DEF Lag, Need
  <2> QED BY <1>1, <1>5, <2>2, <2>3 DEF Tries
<1>8. retries >= 1
  BY <1>5, <1>6, <1>7
<1>9. /\ retries' = retries - 1
      /\ UNCHANGED <<pc, len, pkt, bufp, crc_retries, crc_mode, at_eof, tx_ack, next_blk, read_length,
                     file_length, size, stored>>
  <2>1. retries # 0
    BY <1>5, <1>8
  <2> QED BY <2>1 DEF ReadSameBlock, TriesLeft
<1>10. TypeOK'
  <2>1. retries' \in 0 .. MAX_RETRIES
    BY <1>5, <1>8, <1>9
  <2> QED BY <1>1, <1>4, <1>9, <2>1 DEF TypeOK, Answers
<1>11. Storage'
  BY <1>1, <1>9 DEF FileInv, Storage, Opening, Loading
<1>12. Ring'
  <2>1. Len(<<"ACK">>) <= 1
    OBVIOUS
  <2> QED BY <1>1, <1>2, <1>9, <2>1, Chars, HdrKeepsRing
<1>13. RingLoad'
  <2>1. \A i \in DOMAIN back' : snd # "stopped"
    BY <1>4
  <2> QED BY <1>1, <1>3, <1>4, <1>9, <1>12, <2>1 DEF RingLoad
<1>14. Tries'
  <2>1. CASE snd = "stopped"
    <3>1. ~ (line' # <<>> /\ IsBlock(1)')
      BY <1>4, NonEmpty DEF Shorter, IsBlock
    <3>2. Need' = 0
      BY <1>4, <2>1, <3>1 DEF Need
    <3> QED BY <1>4, <1>5, <1>8, <1>9, <2>1, <3>2 DEF Tries
  <2>2. CASE snd # "stopped"
    <3>1. back' = <<"ACK">> /\ snd' # "stopped"
      BY <1>3, <1>4, <2>2
    <3>2. Lag' = Lag
      BY <1>4, <1>9 DEF Lag
    <3>3. Need' = Lag - 2
      BY <3>1, <3>2 DEF Need
    <3>4. retries' >= (2 * noise') + Need'
      BY <1>4, <1>5, <1>7, <1>9, <2>2, <3>3
    <3> QED BY <3>1, <3>4 DEF Tries
  <2> QED BY <2>1, <2>2
<1> QED BY <1>1, <1>9, <1>10, <1>11, <1>13, <1>14 DEF FileInv, Opening, Loading

\* xyzModem_stream_read gives up: what has been stored stays as it is.
LEMMA ErrorInv ==
    ASSUME FileInv, misread' \in BOOLEAN, ~ misread', pc = "read", Error, line' \in Seq(Packets), back' \in Seq(Answers), flushing' = "no",
           UNCHANGED <<retries, crc_retries, crc_mode, at_eof, tx_ack, next_blk, pkt, bufp, read_length,
                       file_length, stored, snd, sblk, scrc, noise, slow>>
    PROVE  FileInv'
<1>1. len' = -1 /\ pc' \in {"load", "aborted", "ended"} /\ size' \in 0 .. ReadLen
  BY YmodemAssumption DEF Error, Ended, FileInv, TypeOK
<1>2. TypeOK'
  BY <1>1, YmodemAssumption DEF FileInv, TypeOK, Answers
<1>3. ~ at_eof
  BY Reading
<1>4. Storage'
  <2>1. len' + bufp' <= BlockLen
    BY <1>1, YmodemAssumption DEF FileInv, TypeOK
  <2>2. ~ Loading'
    BY <1>1 DEF Loading
  <2> QED BY <1>1, <1>3, <2>1, <2>2 DEF FileInv, Storage, Opening
<1> QED BY <1>1, <1>2, <1>4 DEF FileInv, Opening, Loading

LEMMA ReadRetriesInv ==
    ASSUME FileInv, misread' \in BOOLEAN, ~ misread', EnoughTries, slow' = slow, NEW p, ReadRetries(p)
    PROVE  FileInv'
<1> USE DEF seqVars
<1>1. /\ Loading /\ RingLoad /\ Ring /\ Tries /\ TypeOK /\ slow' = slow /\ ~ at_eof /\ len = 0 /\ pc = "read"
  BY Reading DEF ReadRetries
<1>2. PICK stat \in {"ok", "timeout", "frame", "cksum"} :
         /\ get_hdr(stat, p, <<Nak>>)
         /\ stat = "ok" => p.blk % BlkModulus \notin {next_blk, (next_blk - 1) % BlkModulus}
  BY DEF ReadRetries
<1>3. stat # "ok"
  BY <1>1, <1>2, NakType, ReadOk
<1>4. /\ UNCHANGED <<snd, sblk, scrc, noise, slow>> /\ flushing' = "no" /\ Shorter
      /\ line' \in Seq(Packets) /\ back' \in Seq(Answers)
      /\ snd # "stopped" => line' = <<>> /\ back' = IF snd = "off" THEN <<>> ELSE <<Nak>>
      /\ snd = "stopped" => back' = <<>>
      /\ \/ line = <<>> /\ back = <<>>
         \/ line # <<>> /\ (line[1].bad # "no" \/ (IsBlock(1) /\ line[1].crc # crc_mode))
  <2>1. scrc = crc_mode
    BY <1>1 DEF RingLoad
  <2> QED BY <1>1, <1>2, <1>3, <2>1, NakType, HdrRing
<1>5. UNCHANGED <<crc_retries, crc_mode, at_eof, tx_ack, next_blk, pkt, bufp, read_length, file_length, stored>>
  BY DEF ReadRetries
<1>6. CASE retries = 0
  BY <1>1, <1>4, <1>5, <1>6, ErrorInv DEF ReadRetries
<1>7. CASE retries # 0
  <2>1. retries \in Nat /\ retries <= MAX_RETRIES /\ noise \in Nat /\ 2 * noise \in Nat /\ MAX_RETRIES \in Nat
    BY <1>1, YmodemAssumption DEF TypeOK
  <2>2. retries' = retries - 1 /\ UNCHANGED <<pc, len, size>>
    BY <1>7 DEF ReadRetries, TriesLeft
  <2>3. TypeOK'
    <3>1. retries' \in 0 .. MAX_RETRIES
      BY <1>7, <2>1, <2>2
    <3> QED BY <1>1, <1>4, <1>5, <2>2, <3>1 DEF TypeOK, Answers
  <2>4. Storage'
    BY <1>1, <1>5, <2>2 DEF FileInv, Storage, Opening, Loading
  <2>5. Ring'
    <3>1. Len(<<Nak>>) <= 1
      OBVIOUS
    <3>2. scrc = crc_mode
      BY <1>1 DEF RingLoad
    <3> QED BY <1>1, <1>2, <1>3, <1>5, <2>2, <3>1, <3>2, NakType, HdrKeepsRing
  <2>6. Nak # "ACK" /\ snd # "off"
    BY <1>1 DEF Nak, RingLoad
  <2>7. RingLoad'
    <3>1. \A i \in DOMAIN back' : back'[i] # "ACK"
      BY <1>4, <2>6
    <3> QED BY <1>1, <1>4, <1>5, <2>2, <2>5, <3>1 DEF RingLoad
  <2>8. Tries'
    <3>1. CASE snd = "stopped"
      <4>1. ~ (line' # <<>> /\ IsBlock(1)')
        BY <1>4, NonEmpty DEF Shorter, IsBlock
      <4>2. Need' = 0
        BY <1>4, <3>1, <4>1 DEF Need
      <4> QED BY <1>4, <1>7, <2>1, <2>2, <3>1, <4>2 DEF Tries
    <3>2. CASE snd # "stopped"
      <4>1. Need = Lag
        <5>1. line # <<>> => back = <<>> /\ 1 \in DOMAIN line
          BY <1>1, <3>2, NonEmpty DEF Ring, TypeOK
        <5>2. line # <<>> => ~ (IsBlock(1) /\ line[1].crc # crc_mode)
          BY <1>1, <5>1 DEF Ring, Lines, RingLoad
        <5> QED BY <1>4, <3>2, <5>1, <5>2 DEF Need
      <4>2. back' = <<Nak>> /\ snd' # "stopped"
        BY <1>4, <2>6, <3>2
      <4>3. Lag' = Lag /\ Lag \in Nat
        BY <1>4, <1>5 DEF Lag
      <4>4. Need' = Lag - 1
        BY <2>6, <4>2, <4>3 DEF Need
      <4>5. retries >= (2 * noise) + Lag
        BY <1>1, <3>2, <4>1 DEF Tries
      <4>6. retries' >= (2 * noise') + Need'
        BY <1>4, <2>1, <2>2, <4>3, <4>4, <4>5
      <4> QED BY <4>2, <4>6 DEF Tries
    <3> QED BY <3>1, <3>2
  <2> QED BY <1>1, <2>2, <2>3, <2>4, <2>7, <2>8 DEF FileInv, Opening, Loading
<1> QED BY <1>6, <1>7

LEMMA ReadCancelledInv ==
    ASSUME FileInv, misread' \in BOOLEAN, ~ misread', EnoughTries, slow' = slow, NEW p, ReadCancelled(p)
    PROVE  FileInv'
<1>1. TypeOK /\ slow' = slow /\ pc = "read" /\ get_hdr("cancel", p, <<>>) /\ Error
  BY DEF ReadCancelled, FileInv
<1>2. /\ UNCHANGED <<snd, sblk, scrc, noise, slow>> /\ flushing' = "no"
      /\ line' \in Seq(Packets) /\ back' \in Seq(Answers)
  BY <1>1, Chars, HdrTypes
<1> QED BY <1>1, <1>2, ErrorInv DEF ReadCancelled, retryVars, seqVars

\* The end of the file comes when its last block has been received.
LEMMA ReadEofInv ==
    ASSUME FileInv, misread' \in BOOLEAN, ~ misread', EnoughTries, slow' = slow, NEW p, ReadEof(p)
    PROVE  FileInv'
<1> USE DEF retryVars, seqVars, dataVars
<1>1. /\ Loading /\ RingLoad /\ Ring /\ TypeOK /\ slow' = slow /\ ~ at_eof /\ len = 0 /\ pc = "read"
      /\ Len(stored) = UnitsIn(pkt)
  BY Reading DEF ReadEof
<1>2. get_hdr("eof", p, <<"ACK", Nak>>) /\ <<"ACK", Nak>> \in Seq(Answers) /\ pc' = "final"
  BY NakType DEF ReadEof, Answers
<1>3. /\ UNCHANGED <<snd, sblk, scrc, noise, slow>> /\ flushing' = "no"
      /\ line' \in Seq(Packets) /\ back' \in Seq(Answers)
      /\ line # <<>> /\ p = line[1] /\ p \in Packets /\ Verdict(p) = "eof" /\ p.bad \in {"no", "cksum"}
  BY <1>1, <1>2, GetHdr
<1>4. p.type = "EOT"
  <2>1. p.type \in {"block", "EOT", "CAN"}
    BY <1>3 DEF Packets
  <2> QED BY <1>3, <2>1 DEF Verdict
<1>5. pkt = NBlocks
  BY <1>1, <1>3, <1>4, NonEmpty DEF Ring, Lines, TypeOK
<1>6. Len(stored) = FileLength
  BY <1>1, <1>5, Units
<1>7. TypeOK'
  BY <1>1, <1>2, <1>3 DEF ReadEof, TypeOK, Answers
<1>8. Storage'
  BY <1>1, <1>2, <1>6 DEF ReadEof, FileInv, Storage, Opening, Loading
<1> QED BY <1>2, <1>7, <1>8 DEF FileInv, Opening, Loading

LEMMA FinalHeaderInv ==
    ASSUME FileInv, misread' \in BOOLEAN, ~ misread', EnoughTries, slow' = slow, NEW p, FinalHeader(p)
    PROVE  FileInv'
<1> USE DEF retryVars
<1>1. PICK stat \in {"ok", "timeout", "frame", "cksum", "eof", "cancel"} :
         get_hdr(stat, p, <<"ACK">>) /\ len' = IF stat = "ok" THEN len ELSE -1
  BY DEF FinalHeader
<1>2. TypeOK /\ slow' = slow /\ pc = "final" /\ len = 0 /\ Len(stored) = FileLength /\ Storage
  BY DEF FinalHeader, FileInv, Storage
<1>3. /\ UNCHANGED <<snd, sblk, scrc, noise, slow>> /\ flushing' = "no"
      /\ line' \in Seq(Packets) /\ back' \in Seq(Answers)
  BY <1>1, <1>2, Chars, HdrTypes
<1>4. len' \in {0, -1} /\ at_eof' = TRUE /\ pc' = "load"
  BY <1>1, <1>2 DEF FinalHeader
<1>5. TypeOK'
  <2>1. at_eof' \in BOOLEAN
    BY <1>4
  <2> QED BY <1>2, <1>3, <1>4, <2>1, YmodemAssumption DEF FinalHeader, TypeOK, Answers
<1>6. Storage'
  <2>1. len' + bufp' <= BlockLen
    BY <1>2, <1>4, YmodemAssumption DEF FinalHeader, TypeOK
  <2> QED BY <1>2, <1>4, <2>1 DEF FinalHeader, Storage, Opening, Loading
<1> QED BY <1>4, <1>5, <1>6 DEF FileInv, Opening, Loading

\* The units of the block follow those that are in place.
LEMMA CopyInv ==
    ASSUME FileInv, misread' \in BOOLEAN, ~ misread', EnoughTries, Copy
    PROVE  FileInv'
<1> USE DEF retryVars, seqVars, senderVars
<1> DEFINE n == IF size < len THEN size ELSE len
           o == (pkt - 1) * BlockLen
           new == [i \in 1 .. n |-> o + bufp + i]
<1>1. /\ stored' = stored \o [i \in 1 .. n |-> (pkt - 1) * BlockLen + bufp + i]
      /\ size' = size - n /\ len' = len - n /\ bufp' = bufp + n
      /\ pc = "load" /\ ~ at_eof /\ size > 0 /\ len > 0
      /\ UNCHANGED <<pc, flushing, retries, crc_retries, crc_mode, at_eof, tx_ack, next_blk, pkt, read_length,
                     file_length, line, back, snd, sblk, scrc, noise, slow>>
  BY DEF Copy
<1>2. TypeOK /\ Storage /\ Loading /\ RingLoad /\ Tries
  <2>1. len >= 0
    BY <1>1 DEF FileInv, TypeOK
  <2>2. Loading
    BY <1>1, <2>1 DEF Loading
  <2> QED BY <2>2 DEF FileInv
<1>3. size \in 0 .. ReadLen /\ len \in -1 .. BlockLen /\ bufp \in 0 .. BlockLen /\ ReadLen \in Nat /\ BlockLen \in Nat
      /\ pkt \in 0 .. NBlocks /\ NBlocks \in Nat
  BY <1>2, YmodemAssumption, LastBlock DEF TypeOK
<1>4. n \in 1 .. len /\ n <= size
  BY <1>1, <1>3
<1>5. /\ Len(stored) + len = UnitsIn(pkt) /\ Len(stored) = o + bufp /\ pkt \in 1 .. NBlocks
      /\ len + bufp <= BlockLen
  BY <1>1, <1>2, <1>3 DEF Storage
<1>6. o \in Nat /\ UnitsIn(pkt) \in 0 .. FileLength
  BY <1>3, <1>5, Units
<1>7. stored \in Seq(Int) /\ Len(stored) \in Nat /\ \A i \in DOMAIN stored : stored[i] = i
  BY <1>2 DEF TypeOK, Storage
<1>8. stored' = stored \o new
  BY <1>1
<1> HIDE DEF o, n
<1>9. new \in Seq(Int) /\ Len(new) = n /\ \A i \in 1 .. n : new[i] = Len(stored) + i
  BY <1>3, <1>4, <1>5, <1>6
<1> HIDE DEF new
<1>10. stored' \in Seq(Int) /\ Len(stored') = Len(stored) + n
  BY <1>7, <1>8, <1>9, ConcatProperties
<1>11. ASSUME NEW i \in DOMAIN stored' PROVE stored'[i] = i
  <2>1. i \in 1 .. Len(stored) + n
    BY <1>10
  <2>2. CASE i <= Len(stored)
    BY <1>3, <1>4, <1>7, <1>8, <1>9, <2>1, <2>2
  <2>3. CASE i > Len(stored)
    <3>1. i - Len(stored) \in 1 .. n
      BY <1>3, <1>4, <1>7, <2>1, <2>3
    <3>2. stored'[i] = new[i - Len(stored)]
      BY <1>7, <1>8, <1>9, <2>1, <2>3, <3>1, ConcatProperties
    <3> QED BY <1>7, <1>9, <2>1, <3>1, <3>2
  <2> QED BY <1>7, <2>1, <2>2, <2>3
<1>12. size' \in 0 .. ReadLen /\ len' \in 0 .. BlockLen /\ bufp' \in 0 .. BlockLen /\ len' + bufp' <= BlockLen
       /\ Len(stored') + len' = UnitsIn(pkt) /\ Len(stored') = o + bufp' /\ Len(stored') <= FileLength
  <2>1. size' = size - n /\ len' = len - n /\ bufp' = bufp + n
    BY <1>1
  <2> QED BY <1>3, <1>4, <1>5, <1>6, <1>7, <1>10, <2>1, YmodemAssumption
<1>13. TypeOK'
  BY <1>1, <1>2, <1>3, <1>10, <1>12 DEF TypeOK
<1>14. Storage'
  <2>1. Len(stored') = ((pkt' - 1) * BlockLen) + bufp' /\ pkt' > 0
    <3>1. pkt' = pkt /\ pkt > 0
      BY <1>1, <1>3, <1>5
    <3>2. Len(stored') = ((pkt - 1) * BlockLen) + bufp'
      BY <1>12 DEF o
    <3> QED BY <3>1, <3>2
  <2>2. IF file_length' = 0 THEN FALSE \in LengthSent ELSE read_length' = pkt' * BlockLen
    BY <1>1, <1>2 DEF Storage
  <2>3. Len(stored') + len' = UnitsIn(pkt')
    BY <1>1, <1>12
  <2> QED BY <1>1, <1>11, <1>12, <2>1, <2>2, <2>3 DEF Storage, Opening, Loading
<1>15. RingLoad'
  BY <1>1, <1>2 DEF RingLoad, Ring, Lines, IsBlock, OnlyCAN
<1> QED BY <1>1, <1>13, <1>14, <1>15 DEF FileInv, Opening, Loading, Tries

LEMMA CopyNegativeInv ==
    ASSUME FileInv, misread' \in BOOLEAN, ~ misread', EnoughTries, CopyNegative
    PROVE  FileInv'
<1> USE DEF retryVars, seqVars, dataVars, senderVars
<1>1. TypeOK'
  BY DEF FileInv, CopyNegative, TypeOK
<1>2. Storage' /\ pc' = "undefined"
  BY DEF FileInv, CopyNegative, Storage, Opening, Loading
<1> QED BY <1>1, <1>2 DEF FileInv, Opening, Loading

LEMMA LoadSerialInv ==
    ASSUME FileInv, misread' \in BOOLEAN, ~ misread', EnoughTries, load_serial_ymodem
    PROVE  FileInv'
<1> USE DEF retryVars, seqVars, dataVars, senderVars
<1>1. /\ UNCHANGED <<flushing, retries, crc_retries, crc_mode, at_eof, tx_ack, next_blk, len, pkt, bufp,
                     read_length, file_length, stored, line, back, snd, sblk, scrc, noise, slow>>
      /\ pc = "load" /\ pc' \in {"load", "aborted", "ended"} /\ size' \in {size, ReadLen}
  BY DEF load_serial_ymodem, Ended
<1>2. TypeOK'
  BY <1>1, YmodemAssumption DEF FileInv, TypeOK
<1>3. Storage'
  BY <1>1 DEF FileInv, Storage, Opening, Loading
<1>4. Loading' => Loading /\ pc' = "load"
  BY <1>1 DEF Loading
<1>5. Loading' => RingLoad'
  BY <1>1, <1>4 DEF FileInv, RingLoad, Ring, Lines, IsBlock, OnlyCAN
<1> QED BY <1>1, <1>2, <1>3, <1>4, <1>5 DEF FileInv, Opening, Tries

\* Tries that are left over when the sender has stopped, and nothing good is on its way.
LEMMA NoNeed ==
    ASSUME TypeOK', snd' = "stopped", ~ (line' # <<>> /\ IsBlock(1)' /\ line'[1].bad = "no")
    PROVE  Tries'
<1>1. Need' = 0
  BY DEF Need
<1> QED BY <1>1, YmodemAssumption DEF TypeOK, Tries

\* What was on the line is lost, or is taken for a part of something else.
LEMMA GoesOnInv ==
    ASSUME FileInv, misread' \in BOOLEAN, ~ misread', EnoughTries, slow' = slow, get_hdr_goes_on
    PROVE  FileInv'
<1>1. /\ UNCHANGED <<pc, retries, crc_retries, crc_mode, at_eof, tx_ack, next_blk, len, pkt, bufp,
                     read_length, file_length, size, stored, back, snd, sblk, scrc, noise, slow>>
      /\ pc \in {"open", "read", "final"}
      /\ line' \in Seq(Packets) /\ flushing' \in {"no", "timeout", "frame"}
  BY GoesOn DEF FileInv
<1>2. TypeOK' /\ TypeOK /\ line \in Seq(Packets)
  BY <1>1 DEF FileInv, TypeOK
<1>3. Storage' /\ (Opening' <=> Opening) /\ (Loading' <=> Loading)
  BY <1>1 DEF FileInv, Storage, Opening, Loading
<1>4. SUFFICES ASSUME Opening \/ Loading
               PROVE  (Opening => RingOpen') /\ (Loading => RingLoad' /\ Tries')
  BY <1>2, <1>3 DEF FileInv
<1>5. Ring /\ (Opening => RingOpen) /\ (Loading => RingLoad /\ Tries)
  BY <1>4 DEF FileInv, RingOpen, RingLoad
<1>6. SUFFICES Ring' /\ (\A i \in DOMAIN line' : line'[i].type = "EOT" => \E j \in DOMAIN line : line[j].type = "EOT")
               /\ (Loading => Tries')
  BY <1>1, <1>5 DEF RingOpen, RingLoad
<1>7. CASE line' = line /\ line = <<>> /\ back = <<>>
  <2>1. DOMAIN line' = {} /\ DOMAIN line = {}
    BY <1>2, <1>7, NonEmpty
  <2>2. Ring'
    BY <1>1, <1>5, <1>7, <2>1 DEF Ring, Lines, IsBlock, OnlyCAN
  <2>3. Need' = Need
    BY <1>1, <1>7 DEF Need, Lag
  <2> QED BY <1>1, <1>5, <2>1, <2>2, <2>3 DEF Tries
<1>8. CASE line # <<>> /\ line' = Tail(line) /\ (line[1].bad = "frame" \/ flushing # "no")
  <2>1. /\ Len(line) <= 1 => line' = <<>>
        /\ \A i \in DOMAIN line' : i + 1 \in DOMAIN line /\ line'[i] = line[i + 1] /\ line'[i].type = "CAN"
    BY <1>2, <1>5, <1>8, DropFirst DEF Ring
  <2>2. Shorter
    BY <2>1 DEF Shorter
  <2>3. OnlyCAN' /\ Lines'
    BY <1>1, <1>5, <2>2, LinesKept DEF OnlyCAN, Shorter, Ring
  <2>4. back = <<>> /\ (snd # "stopped" => line' = <<>>)
    BY <1>5, <1>8, <2>1 DEF Ring
  <2>5. Len(<<>>) = 0
    OBVIOUS
  <2>6. Ring'
    BY <1>1, <1>5, <2>3, <2>4, <2>5 DEF Ring
  <2>7. ASSUME Loading PROVE Tries'
    <3>1. CASE snd = "stopped"
      <4>1. ~ (line' # <<>> /\ IsBlock(1)')
        BY <1>1, <2>3, NonEmpty DEF OnlyCAN, IsBlock
      <4> QED BY <1>1, <1>2, <3>1, <4>1, NoNeed
    <3>2. CASE snd # "stopped"
      <4>1. flushing = "no"
        BY <1>2, <1>5, <1>8, <3>2, NonEmpty DEF Ring, OnlyCAN, Lines
      <4>2. Need = Lag /\ Need' = Lag' /\ Lag' = Lag
        BY <1>1, <1>8, <2>4, <3>2, <4>1 DEF Need, Lag
      <4> QED BY <1>1, <1>5, <2>7, <3>2, <4>2 DEF Tries
    <3> QED BY <3>1, <3>2
  <2> QED BY <2>3, <2>6, <2>7 DEF OnlyCAN
<1>9. CASE /\ Len(line) > 1 /\ line # <<>> /\ line[1].bad = "short" /\ Len(line') = Len(line) - 1
           /\ \E b \in {"cksum", "frame"} : line'[1] = [line[1] EXCEPT !.bad = b]
           /\ \A i \in 2 .. Len(line) - 1 : line'[i] = line[i + 1]
           /\ flushing' = flushing
  <2>1. PICK b \in {"cksum", "frame"} : line'[1] = [line[1] EXCEPT !.bad = b]
    BY <1>9
  <2>2. line[1] \in Packets /\ 1 \in DOMAIN line /\ Len(line) \in Nat /\ DOMAIN line = 1 .. Len(line)
        /\ DOMAIN line' = 1 .. Len(line')
    BY <1>1, <1>2, <1>9, NonEmpty
  <2>3. IsBlock(1) /\ snd = "stopped"
    <3>1. Len(line) \in Nat /\ ~ (Len(line) <= 1)
      BY <1>9, <2>2
    <3> QED BY <1>5, <1>9, <2>2, <3>1 DEF Ring, Lines
  <2>4. line'[1].type = "block" /\ line'[1].blk = line[1].blk /\ line'[1].crc = line[1].crc /\ line'[1].bad # "no"
    BY <2>1, <2>2, <2>3 DEF Packets, IsBlock
  <2>5. ASSUME NEW i \in DOMAIN line', i # 1
        PROVE  i + 1 \in DOMAIN line /\ i + 1 > 1 /\ line'[i] = line[i + 1]
    BY <1>9, <2>2, <2>5
  <2>6. Lines'
    <3> SUFFICES ASSUME NEW i \in DOMAIN line'
                 PROVE  /\ i > 1 => line'[i].type = "CAN"
                        /\ IsBlock(i)' => line'[i].blk = sblk' /\ line'[i].crc = scrc'
                        /\ IsBlock(i)' => snd' \in {"header", "data", "stopped"}
                        /\ line'[i].type = "EOT" => snd' \in {"eot", "stopped"} /\ sblk' = NBlocks /\ pkt' = NBlocks
                        /\ ~ IsBlock(i)' => line'[i].bad = "no"
                        /\ line'[i].type = "CAN" => snd' = "stopped"
      BY Zenon DEF Lines
    <3>1. CASE i = 1
      BY <1>1, <1>5, <2>2, <2>3, <2>4, <3>1 DEF Ring, Lines, IsBlock
    <3>2. CASE i # 1
      <4>1. i + 1 \in DOMAIN line /\ i + 1 > 1 /\ line'[i] = line[i + 1]
        BY <2>5, <3>2
      <4>2. line[i + 1].type = "CAN" /\ line[i + 1].bad = "no"
        BY <1>5, <4>1 DEF Ring, Lines, IsBlock
      <4> QED BY <1>1, <2>3, <4>1, <4>2 DEF IsBlock
    <3> QED BY <3>1, <3>2
  <2>7. flushing = "no"
    BY <1>1, <1>5, <2>2, <2>3 DEF Ring, OnlyCAN, IsBlock
  <2>8. Ring'
    BY <1>1, <1>5, <1>9, <2>3, <2>6, <2>7 DEF Ring
  <2>9. \A i \in DOMAIN line' : line'[i].type = "EOT" => \E j \in DOMAIN line : line[j].type = "EOT"
    BY <2>4, <2>5
  <2>10. Tries'
    BY <1>1, <1>2, <2>3, <2>4, NoNeed
  <2> QED BY <2>8, <2>9, <2>10
<1> QED BY <1>7, <1>8, <1>9, GoesOn DEF FileInv

-----------------------------------------------------------------------------
(* The invariant, action by action: the sender and the line *)

\* A step that is not the board's.
LEMMA BoardSame ==
    ASSUME FileInv, UNCHANGED boardVars
    PROVE  /\ UNCHANGED <<pc, flushing, retries, crc_retries, crc_mode, at_eof, tx_ack, next_blk, len, pkt,
                           bufp, read_length, file_length, size, stored, misread>>
           /\ Storage' /\ (Opening' <=> Opening) /\ (Loading' <=> Loading)
           /\ (Opening \/ Loading => Ring) /\ TypeOK
           /\ ~ (Opening /\ Loading)
<1>1. UNCHANGED <<pc, flushing, retries, crc_retries, crc_mode, at_eof, tx_ack, next_blk, len, pkt,
                  bufp, read_length, file_length, size, stored, misread>>
  BY DEF boardVars, retryVars, seqVars, dataVars
<1> QED BY <1>1 DEF FileInv, Storage, Opening, Loading, RingOpen, RingLoad

LEMMA OtherTypes ==
    ASSUME FileInv, misread' \in BOOLEAN, ~ misread', UNCHANGED boardVars, line' \in Seq(Packets), back' \in Seq(Answers), slow' = slow,
           snd' \in {"off", "start", "header", "wait", "data", "eot", "end", "last", "stopped"},
           sblk' \in 0 .. NBlocks, scrc' \in BOOLEAN, noise' \in 0 .. MaxNoise
    PROVE  TypeOK'
<1>1. UNCHANGED <<pc, flushing, retries, crc_retries, crc_mode, at_eof, tx_ack, next_blk, len, pkt,
                  bufp, read_length, file_length, size, stored, misread>>
  BY DEF boardVars, retryVars, seqVars, dataVars
<1>2. TypeOK /\ slow' = slow
  BY DEF FileInv
<1>3. back' \in Seq({"ACK", "NAK", "C"})
  BY DEF Answers
<1> QED BY <1>1, <1>2, <1>3 DEF TypeOK

LEMMA SenderTypes ==
    ASSUME TypeOK
    PROVE  /\ line \in Seq(Packets) /\ back \in Seq(Answers) /\ sblk \in 0 .. NBlocks /\ scrc \in BOOLEAN
           /\ noise \in 0 .. MaxNoise
           /\ snd \in {"off", "start", "header", "wait", "data", "eot", "end", "last", "stopped"}
BY DEF TypeOK, Answers

LEMMA SenderStartsInv ==
    ASSUME FileInv, misread' \in BOOLEAN, ~ misread', EnoughTries, SenderStarts
    PROVE  FileInv'
<1>1. /\ UNCHANGED boardVars /\ UNCHANGED <<line, sblk, scrc, noise, slow>>
      /\ snd = "off" /\ snd' = "start" /\ back' = <<>>
  BY DEF SenderStarts
<1>2. TypeOK'
  <2>1. TypeOK
    BY DEF FileInv
  <2>2. line' \in Seq(Packets) /\ back' \in Seq(Answers) /\ sblk' \in 0 .. NBlocks /\ scrc' \in BOOLEAN
        /\ noise' \in 0 .. MaxNoise
    BY <1>1, <2>1, Chars, SenderTypes
  <2> QED BY <1>1, <2>2, OtherTypes
<1>3. ~ Loading
  BY <1>1 DEF FileInv, RingLoad
<1>4. ASSUME Opening PROVE RingOpen'
  <2>1. RingOpen /\ Ring
    BY <1>4 DEF FileInv, RingOpen
  <2>2. DOMAIN back' = {} /\ Len(back') = 0
    BY <1>1
  <2>3. Lines'
    BY <1>1, <2>1, BoardSame DEF Ring, Lines, IsBlock
  <2>4. Ring'
    BY <1>1, <2>1, <2>2, <2>3, BoardSame DEF Ring, OnlyCAN
  <2> QED BY <1>1, <2>1, <2>2, <2>4 DEF RingOpen
<1> QED BY <1>1, <1>2, <1>3, <1>4, BoardSame DEF FileInv

LEMMA SenderStopsInv ==
    ASSUME FileInv, misread' \in BOOLEAN, ~ misread', EnoughTries, SenderStops
    PROVE  FileInv'
<1>1. /\ UNCHANGED boardVars /\ UNCHANGED <<sblk, scrc, noise, slow>>
      /\ snd \notin {"off", "stopped"} /\ snd' = "stopped" /\ back' = <<>>
      /\ line' \in {line, Append(line, CAN)}
  BY DEF SenderStops
<1>2. CAN \in Packets /\ CAN.type = "CAN" /\ CAN.bad = "no"
  BY LastBlock DEF CAN, Packets, Whole
<1>3. line \in Seq(Packets) /\ line' \in Seq(Packets)
  <2>1. line \in Seq(Packets)
    BY DEF FileInv, TypeOK
  <2>2. Append(line, CAN) \in Seq(Packets)
    BY <1>2, <2>1, AppendProperties
  <2> QED BY <1>1, <2>1, <2>2
<1>4. TypeOK'
  <2>1. TypeOK
    BY DEF FileInv
  <2>2. back' \in Seq(Answers) /\ sblk' \in 0 .. NBlocks /\ scrc' \in BOOLEAN /\ noise' \in 0 .. MaxNoise
    BY <1>1, <2>1, Chars, SenderTypes
  <2> QED BY <1>1, <1>3, <2>2, OtherTypes
<1>5. SUFFICES ASSUME Opening \/ Loading
               PROVE  (Opening => RingOpen') /\ (Loading => RingLoad' /\ Tries')
  BY <1>1, <1>4, BoardSame DEF FileInv
<1>6. Ring /\ (Opening => RingOpen) /\ (Loading => RingLoad /\ Tries)
  BY <1>1, <1>5, BoardSame DEF FileInv
<1>7. Len(line) \in Nat /\ Len(line) <= 1 /\ DOMAIN line = 1 .. Len(line) /\ (line # <<>> => Len(line) >= 1)
  BY <1>1, <1>3, <1>6, NonEmpty DEF Ring
<1>8. ASSUME NEW i \in DOMAIN line'
      PROVE  \/ i \in DOMAIN line /\ line'[i] = line[i] /\ ~ (i > 1)
             \/ line'[i] = CAN
  <2>1. CASE line' = line
    BY <1>7, <1>8, <2>1
  <2>2. CASE line' = Append(line, CAN)
    <3>1. DOMAIN line' = 1 .. Len(line) + 1
      BY <1>2, <1>3, <1>7, <2>2
    <3>2. i \in 1 .. Len(line) => line'[i] = line[i]
      BY <1>2, <1>3, <1>7, <2>2
    <3>3. i = Len(line) + 1 => line'[i] = CAN
      BY <1>2, <1>3, <1>7, <2>2
    <3> QED BY <1>7, <1>8, <3>1, <3>2, <3>3
  <2> QED BY <1>1, <2>1, <2>2
<1>9. Lines'
  <2> SUFFICES ASSUME NEW i \in DOMAIN line'
               PROVE  /\ i > 1 => line'[i].type = "CAN"
                      /\ IsBlock(i)' => line'[i].blk = sblk' /\ line'[i].crc = scrc'
                      /\ IsBlock(i)' => snd' \in {"header", "data", "stopped"}
                      /\ line'[i].type = "EOT" => snd' \in {"eot", "stopped"} /\ sblk' = NBlocks /\ pkt' = NBlocks
                      /\ ~ IsBlock(i)' => line'[i].bad = "no"
                      /\ line'[i].type = "CAN" => snd' = "stopped"
    BY Zenon DEF Lines
  <2>1. CASE i \in DOMAIN line /\ line'[i] = line[i] /\ ~ (i > 1)
    BY <1>1, <1>6, <2>1, BoardSame DEF Ring, Lines, IsBlock
  <2>2. CASE line'[i] = CAN
    BY <1>1, <1>2, <2>2 DEF IsBlock
  <2> QED BY <1>8, <2>1, <2>2
<1>10. Ring'
  <2>1. OnlyCAN => OnlyCAN'
    BY <1>2, <1>8 DEF OnlyCAN
  <2> QED BY <1>1, <1>6, <1>9, <2>1, BoardSame DEF Ring
<1>11. DOMAIN back' = {}
  BY <1>1
<1>12. Opening => RingOpen'
  BY <1>1, <1>2, <1>6, <1>8, <1>10, <1>11, BoardSame DEF RingOpen
<1>13. Loading => RingLoad'
  BY <1>1, <1>6, <1>10, <1>11, BoardSame DEF RingLoad
<1>14. ASSUME Loading PROVE Tries'
  <2>1. retries \in Nat /\ noise \in Nat /\ 2 * noise \in Nat
    BY YmodemAssumption DEF FileInv, TypeOK
  <2>2. CASE line' # <<>> /\ IsBlock(1)' /\ line'[1].bad = "no" /\ sblk = pkt /\ pc = "read"
    <3>1. Need' = 1
      BY <1>1, <2>2, BoardSame DEF Need
    <3>2. line # <<>> /\ IsBlock(1) /\ line[1] = line'[1]
      <4>1. 1 \in DOMAIN line' /\ line'[1] # CAN
        BY <1>2, <1>3, <2>2, NonEmpty DEF IsBlock
      <4>2. 1 \in DOMAIN line /\ line[1] = line'[1]
        BY <1>8, <4>1
      <4>3. Len(line) >= 1
        BY <1>7, <4>2
      <4> QED BY <1>3, <2>2, <4>2, <4>3, NonEmpty DEF IsBlock
    <3>3. snd \in {"header", "data"} /\ back = <<>>
      BY <1>1, <1>3, <1>6, <3>2, NonEmpty DEF Ring, Lines
    <3>4. Need >= 1 /\ Need \in Int
      BY <2>2, <3>2, <3>3 DEF Need, Lag
    <3>5. retries >= (2 * noise) + Need
      BY <1>1, <1>6, <1>14, <2>2 DEF Tries
    <3>6. retries >= 1
      BY <2>1, <3>4, <3>5
    <3> QED BY <1>1, <3>1, <3>6, BoardSame DEF Tries
  <2>3. CASE ~ (line' # <<>> /\ IsBlock(1)' /\ line'[1].bad = "no" /\ sblk = pkt) \/ pc # "read"
    <3>1. pc = "read" => Need' = 0
      BY <1>1, <2>3, BoardSame DEF Need
    <3> QED BY <1>1, <2>1, <3>1, BoardSame DEF Tries
  <2> QED BY <2>2, <2>3
<1> QED BY <1>12, <1>13, <1>14

LEMMA PacketTypes ==
    /\ \A b \in 0 .. NBlocks, crc \in BOOLEAN :
         /\ Block(b, crc) \in Packets /\ Block(b, crc).type = "block" /\ Block(b, crc).bad = "no"
         /\ Block(b, crc).blk = b /\ Block(b, crc).crc = crc
    /\ EOT \in Packets /\ EOT.type = "EOT" /\ EOT.bad = "no"
BY LastBlock DEF Block, EOT, Packets, Whole

\* The sender answers the only character that is on its way with a packet.
LEMMA OneOnLine ==
    ASSUME Ring, UNCHANGED <<pc, flushing, pkt>>, back # <<>>, back' = <<>>,
           NEW q \in Packets, line' = <<q>>, q.bad = "no",
           \/ q.type = "block" /\ q.blk = sblk' /\ q.crc = scrc' /\ snd' \in {"header", "data"}
           \/ q.type = "EOT" /\ snd' = "eot" /\ sblk' = NBlocks /\ pkt' = NBlocks
    PROVE  Ring' /\ line'[1] = q /\ DOMAIN line' = {1} /\ Need' = Lag' - 1 /\ DOMAIN back' = {}
<1>1. line'[1] = q /\ DOMAIN line' = {1} /\ Len(line') = 1 /\ line' # <<>> /\ Len(back') = 0 /\ DOMAIN back' = {}
  OBVIOUS
<1>2. Lines'
  BY <1>1 DEF Lines, IsBlock
<1>3. pc \notin {"prompt", "load"} /\ flushing = "no" /\ snd' \notin {"off", "stopped"}
  BY DEF Ring
<1>4. Ring'
  BY <1>1, <1>2, <1>3 DEF Ring
<1>5. Need' = Lag' - 1
  BY <1>1, <1>3 DEF Need
<1> QED BY <1>1, <1>4, <1>5

\* Every answer brings the sender as far forward as tries have been counted on.
LEMMA SenderReadsInv ==
    ASSUME FileInv, misread' \in BOOLEAN, ~ misread', EnoughTries, SenderReads
    PROVE  FileInv'
<1> DEFINE c == Head(back)
           Asked == /\ snd \in {"start", "end"} /\ c # "ACK"
                    /\ scrc' = IF snd = "start" THEN c = "C" ELSE scrc
                    /\ sblk' = 0
                    /\ snd' = IF snd = "start" THEN "header" ELSE "last"
                    /\ line' = Append(line, Block(0, scrc'))
           First == /\ snd = "wait" /\ c # "ACK"
                    /\ snd' = "data" /\ sblk' = 1
                    /\ line' = Append(line, Block(1, scrc))
                    /\ UNCHANGED scrc
           Following == /\ snd = "data" /\ c = "ACK" /\ sblk < NBlocks
                        /\ sblk' = sblk + 1
                        /\ line' = Append(line, Block(sblk + 1, scrc))
                        /\ UNCHANGED <<snd, scrc>>
           AtEnd == /\ snd = "data" /\ c = "ACK" /\ sblk = NBlocks
                    /\ snd' = "eot"
                    /\ line' = Append(line, EOT)
                    /\ UNCHANGED <<sblk, scrc>>
           Acked == /\ snd \in {"header", "eot", "last"} /\ c = "ACK"
                    /\ snd' = CASE snd = "header" -> "wait" [] snd = "eot" -> "end" [] OTHER -> "stopped"
                    /\ UNCHANGED <<line, sblk, scrc>>
           Ignored == /\ snd \in {"start", "wait", "end"} /\ c = "ACK"
                      /\ UNCHANGED <<snd, sblk, scrc, line>>
           Again == /\ Current # <<>> /\ c # "ACK"
                    /\ line' = line \o Current
                    /\ UNCHANGED <<snd, sblk, scrc>>
<1>1. /\ UNCHANGED boardVars /\ UNCHANGED <<noise, slow>>
      /\ back # <<>> /\ back' = IF snd' = "stopped" THEN <<>> ELSE Tail(back)
      /\ Asked \/ First \/ Following \/ AtEnd \/ Acked \/ Ignored \/ Again
  BY DEF SenderReads
<1>2. /\ TypeOK /\ line \in Seq(Packets) /\ back \in Seq(Answers) /\ sblk \in 0 .. NBlocks
      /\ scrc \in BOOLEAN /\ noise \in 0 .. MaxNoise /\ NBlocks \in Nat \ {0}
      /\ snd \in {"off", "start", "header", "wait", "data", "eot", "end", "last", "stopped"}
  BY SenderTypes, LastBlock DEF FileInv
<1>3. /\ back' \in Seq(Answers) /\ c = back[1] /\ 1 \in DOMAIN back /\ Len(back) \in Nat
      /\ back' = <<>> \/ Len(back') = Len(back) - 1
  BY <1>1, <1>2, Tails, NonEmpty
<1>4. Current \in Seq(Packets)
  <2>1. EOT \in Packets /\ Block(sblk, scrc) \in Packets
    BY <1>2, PacketTypes
  <2> QED BY <2>1 DEF Current
<1> HIDE DEF c
<1>5. TypeOK'
  <2>1. CASE Asked
    <3>1. scrc' \in BOOLEAN
      BY <1>2, <2>1, Zenon
    <3>2. 0 \in 0 .. NBlocks
      BY <1>2
    <3>3. Append(line, Block(0, scrc')) \in Seq(Packets)
      BY <1>2, <3>1, <3>2, PacketTypes, AppendProperties
    <3> QED BY <1>1, <1>2, <1>3, <2>1, <3>1, <3>2, <3>3, OtherTypes
  <2>2. CASE First
    <3>1. 1 \in 0 .. NBlocks
      BY <1>2
    <3>2. Append(line, Block(1, scrc)) \in Seq(Packets)
      BY <1>2, <3>1, PacketTypes, AppendProperties
    <3> QED BY <1>1, <1>2, <1>3, <2>2, <3>1, <3>2, OtherTypes
  <2>3. CASE Following
    <3>1. sblk + 1 \in 0 .. NBlocks
      BY <1>2, <2>3
    <3>2. Append(line, Block(sblk + 1, scrc)) \in Seq(Packets)
      BY <1>2, <3>1, PacketTypes, AppendProperties
    <3> QED BY <1>1, <1>2, <1>3, <2>3, <3>1, <3>2, OtherTypes
  <2>4. CASE AtEnd
    <3>1. Append(line, EOT) \in Seq(Packets)
      BY <1>2, PacketTypes, AppendProperties
    <3> QED BY <1>1, <1>2, <1>3, <2>4, <3>1, OtherTypes
  <2>5. CASE Acked
    <3>1. snd' \in {"wait", "end", "stopped"}
      BY <2>5
    <3> QED BY <1>1, <1>2, <1>3, <2>5, <3>1, OtherTypes
  <2>6. CASE Ignored
    BY <1>1, <1>2, <1>3, <2>6, OtherTypes
  <2>7. CASE Again
    <3>1. line \o Current \in Seq(Packets)
      BY <1>2, <1>4, ConcatProperties
    <3> QED BY <1>1, <1>2, <1>3, <2>7, <3>1, OtherTypes
  <2> QED BY <1>1, <2>1, <2>2, <2>3, <2>4, <2>5, <2>6, <2>7
<1>6. SUFFICES ASSUME Opening \/ Loading
               PROVE  (Opening => RingOpen') /\ (Loading => RingLoad' /\ Tries')
  BY <1>1, <1>5, BoardSame DEF FileInv
<1>7. /\ UNCHANGED <<pc, flushing, retries, crc_mode, at_eof, tx_ack, next_blk, len, pkt>>
      /\ Ring /\ ~ (Opening /\ Loading)
  BY <1>1, <1>6, BoardSame
<1>8. (Opening => RingOpen) /\ (Loading => RingLoad /\ Tries)
  BY DEF FileInv
<1>9. line = <<>> /\ back' = <<>> /\ snd \notin {"off", "stopped"} /\ pc \notin {"prompt", "load"} /\ flushing = "no"
  <2>1. snd \notin {"off", "stopped"} /\ line = <<>> /\ Len(back) <= 1 /\ pc \notin {"prompt", "load"} /\ flushing = "no"
    BY <1>1, <1>7 DEF Ring
  <2>2. Len(back) = 1
    <3>1. back # <<>>
      BY <1>1
    <3>2. Len(back) >= 1
      BY <1>2, <3>1, NonEmpty
    <3>3. Len(back) \in Nat /\ Len(back) <= 1
      BY <1>3, <2>1
    <3>4. \A n \in Nat : n >= 1 /\ n <= 1 => n = 1
      OBVIOUS
    <3> QED BY <3>2, <3>3, <3>4, Zenon
  <2>3. back' = <<>> \/ Len(back') = 0
    BY <1>3, <2>2
  <2> QED BY <1>3, <2>1, <2>3, NonEmpty
<1>10. \A q : Append(line, q) = <<q>>
  BY <1>9
<1>11. retries \in Int /\ 2 * noise \in Nat
  BY <1>2, YmodemAssumption DEF TypeOK
<1>12. CASE Opening
  <2>1. RingOpen /\ c # "ACK" /\ ~ Loading /\ sblk = 0
    BY <1>3, <1>7, <1>8, <1>12 DEF RingOpen
  <2>2. CASE Asked
    <3>1. snd' = "header" /\ scrc' \in BOOLEAN /\ 0 \in 0 .. NBlocks /\ line' = <<Block(0, scrc')>> /\ sblk' = 0
      BY <1>2, <1>5, <1>10, <2>1, <2>2 DEF RingOpen, TypeOK
    <3>2. Block(0, scrc') \in Packets /\ Block(0, scrc').type = "block" /\ Block(0, scrc').bad = "no"
          /\ Block(0, scrc').blk = 0 /\ Block(0, scrc').crc = scrc'
      BY <3>1, PacketTypes
    <3>3. Ring' /\ DOMAIN line' = {1} /\ line'[1] = Block(0, scrc') /\ DOMAIN back' = {}
      BY <1>1, <1>7, <1>9, <3>1, <3>2, OneOnLine
    <3> QED BY <2>1, <3>1, <3>2, <3>3 DEF RingOpen
  <2>3. CASE Again
    <3>1. snd = "header" /\ Current = <<Block(0, scrc)>> /\ 0 \in 0 .. NBlocks
      BY <1>2, <2>1, <2>3 DEF RingOpen, Current
    <3>2. line' = <<Block(0, scrc)>>
      BY <1>9, <2>3, <3>1
    <3>3. Block(0, scrc) \in Packets /\ Block(0, scrc).type = "block" /\ Block(0, scrc).bad = "no"
          /\ Block(0, scrc).blk = 0 /\ Block(0, scrc).crc = scrc
      BY <1>2, <3>1, PacketTypes
    <3>4. Ring' /\ DOMAIN line' = {1} /\ line'[1] = Block(0, scrc) /\ DOMAIN back' = {}
      BY <1>1, <1>7, <1>9, <2>1, <2>3, <3>1, <3>2, <3>3, OneOnLine
    <3> QED BY <2>1, <2>3, <3>1, <3>3, <3>4 DEF RingOpen
  <2> QED BY <1>1, <2>1, <2>2, <2>3 DEF RingOpen
<1>13. CASE Loading
  <2>1. /\ RingLoad /\ ~ Opening /\ pc = "read" /\ retries >= (2 * noise) + Need
        /\ pkt \in 0 .. NBlocks
    BY <1>2, <1>7, <1>8, <1>9, <1>13 DEF Tries, Loading, TypeOK
  <2>2. Need = IF c = "ACK" THEN Lag - 2 ELSE Lag - 1
    BY <1>1, <1>3, <1>9 DEF Need
  <2>3. c = "ACK" => snd \in {"header", "data"} /\ sblk = pkt
    BY <1>3, <2>1 DEF RingLoad
  <2>4. SUFFICES RingLoad' /\ Need' <= Need /\ Need' \in Int /\ Need \in Int /\ snd' # "stopped"
    <3> SUFFICES ASSUME RingLoad', Need' <= Need, Need' \in Int, Need \in Int, snd' # "stopped"
                 PROVE  Tries'
      BY <2>1
    <3>1. retries' >= (2 * noise') + Need'
      BY <1>1, <1>7, <1>11, <2>1
    <3> QED BY <3>1 DEF Tries
  <2>5. Lag \in {1, 2, 3} /\ Lag' \in {1, 2, 3}
    BY DEF Lag
  <2>6. CASE First
    <3>1. 1 \in 0 .. NBlocks /\ line' = <<Block(1, scrc)>> /\ sblk' = 1 /\ pkt = 0 /\ snd' = "data" /\ scrc' = scrc
          /\ snd = "wait" /\ c # "ACK"
      <4>1. 1 \in 0 .. NBlocks
        BY <1>2
      <4>2. pkt = 0
        BY <2>1, <2>6 DEF RingLoad
      <4> QED BY <1>10, <2>6, <4>1, <4>2
    <3>2. Block(1, scrc) \in Packets /\ Block(1, scrc).type = "block" /\ Block(1, scrc).bad = "no"
          /\ Block(1, scrc).blk = 1 /\ Block(1, scrc).crc = scrc
      BY <1>2, <3>1, PacketTypes
    <3>3. Ring' /\ Need' = Lag' - 1 /\ DOMAIN back' = {}
      BY <1>1, <1>7, <1>9, <3>1, <3>2, OneOnLine
    <3>4. RingLoad'
      BY <1>7, <1>9, <2>1, <3>1, <3>3 DEF RingLoad
    <3>5. Need = 0 /\ Need' = 0
      BY <1>7, <2>2, <3>1, <3>3 DEF Lag
    <3> QED BY <3>1, <3>4, <3>5
  <2>7. CASE Following
    <3>1. sblk + 1 \in 0 .. NBlocks /\ line' = <<Block(sblk + 1, scrc)>> /\ sblk' = sblk + 1 /\ pkt = sblk
          /\ snd' = "data" /\ snd = "data" /\ scrc' = scrc /\ c = "ACK"
      BY <1>2, <1>10, <2>3, <2>7
    <3>2. Block(sblk + 1, scrc) \in Packets /\ Block(sblk + 1, scrc).type = "block" /\ Block(sblk + 1, scrc).bad = "no"
          /\ Block(sblk + 1, scrc).blk = sblk + 1 /\ Block(sblk + 1, scrc).crc = scrc
      BY <1>2, <3>1, PacketTypes
    <3>3. Ring' /\ Need' = Lag' - 1 /\ DOMAIN back' = {}
      BY <1>1, <1>7, <1>9, <3>1, <3>2, OneOnLine
    <3>4. RingLoad'
      BY <1>2, <1>7, <1>9, <2>1, <3>1, <3>3 DEF RingLoad
    <3>5. Need = 0 /\ Need' = 0
      BY <1>2, <1>7, <2>2, <3>1, <3>3 DEF Lag
    <3> QED BY <3>1, <3>4, <3>5
  <2>8. CASE AtEnd
    <3>1. line' = <<EOT>> /\ sblk' = NBlocks /\ pkt = NBlocks /\ sblk = pkt /\ snd' = "eot" /\ snd = "data"
          /\ scrc' = scrc /\ c = "ACK"
      BY <1>10, <2>3, <2>8
    <3>2. Ring' /\ Need' = Lag' - 1 /\ DOMAIN back' = {}
      BY <1>1, <1>7, <1>9, <3>1, PacketTypes, OneOnLine
    <3>3. RingLoad'
      BY <1>7, <1>9, <2>1, <3>1, <3>2 DEF RingLoad
    <3>4. Need = 0 /\ Need' = 0
      BY <2>2, <3>1, <3>2 DEF Lag
    <3> QED BY <3>1, <3>3, <3>4
  <2>9. CASE Acked
    <3>1. snd = "header" /\ snd' = "wait" /\ line' = <<>> /\ c = "ACK" /\ UNCHANGED <<sblk, scrc>>
      BY <1>9, <2>3, <2>9
    <3>2. DOMAIN line' = {} /\ DOMAIN back' = {} /\ Len(<<>>) = 0
      BY <1>9, <3>1
    <3>3. Ring'
      BY <1>7, <1>9, <3>1, <3>2 DEF Ring, Lines, OnlyCAN
    <3>4. RingLoad'
      BY <1>7, <1>9, <2>1, <3>1, <3>2, <3>3 DEF RingLoad
    <3>5. Need = 1 /\ Need' = 1
      BY <1>9, <2>2, <3>1 DEF Need, Lag
    <3> QED BY <3>1, <3>4, <3>5
  <2>10. CASE Again
    <3>1. Need' = Lag' - 1 /\ Lag' = Lag /\ Need = Lag - 1 => Need' <= Need /\ Need' \in Int /\ Need \in Int
      BY <2>5
    <3>2. UNCHANGED <<snd, sblk, scrc>> /\ c # "ACK"
      BY <2>10
    <3>3. Lag' = Lag /\ Need = Lag - 1
      BY <1>7, <2>2, <3>2 DEF Lag
    <3>4. CASE snd = "eot"
      <4>1. Current = <<EOT>> /\ sblk = NBlocks /\ pkt = NBlocks
        BY <2>1, <3>4 DEF Current, RingLoad
      <4>2. line' = <<EOT>>
        BY <1>9, <2>10, <4>1
      <4>3. Ring' /\ Need' = Lag' - 1 /\ DOMAIN back' = {}
        BY <1>1, <1>7, <1>9, <3>2, <3>4, <4>1, <4>2, PacketTypes, OneOnLine
      <4>4. RingLoad'
        BY <1>7, <1>9, <2>1, <3>2, <4>3 DEF RingLoad
      <4> QED BY <3>1, <3>2, <3>3, <3>4, <4>3, <4>4
    <3>5. CASE snd \in {"header", "data"}
      <4>1. Current = <<Block(sblk, scrc)>>
        BY <3>5 DEF Current
      <4>2. line' = <<Block(sblk, scrc)>>
        BY <1>9, <2>10, <4>1
      <4>3. Block(sblk, scrc) \in Packets /\ Block(sblk, scrc).type = "block" /\ Block(sblk, scrc).bad = "no"
            /\ Block(sblk, scrc).blk = sblk /\ Block(sblk, scrc).crc = scrc
        BY <1>2, PacketTypes
      <4>4. Ring' /\ Need' = Lag' - 1 /\ DOMAIN back' = {}
        BY <1>1, <1>7, <1>9, <3>2, <3>5, <4>2, <4>3, OneOnLine
      <4>5. RingLoad'
        BY <1>7, <1>9, <2>1, <3>2, <4>4 DEF RingLoad
      <4> QED BY <3>1, <3>2, <3>3, <3>5, <4>4, <4>5
    <3>6. snd \in {"eot", "header", "data"}
      <4>1. snd # "last"
        BY <2>1 DEF RingLoad
      <4> QED BY <2>10, <4>1 DEF Current
    <3> QED BY <3>4, <3>5, <3>6
  <2>11. ~ Asked /\ ~ Ignored
    BY <2>1, <2>3 DEF RingLoad
  <2> QED BY <1>1, <2>6, <2>7, <2>8, <2>9, <2>10, <2>11
<1> QED BY <1>6, <1>12, <1>13

\* A fault costs at most two tries: it has been counted with two.
LEMMA NoiseInv ==
    ASSUME FileInv, misread' \in BOOLEAN, ~ misread', EnoughTries, Noise
    PROVE  FileInv'
<1> DEFINE Garbled == \E i \in DOMAIN line : \E b \in {"cksum", "frame", "short"} \cup Early :
                        /\ line[i].type = "block" /\ line[i].bad = "no"
                        /\ line' = [line EXCEPT ![i].bad = b]
                        /\ UNCHANGED back
           Lost == line # <<>> /\ line' = Tail(line) /\ UNCHANGED back
           AnswerLost == back # <<>> /\ back' = Tail(back) /\ UNCHANGED line
<1>1. /\ UNCHANGED boardVars /\ UNCHANGED <<snd, sblk, scrc, slow>>
      /\ noise > 0 /\ noise' = noise - 1 /\ (Garbled \/ Lost \/ AnswerLost)
  BY DEF Noise, senderVars
<1>2. /\ TypeOK /\ line \in Seq(Packets) /\ back \in Seq(Answers) /\ sblk \in 0 .. NBlocks
      /\ scrc \in BOOLEAN /\ noise \in 0 .. MaxNoise /\ MaxNoise \in Nat
      /\ snd \in {"off", "start", "header", "wait", "data", "eot", "end", "last", "stopped"}
  BY SenderTypes, YmodemAssumption DEF FileInv
<1>3. noise' \in 0 .. MaxNoise
  BY <1>1, <1>2
<1>4. ASSUME Garbled
      PROVE  \E i \in DOMAIN line : \E b \in {"cksum", "frame", "short"} \cup Early :
               /\ line[i].type = "block" /\ line[i].bad = "no" /\ line' \in Seq(Packets)
               /\ DOMAIN line' = DOMAIN line /\ Len(line') = Len(line) /\ back' = back
               /\ \A j \in DOMAIN line \ {i} : line'[j] = line[j]
               /\ line'[i].type = "block" /\ line'[i].bad = b
               /\ line'[i].blk = line[i].blk /\ line'[i].crc = line[i].crc
  <2>1. PICK i \in DOMAIN line, b \in {"cksum", "frame", "short"} \cup Early :
               /\ line[i].type = "block" /\ line[i].bad = "no"
               /\ line' = [line EXCEPT ![i].bad = b] /\ UNCHANGED back
    BY <1>4
  <2> DEFINE h == [line[i] EXCEPT !.bad = b]
  <2>2. line[i] \in Packets
    BY <1>2
  <2>3. h \in Packets /\ h.type = "block" /\ h.bad = b /\ h.blk = line[i].blk /\ h.crc = line[i].crc
    BY <2>1, <2>2 DEF Packets, Whole, Early
  <2>4. line' = [line EXCEPT ![i] = h]
    BY <2>1
  <2> HIDE DEF h
  <2>5. line' \in Seq(Packets) /\ DOMAIN line' = DOMAIN line /\ Len(line') = Len(line) /\ line'[i] = h
    BY <1>2, <2>3, <2>4, ExceptSeq
  <2>6. \A j \in DOMAIN line \ {i} : line'[j] = line[j]
    BY <1>2, <2>4
  <2> QED BY <2>1, <2>3, <2>5, <2>6
<1>5. TypeOK'
  <2>1. line' \in Seq(Packets) /\ back' \in Seq(Answers)
    <3>1. CASE Garbled
      BY <1>2, <1>4, <3>1
    <3>2. CASE Lost
      BY <1>2, <3>2, Tails
    <3>3. CASE AnswerLost
      BY <1>2, <3>3, Tails
    <3> QED BY <1>1, <3>1, <3>2, <3>3
  <2>2. sblk' \in 0 .. NBlocks /\ scrc' \in BOOLEAN /\ slow' = slow
        /\ snd' \in {"off", "start", "header", "wait", "data", "eot", "end", "last", "stopped"}
    BY <1>1, <1>2
  <2> QED BY <1>1, <1>3, <2>1, <2>2, OtherTypes
<1>6. SUFFICES ASSUME Opening \/ Loading
               PROVE  (Opening => RingOpen') /\ (Loading => RingLoad' /\ Tries')
  BY <1>1, <1>5, BoardSame DEF FileInv
<1>7. /\ UNCHANGED <<pc, flushing, retries, crc_mode, at_eof, tx_ack, next_blk, len, pkt>>
      /\ Ring /\ ~ (Opening /\ Loading)
  BY <1>1, <1>6, BoardSame
<1>8. (Opening => RingOpen) /\ (Loading => RingLoad /\ Tries)
  BY DEF FileInv
<1>9. SUFFICES /\ Ring'
               /\ \A i \in DOMAIN line' : line'[i].type = "EOT" => \E j \in DOMAIN line : line[j].type = "EOT"
               /\ \A i \in DOMAIN back' : i \in DOMAIN back /\ back'[i] = back[i]
               /\ Loading /\ pc = "read" => IF snd = "stopped" THEN Need' <= Need ELSE Need' <= Need + 2
  <2>0. ASSUME /\ Ring'
               /\ \A i \in DOMAIN line' : line'[i].type = "EOT" => \E j \in DOMAIN line : line[j].type = "EOT"
               /\ \A i \in DOMAIN back' : i \in DOMAIN back /\ back'[i] = back[i]
               /\ Loading /\ pc = "read" => IF snd = "stopped" THEN Need' <= Need ELSE Need' <= Need + 2
        PROVE  (Opening => RingOpen') /\ (Loading => RingLoad' /\ Tries')
    <3>1. Opening => RingOpen'
      BY <1>1, <1>8, <2>0 DEF RingOpen
    <3>2. Loading => RingLoad'
      BY <1>1, <1>7, <1>8, <2>0 DEF RingLoad
    <3>3. ASSUME Loading, pc = "read" PROVE Tries'
      <4>1. Need \in Int /\ Need' \in Int /\ retries \in Int
        <5>1. Lag \in Int /\ Lag' \in Int
          BY DEF Lag
        <5> QED BY <1>2, <5>1, YmodemAssumption DEF Need, TypeOK
      <4>2. 2 * noise' = (2 * noise) - 2 /\ 2 * noise \in Int
        BY <1>1, <1>2
      <4>3. retries >= IF snd = "stopped" THEN Need ELSE (2 * noise) + Need
        BY <1>8, <3>3 DEF Tries
      <4>4. retries' >= IF snd' = "stopped" THEN Need' ELSE (2 * noise') + Need'
        BY <1>1, <1>7, <2>0, <3>3, <4>1, <4>2, <4>3
      <4> QED BY <4>4 DEF Tries
    <3>4. pc # "read" => Tries'
      BY <1>7 DEF Tries
    <3> QED BY <3>1, <3>2, <3>3, <3>4
  <2> QED BY <2>0
<1>10. CASE Garbled
  <2>1. PICK i \in DOMAIN line, b \in {"cksum", "frame", "short"} \cup Early :
               /\ line[i].type = "block" /\ line[i].bad = "no" /\ line' \in Seq(Packets)
               /\ DOMAIN line' = DOMAIN line /\ Len(line') = Len(line) /\ back' = back
               /\ \A j \in DOMAIN line \ {i} : line'[j] = line[j]
               /\ line'[i].type = "block" /\ line'[i].bad = b
               /\ line'[i].blk = line[i].blk /\ line'[i].crc = line[i].crc
    BY <1>4, <1>10
  <2>2. \A j \in DOMAIN line : line'[j].type = line[j].type /\ line'[j].blk = line[j].blk /\ line'[j].crc = line[j].crc
    BY <2>1
  <2>3. \A j \in DOMAIN line : line[j].type # "block" => line'[j].bad = line[j].bad
    BY <2>1
  <2>4. Lines'
    <3> SUFFICES ASSUME NEW j \in DOMAIN line'
                 PROVE  /\ j > 1 => line'[j].type = "CAN"
                        /\ IsBlock(j)' => line'[j].blk = sblk' /\ line'[j].crc = scrc'
                        /\ IsBlock(j)' => snd' \in {"header", "data", "stopped"}
                        /\ line'[j].type = "EOT" => snd' \in {"eot", "stopped"} /\ sblk' = NBlocks /\ pkt' = NBlocks
                        /\ ~ IsBlock(j)' => line'[j].bad = "no"
                        /\ line'[j].type = "CAN" => snd' = "stopped"
      BY Zenon DEF Lines
    <3>1. j \in DOMAIN line
      BY <2>1
    <3> QED BY <1>1, <1>7, <2>2, <2>3, <3>1 DEF Ring, Lines, IsBlock
  <2>5. ~ OnlyCAN /\ line # <<>> /\ line' # <<>>
    BY <1>2, <2>1, NonEmpty DEF OnlyCAN
  <2>6. Ring'
    BY <1>1, <1>7, <2>1, <2>4, <2>5 DEF Ring
  <2>7. i = 1
    <3>1. ~ (i > 1)
      BY <1>7, <2>1 DEF Ring, Lines
    <3> QED BY <1>2, <2>1, <3>1, NonEmpty
  <2>8. IF snd = "stopped" THEN Need' <= Need ELSE Need' <= Need + 2
    <3>1. Lag' = Lag /\ Lag \in Int
      BY <1>1, <1>7 DEF Lag
    <3>2. line'[1].bad # "no"
      BY <2>1, <2>7 DEF Early
    <3>3. snd = "stopped" => Need' = 0 /\ Need \in {0, 1}
      BY <1>1, <3>2 DEF Need
    <3>4. snd # "stopped" => Need' = Lag /\ Need = Lag - 1
      BY <1>1, <1>7, <2>1, <2>5, <2>7, <3>1, <3>2 DEF Need, Ring
    <3> QED BY <3>1, <3>3, <3>4
  <2> QED BY <2>1, <2>2, <2>6, <2>8
<1>11. CASE Lost
  <2>1. /\ Len(line) <= 1 => line' = <<>>
        /\ \A i \in DOMAIN line' : i + 1 \in DOMAIN line /\ line'[i] = line[i + 1] /\ line'[i].type = "CAN"
    BY <1>2, <1>7, <1>11, DropFirst DEF Ring
  <2>2. Shorter
    BY <2>1 DEF Shorter
  <2>3. OnlyCAN' /\ Lines'
    BY <1>1, <1>7, <2>2, LinesKept DEF OnlyCAN, Shorter, Ring
  <2>4. back = <<>> /\ back' = <<>> /\ (snd # "stopped" => line' = <<>>)
    BY <1>7, <1>11, <2>1 DEF Ring
  <2>5. Len(<<>>) = 0 /\ DOMAIN <<>> = {}
    OBVIOUS
  <2>6. Ring'
    BY <1>1, <1>7, <2>3, <2>4, <2>5 DEF Ring
  <2>7. IF snd = "stopped" THEN Need' <= Need ELSE Need' <= Need + 2
    <3>1. Lag' = Lag /\ Lag \in Int
      BY <1>1, <1>7 DEF Lag
    <3>2. snd = "stopped" => ~ (line' # <<>> /\ IsBlock(1)')
      BY <1>5, <2>3, NonEmpty DEF OnlyCAN, IsBlock, TypeOK
    <3>3. snd = "stopped" => Need' = 0 /\ Need \in {0, 1}
      BY <1>1, <3>2 DEF Need
    <3>4. snd # "stopped" => Need' = Lag /\ Need \in {Lag - 1, Lag}
      BY <1>1, <1>11, <2>4, <3>1 DEF Need
    <3> QED BY <3>1, <3>3, <3>4
  <2> QED BY <2>3, <2>4, <2>5, <2>6, <2>7 DEF OnlyCAN
<1>12. CASE AnswerLost
  <2>1. snd \notin {"off", "stopped"} /\ line = <<>> /\ Len(back) <= 1 /\ flushing = "no" /\ pc \notin {"prompt", "load"}
    BY <1>7, <1>12 DEF Ring
  <2>2. back' = <<>> /\ line' = <<>>
    <3>1. Len(back') = Len(back) - 1 /\ back' \in Seq(Answers) /\ Len(back) \in Nat /\ Len(back) >= 1
      BY <1>2, <1>12, Tails, NonEmpty
    <3>2. Len(back') = 0
      BY <2>1, <3>1
    <3> QED BY <1>12, <2>1, <3>1, <3>2, NonEmpty
  <2>3. DOMAIN line' = {} /\ DOMAIN back' = {} /\ Len(<<>>) = 0
    BY <2>2
  <2>4. Ring'
    BY <1>1, <1>7, <2>1, <2>2, <2>3 DEF Ring, Lines, OnlyCAN
  <2>5. Need' <= Need + 2
    <3>1. Lag' = Lag /\ Lag \in Int
      BY <1>1, <1>7 DEF Lag
    <3>2. Need' = Lag /\ Need \in {Lag - 1, Lag - 2}
      BY <1>1, <1>12, <2>1, <2>2, <3>1 DEF Need
    <3> QED BY <3>1, <3>2
  <2> QED BY <2>1, <2>3, <2>4, <2>5
<1> QED BY <1>1, <1>10, <1>11, <1>12

-----------------------------------------------------------------------------
LEMMA InitInv == ASSUME EnoughTries, Init PROVE FileInv
<1>1. TypeOK
  <2>1. crc_mode \in BOOLEAN /\ at_eof \in BOOLEAN /\ tx_ack \in BOOLEAN /\ scrc \in BOOLEAN
        /\ misread \in BOOLEAN
    BY Zenon DEF Init
  <2>2. stored \in Seq(Int) /\ line \in Seq(Packets) /\ back \in Seq({"ACK", "NAK", "C"})
    BY DEF Init
  <2>3. /\ retries \in 0 .. MAX_RETRIES /\ next_blk \in 0 .. BlkModulus - 1 /\ size \in 0 .. ReadLen
        /\ len \in -1 .. BlockLen /\ pkt \in 0 .. NBlocks /\ bufp \in 0 .. BlockLen /\ sblk \in 0 .. NBlocks
        /\ noise \in 0 .. MaxNoise /\ slow \in 0 .. MaxSlow
    BY YmodemAssumption, LastBlock DEF Init, EnoughTries
  <2> QED BY <2>1, <2>2, <2>3 DEF Init, TypeOK
<1>2. stored = <<>> /\ line = <<>> /\ back = <<>> /\ Len(<<>>) = 0 /\ DOMAIN <<>> = {}
  BY DEF Init
<1>3. Storage
  BY <1>2, YmodemAssumption DEF Init, Storage, Opening, Loading
<1>4. RingOpen
  BY <1>2 DEF Init, RingOpen, Ring, Lines, OnlyCAN
<1> QED BY <1>1, <1>3, <1>4 DEF FileInv, Loading, Init

LEMMA StepInv ==
    ASSUME EnoughTries, FileInv, [Next]_vars, slow' = slow, misread' \in BOOLEAN, ~ misread'
    PROVE  FileInv'
<1>1. CASE Receiver
  <2>1. CASE Gets
    <3>1. PICK p \in Received :
             \/ OpenSucceeds(p) \/ OpenRetries(p)
             \/ ReadBlock(p) \/ ReadSameBlock(p) \/ ReadRetries(p) \/ ReadCancelled(p) \/ ReadEof(p)
             \/ FinalHeader(p)
      BY <2>1 DEF Gets
    <3> QED BY <3>1, OpenSucceedsInv, OpenRetriesInv, ReadBlockInv, ReadSameBlockInv, ReadRetriesInv,
               ReadCancelledInv, ReadEofInv, FinalHeaderInv
  <2> QED BY <1>1, <2>1, StreamOpenInv, StreamReadInv, GoesOnInv, CopyInv, CopyNegativeInv, LoadSerialInv
          DEF Receiver
<1>2. CASE SenderStarts
  BY <1>2, SenderStartsInv
<1>3. CASE SenderReads
  BY <1>3, SenderReadsInv
<1>4. CASE SenderTimesOut
  <2>1. slow \in Int /\ slow' = slow - 1
    BY <1>4, YmodemAssumption DEF SenderTimesOut, FileInv, TypeOK
  <2> QED BY <2>1
<1>5. CASE SenderStops
  BY <1>5, SenderStopsInv
<1>6. CASE Noise
  BY <1>6, NoiseInv
<1>7. CASE UNCHANGED vars
  <2>1. UNCHANGED boardVars /\ UNCHANGED <<line, back, snd, sblk, scrc, noise, slow>>
    BY <1>7 DEF vars, senderVars
  <2>2. UNCHANGED <<pc, flushing, retries, crc_retries, crc_mode, at_eof, tx_ack, next_blk, len, pkt,
                    bufp, read_length, file_length, size, stored, misread>>
    BY <2>1, BoardSame
  <2>3. TypeOK'
    BY <2>1, <2>2 DEF FileInv, TypeOK
  <2>4. (RingOpen => RingOpen') /\ (RingLoad => RingLoad')
    BY <2>1, <2>2 DEF RingOpen, RingLoad, Ring, Lines, OnlyCAN, IsBlock
  <2>5. Need' = Need
    BY <2>1, <2>2 DEF Need, Lag, IsBlock
  <2>6. Tries => Tries'
    BY <2>1, <2>2, <2>5 DEF Tries
  <2> QED BY <2>1, <2>3, <2>4, <2>6, BoardSame DEF FileInv
<1> QED BY <1>1, <1>2, <1>3, <1>4, <1>5, <1>6, <1>7 DEF Next, Sender

\* Once an answer has crossed, it has crossed.
LEMMA SlowFalls ==
    ASSUME slow \in 0 .. MaxSlow, [Next]_vars
    PROVE  slow' \in 0 .. MaxSlow /\ slow' <= slow
<1>0. MaxSlow \in Nat
  BY YmodemAssumption
<1> SUFFICES slow' = slow \/ (slow > 0 /\ slow' = slow - 1)
  BY <1>0
<1>1. Silence => slow' = slow \/ (slow > 0 /\ slow' = slow - 1)
  BY DEF Silence
<1>2. \A stat, p, chars : get_hdr(stat, p, chars) => slow' = slow \/ (slow > 0 /\ slow' = slow - 1)
  BY <1>1 DEF get_hdr
<1>3. CASE Gets
  BY <1>2, <1>3 DEF Gets, OpenSucceeds, OpenRetries, ReadBlock, ReadSameBlock, ReadRetries, ReadCancelled,
                    ReadEof, FinalHeader
<1>4. CASE get_hdr_goes_on
  BY <1>1, <1>4 DEF get_hdr_goes_on
<1>5. CASE stream_open \/ stream_read \/ Copy \/ CopyNegative \/ load_serial_ymodem
  BY <1>5 DEF stream_open, stream_read, Copy, CopyNegative, load_serial_ymodem
<1>6. CASE Sender \/ Noise
  BY <1>6 DEF Sender, SenderStarts, SenderReads, SenderTimesOut, SenderStops, Noise
<1>7. CASE UNCHANGED vars
  BY <1>7 DEF vars
<1> QED BY <1>3, <1>4, <1>5, <1>6, <1>7 DEF Next, Receiver

\* What has been misread has been misread.
LEMMA MisreadStays ==
    ASSUME misread \in BOOLEAN, [Next]_vars
    PROVE  misread' \in BOOLEAN /\ (misread => misread')
<1>1. \A stat, p, chars : get_hdr(stat, p, chars) => misread' \in BOOLEAN /\ (misread => misread')
  BY Zenon DEF get_hdr
<1>2. CASE Gets
  BY <1>1, <1>2, Zenon DEF Gets, OpenSucceeds, OpenRetries, ReadBlock, ReadSameBlock, ReadRetries,
                           ReadCancelled, ReadEof, FinalHeader
<1>3. CASE get_hdr_goes_on \/ stream_open \/ stream_read \/ Copy \/ CopyNegative \/ load_serial_ymodem
  <2>1. UNCHANGED misread
    BY <1>3 DEF get_hdr_goes_on, stream_open, stream_read, Copy, CopyNegative, load_serial_ymodem
  <2> QED BY <2>1
<1>4. CASE Sender \/ Noise \/ UNCHANGED vars
  <2>1. UNCHANGED boardVars
    BY <1>4 DEF Sender, SenderStarts, SenderReads, SenderTimesOut, SenderStops, Noise, vars
  <2> QED BY <2>1 DEF boardVars
<1> QED BY <1>2, <1>3, <1>4 DEF Next, Receiver

Crossed == slow < MaxSlow

\* FileInv holds until the two sides lose track of each other.
TrackInv == slow \in 0 .. MaxSlow /\ misread \in BOOLEAN /\ (~ Crossed /\ ~ misread => FileInv)

LEMMA TrackInit == ASSUME EnoughTries, Init PROVE TrackInv /\ FileInv
<1>1. slow \in 0 .. MaxSlow /\ misread \in BOOLEAN
  <2>1. misread \in BOOLEAN
    BY Zenon DEF Init
  <2> QED BY <2>1, YmodemAssumption DEF Init
<1>2. FileInv
  BY InitInv
<1> QED BY <1>1, <1>2 DEF TrackInv

LEMMA TrackStep ==
    ASSUME EnoughTries, TrackInv, [Next]_vars
    PROVE  TrackInv'
<1>1. slow' \in 0 .. MaxSlow /\ slow' <= slow /\ slow \in 0 .. MaxSlow /\ MaxSlow \in Nat
  BY SlowFalls, YmodemAssumption DEF TrackInv
<1>2. misread' \in BOOLEAN /\ (misread => misread')
  BY MisreadStays DEF TrackInv
<1>3. ASSUME ~ Crossed', ~ misread' PROVE FileInv'
  <2>1. slow' = slow /\ ~ Crossed
    BY <1>1, <1>3 DEF Crossed
  <2>2. misread' \in BOOLEAN /\ ~ misread
    BY <1>2, <1>3
  <2> QED BY <1>3, <2>1, <2>2, StepInv DEF TrackInv
<1> QED BY <1>1, <1>2, <1>3 DEF TrackInv

\* As long as no time-out has crossed an answer and no garbled packet has been read
\* (xyzModem_get_hdr) as the end of the file, a cancellation or a shorter block, loady
\* stores the file from its beginning on, without a gap, a repetition or padding, and
\* sees its end (xyzModem_stream_read) only when the whole file is in place, for files
\* and blocks of every length.
THEOREM UntilCrossed ==
    ASSUME EnoughTries
    PROVE  Spec => [](~ Crossed /\ ~ misread => TypeOK /\ InOrder /\ EofMeansComplete)
<1>1. Init => TrackInv
  BY TrackInit
<1>2. TrackInv /\ [Next]_vars => TrackInv'
  BY TrackStep
<1>3. TrackInv => (~ Crossed /\ ~ misread => TypeOK /\ InOrder /\ EofMeansComplete)
  BY DEF TrackInv, FileInv, Storage, InOrder, EofMeansComplete
<1> QED BY <1>1, <1>2, <1>3, PTL DEF Spec

LEMMA NeverCrossed == ASSUME MaxSlow = 0 PROVE Spec => []~ Crossed
<1>1. Init => slow \in 0 .. MaxSlow
  BY YmodemAssumption DEF Init
<1>2. slow \in 0 .. MaxSlow /\ [Next]_vars => (slow \in 0 .. MaxSlow)'
  BY SlowFalls
<1>3. slow \in 0 .. MaxSlow => ~ Crossed
  BY DEF Crossed
<1> QED BY <1>1, <1>2, <1>3, PTL DEF Spec

\* Without crossed answers, every variable keeps to its declaration until a garbled
\* packet is misread; in particular, the length of a block that xyzModem_stream_read
\* computes is never less than -1.
THEOREM TypeCorrect == ASSUME EnoughTries, MaxSlow = 0 PROVE Spec => [](~ misread => TypeOK)
BY UntilCrossed, NeverCrossed, PTL

\* Over a line without crossed answers loady stores the file from its beginning on,
\* until a garbled packet is misread.
THEOREM AlwaysInOrder == ASSUME EnoughTries, MaxSlow = 0 PROVE Spec => [](~ misread => InOrder)
BY UntilCrossed, NeverCrossed, PTL

\* Over such a line, when xyzModem_stream_read has seen the end of the file and no
\* garbled packet has been misread, the whole file is in place.
THEOREM EofComplete == ASSUME EnoughTries, MaxSlow = 0 PROVE Spec => []EofMeansComplete
<1>1. misread => EofMeansComplete
  BY DEF EofMeansComplete
<1> QED BY <1>1, UntilCrossed, NeverCrossed, PTL

-----------------------------------------------------------------------------
(* loady as a transfer of a file                                            *)

\* The blocks of the file that are in place to their last unit.
image == {b \in 1 .. NBlocks : UnitsIn(b) <= Len(stored)}

\* The end of the file is what tells the command that it has the file.
status == IF at_eof THEN "done"
          ELSE IF pc \in {"ended", "aborted", "undefined"} THEN "failed" ELSE "running"

FT == INSTANCE FileTransfer WITH size <- Cardinality(image)

LEMMA UnitsGrow ==
    ASSUME NEW a \in 0 .. NBlocks, NEW b \in 0 .. NBlocks, a < b
    PROVE  UnitsIn(a) < UnitsIn(b)
<1>1. b \in 1 .. NBlocks /\ a \in Nat /\ b - 1 \in Nat /\ a <= b - 1 /\ BlockLen \in Nat /\ NBlocks \in Nat
  BY LastBlock, YmodemAssumption
<1>2. /\ (b - 1) * BlockLen \in Nat
      /\ UnitsIn(b) - ((b - 1) * BlockLen) \in 1 .. BlockLen /\ UnitsIn(b) \in 0 .. FileLength
  BY <1>1, Units
<1>3. a * BlockLen <= (b - 1) * BlockLen /\ a * BlockLen \in Nat
  BY <1>1, ProductGrows
<1>4. a * BlockLen <= FileLength
  BY <1>2, <1>3, YmodemAssumption
<1>5. UnitsIn(a) = a * BlockLen
  BY <1>4 DEF UnitsIn
<1> QED BY <1>2, <1>3, <1>5, YmodemAssumption

\* While block b is copied, the blocks before it are in place.
LEMMA ImageIs ==
    ASSUME NEW b \in 1 .. NBlocks, NEW n \in Nat, UnitsIn(b - 1) <= n, n <= UnitsIn(b)
    PROVE  {x \in 1 .. NBlocks : UnitsIn(x) <= n} = IF n = UnitsIn(b) THEN 1 .. b ELSE 1 .. b - 1
<1> DEFINE S == {x \in 1 .. NBlocks : UnitsIn(x) <= n}
<1>0. NBlocks \in Nat /\ \A x \in 0 .. NBlocks : UnitsIn(x) \in Int
  BY LastBlock, Units, YmodemAssumption
<1>1. ASSUME NEW x \in 1 .. NBlocks, x < b PROVE x \in S
  <2>1. UnitsIn(x) <= UnitsIn(b - 1)
    <3>1. CASE x = b - 1
      BY <1>0, <3>1
    <3>2. CASE x < b - 1
      <4>1. x \in 0 .. NBlocks /\ b - 1 \in 0 .. NBlocks
        BY <1>0
      <4>2. UnitsIn(x) < UnitsIn(b - 1)
        BY <3>2, <4>1, UnitsGrow
      <4> QED BY <1>0, <4>1, <4>2
    <3> QED BY <1>0, <1>1, <3>1, <3>2
  <2>2. UnitsIn(x) \in Int /\ UnitsIn(b - 1) \in Int
    BY <1>0
  <2> QED BY <2>1, <2>2
<1>2. ASSUME NEW x \in 1 .. NBlocks, x > b PROVE x \notin S
  <2>1. x \in 0 .. NBlocks /\ b \in 0 .. NBlocks
    BY <1>0
  <2>2. UnitsIn(b) < UnitsIn(x)
    BY <1>2, <2>1, UnitsGrow
  <2>3. UnitsIn(x) \in Int /\ UnitsIn(b) \in Int
    BY <1>0, <2>1
  <2> QED BY <2>2, <2>3
<1>3. b \in S <=> n = UnitsIn(b)
  <2>1. UnitsIn(b) \in Int
    BY <1>0
  <2> QED BY <2>1
<1>4. S \subseteq 1 .. NBlocks
  OBVIOUS
<1> HIDE DEF S
<1>5. CASE n = UnitsIn(b)
  <2>1. ASSUME NEW x \in S PROVE x \in 1 .. b
    <3>1. x \in 1 .. NBlocks /\ ~ (x > b)
      BY <1>2, <1>3, <1>4, <1>5, <2>1
    <3> QED BY <1>0, <3>1
  <2>2. ASSUME NEW x \in 1 .. b PROVE x \in S
    <3>1. x \in 1 .. NBlocks /\ (x < b \/ x = b)
      BY <1>0, <2>2
    <3> QED BY <1>1, <1>3, <1>5, <3>1
  <2>3. S = 1 .. b
    BY <2>1, <2>2, Zenon
  <2> QED BY <2>3, <1>5 DEF S
<1>6. CASE n # UnitsIn(b)
  <2>1. ASSUME NEW x \in S PROVE x \in 1 .. b - 1
    <3>1. x \in 1 .. NBlocks /\ ~ (x > b) /\ x # b
      BY <1>2, <1>3, <1>4, <1>6, <2>1
    <3> QED BY <1>0, <3>1
  <2>2. ASSUME NEW x \in 1 .. b - 1 PROVE x \in S
    <3>1. x \in 1 .. NBlocks /\ (x < b)
      BY <1>0, <2>2
    <3> QED BY <1>1, <1>3, <1>6, <3>1
  <2>3. S = 1 .. b - 1
    BY <2>1, <2>2, Zenon
  <2> QED BY <2>3, <1>6 DEF S
<1> QED BY <1>5, <1>6 DEF S

LEMMA CountTo == \A b \in Nat : Cardinality(1 .. b) = b
<1> SUFFICES ASSUME NEW b \in Nat PROVE Cardinality(1 .. b) = b
  OBVIOUS
<1>1. Cardinality(1 .. b) = IF 1 > b THEN 0 ELSE b - 1 + 1
  BY FS_Interval
<1> QED BY <1>1

\* A copy ends within a block or completes it.
LEMMA CopyDelivers ==
    ASSUME EnoughTries, FileInv, FileInv', Copy
    PROVE  (\E b \in FT!File : FT!Deliver(b)) \/ UNCHANGED <<image, Cardinality(image), status>>
<1>1. /\ pc = "load" /\ ~ at_eof /\ len > 0 /\ UNCHANGED <<pc, at_eof, pkt>>
      /\ len' = IF size < len THEN len - size ELSE 0
      /\ size > 0
  <2>1. len \in Int /\ size \in Int
    BY DEF FileInv, TypeOK
  <2> QED BY <2>1 DEF Copy, seqVars
<1>2. /\ len \in Int /\ size \in Int /\ len' \in Int /\ bufp \in Nat /\ pkt \in 0 .. NBlocks /\ NBlocks \in Nat
      /\ Len(stored) \in Nat /\ Len(stored') \in Nat
  <2>1. TypeOK /\ TypeOK'
    BY DEF FileInv
  <2>2. stored \in Seq(Int) /\ stored' \in Seq(Int)
    BY <2>1 DEF TypeOK
  <2>3. len \in -1 .. BlockLen /\ size \in 0 .. ReadLen /\ len' \in -1 .. BlockLen /\ bufp \in 0 .. BlockLen /\ pkt \in 0 .. NBlocks
    BY <2>1 DEF TypeOK
  <2> QED BY <2>2, <2>3, LastBlock, YmodemAssumption
<1>3. Loading /\ Loading'
  BY <1>1, <1>2 DEF Loading
<1>4. /\ Len(stored) + len = UnitsIn(pkt) /\ pkt > 0 /\ Len(stored) = ((pkt - 1) * BlockLen) + bufp
      /\ Len(stored') + len' = UnitsIn(pkt)
  BY <1>1, <1>3 DEF FileInv, Storage, UnitsIn
<1>5. pkt \in 1 .. NBlocks
  BY <1>2, <1>4
<1>6. /\ UnitsIn(pkt - 1) = (pkt - 1) * BlockLen /\ (pkt - 1) * BlockLen \in Nat /\ UnitsIn(pkt) \in Int
  BY <1>5, Units, YmodemAssumption
<1>7. /\ UnitsIn(pkt - 1) <= Len(stored) /\ Len(stored) < UnitsIn(pkt)
      /\ UnitsIn(pkt - 1) <= Len(stored') /\ Len(stored') <= UnitsIn(pkt)
  BY <1>1, <1>2, <1>4, <1>6
<1>8. image = 1 .. pkt - 1
  BY <1>2, <1>5, <1>6, <1>7, ImageIs DEF image
<1>9. image' = IF Len(stored') = UnitsIn(pkt) THEN 1 .. pkt ELSE 1 .. pkt - 1
  BY <1>2, <1>5, <1>7, ImageIs DEF image, UnitsIn
<1>10. status = "running" /\ status' = "running"
  BY <1>1 DEF status
<1>11. CASE Len(stored') = UnitsIn(pkt)
  <2>1. image' = image \cup {pkt}
    BY <1>5, <1>8, <1>9, <1>11
  <2>2. Cardinality(image) = pkt - 1 /\ Cardinality(image') = pkt
    BY <1>5, <1>8, <1>9, <1>11, CountTo
  <2>3. FT!Deliver(pkt)
    BY <1>5, <1>8, <1>10, <2>1, <2>2 DEF FT!Deliver
  <2> QED BY <1>5, <2>3 DEF FT!File
<1>12. CASE Len(stored') # UnitsIn(pkt)
  BY <1>8, <1>9, <1>10, <1>12
<1> QED BY <1>11, <1>12

\* The command is told of the end of the file when all blocks are in place.
LEMMA FinalFinishes ==
    ASSUME FileInv, FileInv', NEW p, FinalHeader(p)
    PROVE  FT!Finish
<1>1. pc = "final" /\ ~ at_eof /\ at_eof' /\ UNCHANGED stored
  BY DEF FinalHeader, FileInv, Storage
<1>2. Len(stored) = FileLength
  BY <1>1 DEF FileInv, Storage
<1>3. image = 1 .. NBlocks /\ image' = 1 .. NBlocks
  <2>1. \A b \in 1 .. NBlocks : UnitsIn(b) <= FileLength
    BY Units, LastBlock, YmodemAssumption
  <2>2. image = 1 .. NBlocks
    BY <1>2, <2>1 DEF image
  <2>3. image' = image
    BY <1>1 DEF image, UnitsIn
  <2> QED BY <2>2, <2>3
<1>4. Cardinality(image) = NBlocks
  BY <1>3, CountTo, LastBlock
<1>5. status = "running" /\ status' = "done"
  BY <1>1 DEF status
<1> QED BY <1>3, <1>4, <1>5 DEF FT!Finish, FT!File

\* The rest of the board's steps puts nothing into place; it may give up.
LEMMA OthersDeliverNothing ==
    ASSUME UNCHANGED <<stored, at_eof>>,
           pc \in {"ended", "aborted", "undefined"} => pc' = pc
    PROVE  FT!GiveUp \/ UNCHANGED <<image, Cardinality(image), status>>
<1>1. image' = image
  BY DEF image, UnitsIn
<1>2. status' = status \/ (status = "running" /\ status' = "failed")
  BY DEF status
<1> QED BY <1>1, <1>2 DEF FT!GiveUp

LEMMA TransferStep ==
    ASSUME EnoughTries, FileInv, FileInv', [Next]_vars
    PROVE  [FT!Next]_<<image, Cardinality(image), status>>
<1> USE DEF retryVars, seqVars, dataVars, senderVars, hdrVars
<1>1. CASE Copy
  BY <1>1, CopyDelivers DEF FT!Next
<1>2. CASE \E p \in Received : FinalHeader(p)
  BY <1>2, FinalFinishes DEF FT!Next
<1>3. CASE stream_open
  <2>1. pc = "prompt" /\ pc' = "open" /\ UNCHANGED stored /\ at_eof' = FALSE /\ ~ at_eof
    BY <1>3 DEF stream_open, FileInv, Storage, Opening
  <2>2. image' = image
    BY <2>1 DEF image, UnitsIn
  <2>3. status' = status
    BY <2>1 DEF status
  <2> QED BY <2>2, <2>3
<1>4. CASE \E p \in Received : \/ OpenSucceeds(p) \/ OpenRetries(p)
                               \/ ReadBlock(p) \/ ReadSameBlock(p) \/ ReadRetries(p) \/ ReadCancelled(p)
                               \/ ReadEof(p)
  <2>1. UNCHANGED <<stored, at_eof>> /\ pc \in {"open", "read"}
    BY <1>4 DEF OpenSucceeds, OpenRetries, ReadBlock, ReadSameBlock, ReadRetries, ReadCancelled, ReadEof
  <2> QED BY <2>1, OthersDeliverNothing DEF FT!Next
<1>5. CASE stream_read \/ get_hdr_goes_on \/ CopyNegative \/ load_serial_ymodem
  <2>1. UNCHANGED <<stored, at_eof>> /\ pc \in {"load", "open", "read", "final"}
    BY <1>5 DEF stream_read, get_hdr_goes_on, Waiting, CopyNegative, load_serial_ymodem
  <2> QED BY <2>1, OthersDeliverNothing DEF FT!Next
<1>6. CASE Sender \/ Noise \/ UNCHANGED vars
  <2>1. UNCHANGED <<pc, stored, at_eof>>
    BY <1>6 DEF Sender, SenderStarts, SenderReads, SenderTimesOut, SenderStops, Noise, boardVars, vars
  <2> QED BY <2>1, OthersDeliverNothing DEF FT!Next
<1> QED BY <1>1, <1>2, <1>3, <1>4, <1>5, <1>6 DEF Next, Receiver, Gets

\* As long as no time-out crosses an answer and no garbled packet is misread, loady is
\* a transfer of the file like that of TftpHandler: its blocks come into place in their
\* order, none is spoilt, and xyzModem_stream_read sees the end of the file when all of
\* them are there.
THEOREM LoadyImplementsFileTransfer ==
    ASSUME EnoughTries
    PROVE  Spec /\ []~ Crossed /\ []~ misread => FT!Spec
<1>1. Init => TrackInv /\ FT!Init
  <2> SUFFICES ASSUME Init PROVE TrackInv /\ FT!Init
    OBVIOUS
  <2>1. TrackInv
    BY TrackInit
  <2>2. image = {}
    <3>1. Len(stored) = 0 /\ NBlocks \in Nat /\ UnitsIn(0) = 0
      BY LastBlock, Units DEF Init
    <3>2. \A b \in 1 .. NBlocks : UnitsIn(b) > 0
      BY <3>1, UnitsGrow
    <3>3. \A b \in 1 .. NBlocks : UnitsIn(b) \in Int
      BY <3>1, Units, YmodemAssumption
    <3> QED BY <3>1, <3>2, <3>3 DEF image
  <2>3. Cardinality(image) = 0
    BY <2>2, FS_EmptySet
  <2>4. status = "running"
    BY DEF Init, status
  <2> QED BY <2>1, <2>2, <2>3, <2>4 DEF FT!Init
<1>2. TrackInv /\ ~ Crossed /\ (~ Crossed)' /\ ~ misread /\ (~ misread)' /\ [Next]_vars
        => TrackInv' /\ [FT!Next]_<<image, Cardinality(image), status>>
  <2> SUFFICES ASSUME TrackInv, ~ Crossed, ~ Crossed', ~ misread, ~ misread', [Next]_vars
               PROVE  TrackInv' /\ [FT!Next]_<<image, Cardinality(image), status>>
    OBVIOUS
  <2>1. TrackInv'
    BY TrackStep
  <2>2. FileInv /\ FileInv'
    BY <2>1 DEF TrackInv
  <2> QED BY <2>1, <2>2, TransferStep
<1> QED BY <1>1, <1>2, PTL DEF Spec, FT!Spec
=============================================================================
