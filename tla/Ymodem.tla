------------------------------- MODULE Ymodem -------------------------------
(***************************************************************************)
(* The command loady: load_serial_ymodem (common/cmd_load.c) on top of the *)
(* YMODEM receiver (common/xyzModem.c), over a serial line that garbles    *)
(* and loses characters, from a sender that may be slow and may stop       *)
(* (line and sender are external).                                         *)
(*                                                                         *)
(* A packet is one element of the line.  A file is counted in units that   *)
(* are longer than the three characters the receiver looks for when it     *)
(* removes padding; unit u of the file is the number u.                    *)
(***************************************************************************)
EXTENDS Integers, Sequences

CONSTANTS
    FileLength,         \* units of the file
    BlockLen,           \* units of a block: 128 or 1024 characters in the code
    ReadLen,            \* units of ymodemBuf: 1024 characters in the code
    LengthSent,         \* may the sender's block 0 tell the file's length, or not?
    EofUnits,           \* units of the file that look like padding (^Z)
    BlkModulus,         \* 256 in the code: block numbers are 8 bits wide
    MAX_RETRIES,        \* 20 in the code
    MAX_RETRIES_WITH_CRC,   \* 10 in the code
    MaxNoise,           \* bound: packets and answers that are garbled or lost
    MaxSlow             \* bound: time-outs while an answer is on its way

NBlocks == (FileLength + BlockLen - 1) \div BlockLen

ASSUME YmodemAssumption ==
    /\ FileLength \in Nat \ {0} /\ BlockLen \in Nat \ {0} /\ ReadLen \in Nat \ {0}
    /\ LengthSent \subseteq BOOLEAN /\ LengthSent # {}
    /\ EofUnits \subseteq 1 .. FileLength
    /\ BlkModulus \in Nat \ {0, 1, 2}
    /\ MAX_RETRIES \in Nat \ {0} /\ MAX_RETRIES_WITH_CRC \in Nat
    /\ MaxNoise \in Nat /\ MaxSlow \in Nat

VARIABLES
    pc,                 \* "prompt"; waiting in xyzModem_get_hdr called by
                        \* stream_open ("open"), by the loop of stream_read
                        \* ("read") or for the "final" header; in stream_read
                        \* and its caller otherwise ("load"); "ended" with a
                        \* report, "aborted" or "undefined"
    flushing,           \* "no", or the result that follows xyzModem_flush
    retries, crc_retries,
    crc_mode, at_eof, tx_ack, next_blk,
    len,                \* units left of the block in pkt, -1 after an error
    pkt, bufp,          \* the last block, units of it that have been read
    file_length, read_length,
    size,               \* room that is left in ymodemBuf
    stored,             \* what the command puts into place
    misread,            \* has the beginning of a garbled packet passed for the
                        \* end of the file, a cancellation or a shorter block?
                        \* (history)
    line,               \* packets on their way to the board
    back,               \* answers on their way to the sender
    snd, sblk, scrc,    \* the sender: its state, its block, does it send a CRC?
    noise, slow         \* faults that may still happen

hdrVars    == <<flushing, line>>
retryVars  == <<retries, crc_retries, crc_mode>>
seqVars    == <<at_eof, tx_ack, next_blk>>
dataVars   == <<len, pkt, bufp, read_length>>
boardVars  == <<pc, flushing, retryVars, seqVars, dataVars, file_length, size, stored, misread>>
senderVars == <<snd, sblk, scrc>>
vars == <<boardVars, line, back, senderVars, noise, slow>>

(* What the characters of a garbled packet look like from its beginning: a block
   with a wrong checksum, a block with a wrong number, a block that lacks
   characters; or, with more characters behind it, an EOT, three CANs, a block
   that is shorter *)
Whole == {"no", "cksum", "frame", "short"}
Early == {"EOT", "CAN", "cut"}

Packets == [type : {"block", "EOT", "CAN"}, blk : 0 .. NBlocks, crc : BOOLEAN,
            bad : Whole \cup Early]

(* Every variable ranges over the values its declaration allows; in particular
   the number of units left in a block is never less than -1 *)
TypeOK ==
    /\ pc \in {"prompt", "open", "read", "final", "load", "ended", "aborted", "undefined"}
    /\ flushing \in {"no", "timeout", "frame"}
    /\ retries \in 0 .. MAX_RETRIES /\ crc_retries \in Int
    /\ crc_mode \in BOOLEAN /\ at_eof \in BOOLEAN /\ tx_ack \in BOOLEAN
    /\ next_blk \in 0 .. BlkModulus - 1
    /\ len \in -1 .. BlockLen /\ pkt \in 0 .. NBlocks /\ bufp \in 0 .. BlockLen
    /\ file_length \in {0, FileLength} /\ read_length \in Nat
    /\ size \in 0 .. ReadLen
    /\ stored \in Seq(Int)
    /\ line \in Seq(Packets) /\ back \in Seq({"ACK", "NAK", "C"})
    /\ snd \in {"off", "start", "header", "wait", "data", "eot", "end", "last", "stopped"}
    /\ sblk \in 0 .. NBlocks /\ scrc \in BOOLEAN
    /\ noise \in 0 .. MaxNoise /\ slow \in 0 .. MaxSlow
    /\ misread \in BOOLEAN

-----------------------------------------------------------------------------
(* The receiver                                                             *)

(* Characters for a sender that is not there are lost *)
Put(chars) == back' = IF snd \in {"off", "stopped"} THEN <<>> ELSE back \o chars

(* Nak that takes a garbled block for received *)
NakIsAck == "ACK"

(* 'C' is also what asks for a block again *)
Nak == IF crc_mode THEN "C" ELSE "NAK"

(* No character for the time of a time-out: the sender has nothing to answer,
   or is slow *)
Silence ==
    /\ line = <<>>
    /\ (back = <<>> /\ UNCHANGED slow) \/ (slow > 0 /\ slow' = slow - 1)

(* What xyzModem_get_hdr has found: three CANs, an EOT as the first character, or
   a block, which it has read to its end and tests *)
Verdict(p) ==
    CASE "CAN" \in {p.type, p.bad} -> "cancel"
      [] "EOT" \in {p.type, p.bad} -> "eof"
      [] p.type = "block" /\ (p.bad \in {"cksum", "cut"} \/ p.crc # crc_mode) -> "cksum"
      [] OTHER -> "ok"

(* How the characters that get_hdr leaves of a packet look to its next call, if it
   does not ignore them.  Behind a shorter block: like an EOT or another block that
   is garbled; behind an EOT: like the latter (bounds).  A checksum of two characters
   where one is expected leaves one.  Nothing reads on behind CANs *)
Rest(p) ==
    {<<>>} \cup {<<[p EXCEPT !.bad = b]>> : b \in
      CASE p.bad = "cut" -> {"cksum", "EOT"}
        [] p.bad = "EOT" -> {"frame"}
        [] p.type = "block" /\ p.bad \in {"no", "cksum"} /\ p.crc /\ ~ crc_mode -> {"EOT", "short"}
        [] OTHER -> {}}

(* xyzModem_get_hdr returns stat: after a packet, after the characters of an
   incomplete packet, or after flushing.  It has sent an ACK for an EOT.  Nothing
   depends on what the final header is taken for *)
get_hdr(stat, p, chars) ==
    /\ \/ /\ flushing = "no" /\ line # <<>>
          /\ p = Head(line) /\ p.bad \notin {"frame", "short"}
          /\ stat = Verdict(p)
          /\ \E rest \in Rest(p) : line' = rest \o Tail(line)
          /\ UNCHANGED <<flushing, slow>>
       \/ /\ flushing = "no" /\ Len(line) = 1
          /\ p = Head(line) /\ p.bad = "short"
          /\ stat = "timeout"
          /\ line' = <<>>
          /\ UNCHANGED <<flushing, slow>>
       \/ /\ flushing # "no" /\ Silence
          /\ stat = flushing
          /\ flushing' = "no"
          /\ UNCHANGED line
    /\ Put(IF stat = "eof" THEN <<"ACK">> \o chars ELSE chars)
    /\ misread' = (misread \/ (pc # "final" /\ p.bad \in Early))
    /\ UNCHANGED <<senderVars, noise>>

Waiting == pc \in {"open", "read", "final"}

(* xyzModem_get_hdr does not return yet: nothing came, the block's number was
   garbled, or it is flushing; a packet may be taken for the end of an incomplete
   one *)
get_hdr_goes_on ==
    /\ Waiting
    /\ \/ flushing = "no" /\ Silence /\ flushing' = "timeout" /\ UNCHANGED line
       \/ /\ flushing = "no" /\ line # <<>> /\ Head(line).bad = "frame"
          /\ flushing' = "frame" /\ line' = Tail(line) /\ UNCHANGED slow
       \/ /\ flushing = "no" /\ Len(line) > 1 /\ Head(line).bad = "short"
          /\ \E b \in {"cksum", "frame"} :
               line' = <<[Head(line) EXCEPT !.bad = b]>> \o Tail(Tail(line))
          /\ UNCHANGED <<flushing, slow>>
       \/ flushing # "no" /\ line # <<>> /\ line' = Tail(line) /\ UNCHANGED <<flushing, slow>>
    /\ UNCHANGED <<pc, retryVars, seqVars, dataVars, file_length, size, stored, misread, back,
                   senderVars, noise>>

(* load_serial_ymodem reports the size, whatever the reason of its end *)
Ended == pc' = "ended"

(* xyzModem_stream_open, up to its loop *)
stream_open ==
    /\ pc = "prompt"
    /\ pc' = "open"
    /\ retries' = MAX_RETRIES - 1 /\ crc_retries' = MAX_RETRIES_WITH_CRC
    /\ crc_mode' = TRUE /\ at_eof' = FALSE /\ tx_ack' = FALSE
    /\ len' = 0 /\ read_length' = 0 /\ file_length' = 0
    /\ Put(<<"C">>)
    /\ UNCHANGED <<flushing, next_blk, pkt, bufp, size, stored, misread, line, senderVars, noise, slow>>

(* A good packet ends the loop, whatever its number.  Only block 0 will be
   acknowledged *)
OpenSucceeds(p) ==
    /\ pc = "open"
    /\ get_hdr("ok", p, <<>>)
    /\ tx_ack' = (p.blk % BlkModulus = 0)
    /\ \E sent \in LengthSent :
         file_length' = IF p.blk % BlkModulus = 0 /\ sent THEN FileLength ELSE file_length
    /\ next_blk' = 1
    /\ len' = 0
    /\ pc' = "load" /\ size' = ReadLen
    /\ UNCHANGED <<retryVars, at_eof, pkt, bufp, read_length, stored>>

(* Retries that are not counted *)
SameTries(n) == n

(* retries-- *)
TriesLeft(n) == n - 1

(* Only a time-out is answered *)
OpenRetries(p) ==
    /\ pc = "open"
    /\ \E stat \in {"timeout", "frame", "cksum", "eof", "cancel"} :
         /\ crc_retries' = IF stat = "timeout" THEN crc_retries - 1 ELSE crc_retries
         /\ crc_mode' = (crc_mode /\ (stat = "timeout" => crc_retries' > 0))
         /\ get_hdr(stat, p, IF stat = "timeout" THEN <<IF crc_mode' THEN "C" ELSE "NAK">> ELSE <<>>)
         /\ IF retries = 0 \/ stat = "cancel"
              THEN Ended /\ UNCHANGED retries
              ELSE retries' = TriesLeft(retries) /\ UNCHANGED pc
    /\ UNCHANGED <<seqVars, dataVars, file_length, size, stored>>

(* xyzModem_stream_read needs a block; the acknowledgement of the one before
   has waited until now *)
stream_read ==
    /\ pc = "load" /\ ~ at_eof /\ size > 0 /\ len = 0
    /\ pc' = "read"
    /\ retries' = MAX_RETRIES - 1
    /\ tx_ack' = FALSE
    /\ Put(IF tx_ack THEN <<"ACK">> ELSE <<>>)
    /\ UNCHANGED <<flushing, crc_retries, crc_mode, at_eof, next_blk, dataVars, file_length,
                   size, stored, misread, line, senderVars, noise, slow>>

(* Units of block b without the padding at its end *)
Eof(u) == u > FileLength \/ u \in EofUnits
Trimmed(b) == CHOOSE n \in 0 .. BlockLen :
    /\ \A i \in n + 1 .. BlockLen : Eof((b - 1) * BlockLen + i)
    /\ n = 0 \/ ~ Eof((b - 1) * BlockLen + n)

(* The length without a look at that of the file *)
UncutLength(b, read) == IF file_length = 0 THEN Trimmed(b) ELSE BlockLen

(* The length of block b without padding, when read units have come *)
DataLength(b, read) ==
    IF file_length = 0 THEN Trimmed(b)
    ELSE IF read > file_length THEN BlockLen - (read - file_length) ELSE BlockLen

(* A counter of more than 8 bits *)
NextBlkNoWrap(n) == n + 1

NextBlk(n) == (n + 1) % BlkModulus

ReadBlock(p) ==
    /\ pc = "read"
    /\ get_hdr("ok", p, <<>>)
    /\ p.blk % BlkModulus = next_blk
    /\ next_blk' = NextBlk(next_blk)
    /\ tx_ack' = TRUE
    /\ pkt' = p.blk /\ bufp' = 0
    /\ read_length' = IF file_length = 0 THEN read_length ELSE read_length + BlockLen
    /\ len' = DataLength(p.blk, read_length + BlockLen)
    /\ pc' = "load"
    /\ UNCHANGED <<retryVars, at_eof, file_length, size, stored>>

(* A repeated block is acknowledged as if it were two *)
ReAckTwice == <<"ACK", "ACK">>

ReAck == <<"ACK">>

(* The block before comes again.  After the last retry, stat still says that a
   block has been received *)
ReadSameBlock(p) ==
    /\ pc = "read"
    /\ get_hdr("ok", p, ReAck)
    /\ p.blk % BlkModulus = (next_blk - 1) % BlkModulus
    /\ IF retries = 0
         THEN pc' = "load" /\ len' = BlockLen /\ pkt' = p.blk /\ bufp' = 0 /\ UNCHANGED retries
         ELSE retries' = TriesLeft(retries) /\ UNCHANGED <<pc, len, pkt, bufp>>
    /\ UNCHANGED <<crc_retries, crc_mode, seqVars, read_length, file_length, size, stored>>

(* stream_read returns an error and what it has got so far; the caller asks
   again unless that is nothing, or cannot be put into place *)
Error ==
    /\ len' = -1
    /\ IF size < ReadLen THEN pc' \in {"load", "aborted"} /\ size' = ReadLen
                         ELSE Ended /\ UNCHANGED size

ReadRetries(p) ==
    /\ pc = "read"
    /\ \E stat \in {"ok", "timeout", "frame", "cksum"} :
         /\ get_hdr(stat, p, <<Nak>>)
         /\ stat = "ok" =>
              p.blk % BlkModulus \notin {next_blk, (next_blk - 1) % BlkModulus}
    /\ IF retries = 0
         THEN Error /\ UNCHANGED retries
         ELSE retries' = TriesLeft(retries) /\ UNCHANGED <<pc, len, size>>
    /\ UNCHANGED <<crc_retries, crc_mode, seqVars, pkt, bufp, read_length, file_length, stored>>

ReadCancelled(p) ==
    /\ pc = "read"
    /\ get_hdr("cancel", p, <<>>)
    /\ Error
    /\ UNCHANGED <<retryVars, seqVars, pkt, bufp, read_length, file_length, stored>>

(* The end of the file is acknowledged once more, and the final header asked for *)
ReadEof(p) ==
    /\ pc = "read"
    /\ get_hdr("eof", p, <<"ACK", Nak>>)
    /\ pc' = "final"
    /\ UNCHANGED <<retryVars, seqVars, dataVars, file_length, size, stored>>

(* Whatever comes, it is acknowledged *)
FinalHeader(p) ==
    /\ pc = "final"
    /\ \E stat \in {"ok", "timeout", "frame", "cksum", "eof", "cancel"} :
         /\ get_hdr(stat, p, <<"ACK">>)
         /\ len' = IF stat = "ok" THEN len ELSE -1
    /\ at_eof' = TRUE
    /\ pc' = "load"
    /\ UNCHANGED <<retryVars, tx_ack, next_blk, pkt, bufp, read_length, file_length, size, stored>>

(* memcpy from the block to ymodemBuf, and from there to its place *)
Copy ==
    /\ pc = "load" /\ ~ at_eof /\ size > 0 /\ len > 0
    /\ LET n == IF size < len THEN size ELSE len
       IN  /\ stored' = stored \o [i \in 1 .. n |-> (pkt - 1) * BlockLen + bufp + i]
           /\ size' = size - n /\ len' = len - n /\ bufp' = bufp + n
    /\ UNCHANGED <<pc, flushing, retryVars, seqVars, pkt, read_length, file_length, misread, line,
                   back, senderVars, noise, slow>>

(* memcpy with a length of -1 *)
CopyNegative ==
    /\ pc = "load" /\ ~ at_eof /\ size > 0 /\ len < 0
    /\ pc' = "undefined"
    /\ UNCHANGED <<flushing, retryVars, seqVars, dataVars, file_length, size, stored, misread,
                   line, back, senderVars, noise, slow>>

(* stream_read returns what it has read: it is put into place, and if that is
   flash it may fail; when nothing has been read the command ends *)
load_serial_ymodem ==
    /\ pc = "load" /\ (at_eof \/ size = 0)
    /\ \/ size < ReadLen /\ size' = ReadLen /\ UNCHANGED pc
       \/ size < ReadLen /\ pc' = "aborted" /\ UNCHANGED size
       \/ size = ReadLen /\ Ended /\ UNCHANGED size
    /\ UNCHANGED <<flushing, retryVars, seqVars, dataVars, file_length, stored, misread, line,
                   back, senderVars, noise, slow>>

-----------------------------------------------------------------------------
(* Sender and line (external)                                               *)

Block(b, crc) == [type |-> "block", blk |-> b, crc |-> crc, bad |-> "no"]
EOT == [type |-> "EOT", blk |-> 0, crc |-> TRUE, bad |-> "no"]
CAN == [type |-> "CAN", blk |-> 0, crc |-> TRUE, bad |-> "no"]

(* What the sender repeats until it is acknowledged *)
Current == IF snd = "eot" THEN <<EOT>>
           ELSE IF snd \in {"header", "data", "last"} THEN <<Block(sblk, scrc)>> ELSE <<>>

(* The user starts it, sooner or later *)
SenderStarts ==
    /\ snd = "off"
    /\ snd' = "start"
    /\ back' = <<>>
    /\ UNCHANGED <<boardVars, line, sblk, scrc, noise, slow>>

(* 'C' or NAK asks for block 0, later for block 1, in the end for the final
   header; an acknowledgement asks for what follows; other answers ask for the
   same again, or for nothing *)
SenderReads ==
    /\ back # <<>>
    /\ LET c == Head(back)
       IN \/ /\ snd \in {"start", "end"} /\ c # "ACK"
             /\ scrc' = IF snd = "start" THEN c = "C" ELSE scrc
             /\ sblk' = 0
             /\ snd' = IF snd = "start" THEN "header" ELSE "last"
             /\ line' = Append(line, Block(0, scrc'))
          \/ /\ snd = "wait" /\ c # "ACK"
             /\ snd' = "data" /\ sblk' = 1
             /\ line' = Append(line, Block(1, scrc))
             /\ UNCHANGED scrc
          \/ /\ snd = "data" /\ c = "ACK" /\ sblk < NBlocks
             /\ sblk' = sblk + 1
             /\ line' = Append(line, Block(sblk + 1, scrc))
             /\ UNCHANGED <<snd, scrc>>
          \/ /\ snd = "data" /\ c = "ACK" /\ sblk = NBlocks
             /\ snd' = "eot"
             /\ line' = Append(line, EOT)
             /\ UNCHANGED <<sblk, scrc>>
          \/ /\ snd \in {"header", "eot", "last"} /\ c = "ACK"
             /\ snd' = CASE snd = "header" -> "wait" [] snd = "eot" -> "end" [] OTHER -> "stopped"
             /\ UNCHANGED <<line, sblk, scrc>>
          \/ /\ snd \in {"start", "wait", "end"} /\ c = "ACK"
             /\ UNCHANGED <<snd, sblk, scrc, line>>
          \/ /\ Current # <<>> /\ c # "ACK"
             /\ line' = line \o Current
             /\ UNCHANGED <<snd, sblk, scrc>>
    /\ back' = IF snd' = "stopped" THEN <<>> ELSE Tail(back)
    /\ UNCHANGED <<boardVars, noise, slow>>

(* The sender's time-outs are longer than the receiver's: one of them means that
   the receiver was slow *)
SenderTimesOut ==
    /\ back = <<>> /\ Current # <<>>
    /\ slow > 0 /\ slow' = slow - 1
    /\ line' = line \o Current
    /\ UNCHANGED <<boardVars, back, senderVars, noise>>

(* The user stops it, or its line breaks *)
SenderStops ==
    /\ snd \notin {"off", "stopped"}
    /\ snd' = "stopped"
    /\ back' = <<>>
    /\ line' \in {line, Append(line, CAN)}
    /\ UNCHANGED <<boardVars, sblk, scrc, noise, slow>>

(* Characters of a packet are garbled or lost.  The first ones may then be anything:
   without its SOH a block begins with its number, which may be that of an EOT or
   a CAN *)
Noise ==
    /\ noise > 0 /\ noise' = noise - 1
    /\ \/ \E i \in DOMAIN line : \E b \in {"cksum", "frame", "short"} \cup Early :
            /\ line[i].type = "block" /\ line[i].bad = "no"
            /\ line' = [line EXCEPT ![i].bad = b]
            /\ UNCHANGED back
       \/ line # <<>> /\ line' = Tail(line) /\ UNCHANGED back
       \/ back # <<>> /\ back' = Tail(back) /\ UNCHANGED line
    /\ UNCHANGED <<boardVars, senderVars, slow>>

-----------------------------------------------------------------------------
Init ==
    /\ pc = "prompt" /\ flushing = "no"
    /\ retries = 0 /\ crc_retries = 0 /\ crc_mode = FALSE
    /\ at_eof = FALSE /\ tx_ack = FALSE /\ next_blk = 0
    /\ len = 0 /\ pkt = 0 /\ bufp = 0 /\ file_length = 0 /\ read_length = 0
    /\ size = ReadLen /\ stored = <<>>
    /\ line = <<>> /\ back = <<>>
    /\ snd = "off" /\ sblk = 0 /\ scrc = TRUE
    /\ noise = MaxNoise /\ slow = MaxSlow
    /\ misread = FALSE

(* p is the packet that get_hdr has read; none after flushing *)
Received == IF line = <<>> THEN {CAN} ELSE {Head(line)}

Gets == \E p \in Received :
    \/ OpenSucceeds(p) \/ OpenRetries(p)
    \/ ReadBlock(p) \/ ReadSameBlock(p) \/ ReadRetries(p) \/ ReadCancelled(p) \/ ReadEof(p)
    \/ FinalHeader(p)

Receiver == \/ stream_open \/ stream_read \/ Gets \/ get_hdr_goes_on
            \/ Copy \/ CopyNegative \/ load_serial_ymodem

Sender == SenderStarts \/ SenderReads \/ SenderTimesOut \/ SenderStops

Next == Receiver \/ Sender \/ Noise

(* The processor runs and its timer expires.  The sender, once started, answers *)
Fairness == WF_vars(Receiver) /\ WF_vars(SenderReads)

Spec == Init /\ [][Next]_vars /\ Fairness

-----------------------------------------------------------------------------
(* Properties                                                               *)

(* What is put into place is the file from its beginning on, without a gap, a
   repetition or padding, however packets and answers are lost and repeated.  Only
   when a garbled packet was misread and a time-out has crossed an answer as well
   the sender may get so far ahead that its final header is taken for a block *)
InOrder ==
    \/ /\ \A i \in DOMAIN stored : stored[i] = i
       /\ Len(stored) <= FileLength
    \/ misread /\ slow < MaxSlow

(* When the receiver has seen the end of the file it has the file, unless the
   beginning of a garbled packet has passed for the end, or for a shorter block, or
   a time-out has crossed an answer and something has been garbled as well: then
   the sender may be a block ahead.  Nobody compares the length *)
EofMeansComplete ==
    at_eof /\ ~ misread /\ (slow = MaxSlow \/ noise = MaxNoise) => Len(stored) = FileLength

(* The command ends, however often it has to ask for a block; also if it does so
   by a copy of -1 bytes (CopyNegative) *)
Ends == pc = "open" ~> pc \in {"ended", "aborted", "undefined"}

(* It ends with the whole file when the sender starts in time and goes on, with
   the same exceptions *)
Completes ==
    (pc = "open" /\ snd = "start" /\ crc_retries > MaxNoise + MaxSlow) ~>
      \/ pc = "ended" /\ Len(stored) = FileLength
      \/ snd = "stopped" \/ pc = "aborted" \/ misread
      \/ slow < MaxSlow /\ noise < MaxNoise
=============================================================================
