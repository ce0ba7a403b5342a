# A TLA+ verification of U-Boot for the Buffalo/Atheros AR7240 boards

This directory models the parts of the boot loader in `src/u-boot` that have
state worth arguing about: the network boot (DHCP and TFTP clients, network main
loop, choice of the interface, receive ring of the Ethernet driver), the serial
download (YMODEM), the environment (RAM copy, single copy in flash, redundant
copies in flash) and the flash itself (commands, protection, page driver). The
models are checked with TLC on small instances; what matters most is proved with
TLAPS for every value of the constants. `PROJECT.json` lists runs, the source
lines behind every definition, findings, hazards and theorems.

The reference build is `ap93_config` (`include/configs/ap93.h`,
`include/configs/ar7240.h`): MIPS, two MACs under `CONFIG_NET_MULTI`, TFTP, DHCP
and ping, the environment in one 64 KB flash sector together with U-Boot itself,
no `CONFIG_ENV_OVERWRITE`. The redundant environment (`CFG_ENV_ADDR_REDUND`) is
built by other boards of the tree; it is the part of `env_flash.c` with the most
delicate logic and is modelled as well.

## 1. Inventory

U-Boot is one thread without interrupts. What runs beside it: the DMA engines of
the MACs, the network and the servers, the user, and the power supply. Inside the
thread, "concurrency" is call-backs: `NetLoop` polls; the driver's receive
function calls the packet handler of the running protocol, which may change the
interface, the handlers or the result under the feet of its callers.

| Part (source) | State | Operations | Talks to |
|---|---|---|---|
| TFTP client (`net/tftp.c`) | state, server port, own port, block, last block, wrap offset, time-out count | `TftpStart`, `TftpHandler`, `TftpTimeout`, `TftpSend`, `store_block` | called back by `NetLoop`; calls `NetStartAgain`, `NetSetTimeout`, `NetSendUDPPacket` |
| Main loop (`net/net.c`) | `NetState`, packet and time handler, timer, ARP wait slot, `NetRestarted`, `NetDevExists` | `NetLoop`, `NetStartAgain`, `ArpTimeoutCheck`, `NetReceive`, ping | `eth_*`, all protocols |
| Interface choice (`net/eth.c`) | `eth_current`, static `first_failed`, `NetRestartWrap` | `eth_init`, `eth_halt`, `eth_try_another`, `eth_set_current`, `eth_rx` | drivers, environment (`ethact`) |
| DHCP/BOOTP (`net/bootp.c`) | `dhcp_state`, `BootpTry`, `BootpID`, `NetOurIP`, `NetServerIP`, `NetDHCPServerIP` | `BootpRequest`, `BootpTimeout`, `DhcpHandler` | loop; starts TFTP or NFS |
| AR7240 MAC (`cpu/mips/ar7240/ag7240.c`) | descriptors, `next_rx`, DMA registers | `ag7240_recv`, `ag7240_send`, `ag7240_clean_rx`, `ag7240_halt` | DMA; `NetReceive` |
| Environment in RAM (`common/cmd_nvedit.c`, `common/env_common.c`) | data, CRC, values derived from it | `setenv`, `env_relocate` | everybody (`getenv`) |
| Environment in flash (`common/env_flash.c`) | one or two sectors: data, CRC, flag, rest of the sector, protection; `flash_addr`, `env_valid` | `saveenv`, `env_init`, `env_relocate_spec` | `common/flash.c` |
| Flash (`common/flash.c`, `common/cmd_flash.c`, `board/ar7240/common/ar7240_flash.c`) | protection per sector | protect, erase, write | SPI hardware |
| NFS (`net/nfs.c`) | RPC state, file handle | `NfsStart`, `NfsHandler`, `NfsTimeout` | loop |
| Command line (`common/main.c`, `common/command.c`) | boot delay, history, retry timer | `abortboot`, `run_command` | all commands |
| Console (`common/console.c`, `common/devices.c`) | `stdio_devices`, device list | `console_assign`, `console_init_r` | `setenv` |
| Boot of an image (`common/cmd_bootm.c`, `lib_mips/mips_linux.c`) | image header, load address | `do_bootm` | decompressors |
| Serial download (`common/xyzModem.c`, `common/cmd_load.c`) | packet buffer, sequence number, modes | X/Y/Zmodem, Kermit, S-records | serial line |
| Board start-up, timer (`lib_mips/board.c`, `lib_mips/time.c`) | `gd`, `bd` | `board_init_f`, `board_init_r` | all |
| Allocator, decompressors, file systems, other drivers, boards and CPUs | - | - | third-party, or not built for the board |

Hard behaviours and what correctness means for each part:

* **TFTP.** Packets are lost, delayed, doubled and reordered; both sides
  retransmit; packets of earlier starts linger. A download reported as successful
  must be the whole file in its place; a transfer must not hang.
* **Main loop.** One iteration runs packet handlers, ctrl-C, ARP check and time
  handler before it looks at `NetState`, and several of them may decide. State of
  earlier starts and earlier commands stays around (handlers, timer, ARP slot,
  `first_failed`). A command must end as `netretry` says, not earlier, not later.
* **Receive ring.** Driver and DMA share descriptors without a lock, and the
  driver calls handlers that may set the ring up again. Packets must be handed
  over once, in order, from a buffer the DMA does not own.
* **DHCP.** Several servers answer, some late, some to others; every try is a new
  transaction. The board must use only an address that was acknowledged to it, and
  load from the server that goes with it.
* **YMODEM.** Packets and answers are garbled or lost, time-outs cross answers, the
  sender stops. What is stored must be the file from its beginning, and the
  command must end.
* **Flash.** Ranges of addresses meet sectors, pages and protection; a command must
  change exactly what it names, or nothing.
* **Environment.** Power may fail inside any flash operation, and again during the
  repair. The next boot must find the environment that was saved.

## 2. Modules

| Module | Models | Composes / extends |
|---|---|---|
| `FileTransfer` | abstract: what a download promises | - |
| `SavedEnvironment` | abstract: what `saveenv` with a backup copy promises | - |
| `PacketQueue` | abstract: what a driver's receive function promises | - |
| `Tftp` | TFTP client in `NetLoop`, server, network | refines `FileTransfer` |
| `TftpProofs` | theorems about `Tftp` | `Tftp`, `TLAPS` |
| `NetLoop` | main loop, ARP slot, interface choice, use of the loop by TFTP, ping and DHCP, receivers of both MACs | - |
| `NetLoopProofs` | theorems about `NetLoop` | `NetLoop`, `TLAPS` |
| `Dhcp` | DHCP client in `NetLoop`, DHCP and BOOTP servers, network | - |
| `DhcpProofs` | theorems about `Dhcp` | `Dhcp`, `TLAPS` |
| `Ymodem` | `loady`: YMODEM receiver, sender, serial line | - |
| `YmodemProofs` | theorems about `Ymodem` | `Ymodem`, `TLAPS`; `Ymodem` refines `FileTransfer` |
| `Flash` | erase, protect, cp to flash, page driver | - |
| `FlashProofs` | theorems about `Flash` | `Flash`, `TLAPS` |
| `Ag7240Rx` | receive ring of one MAC and its DMA | refines `PacketQueue` |
| `Ag7240RxProofs` | theorems about `Ag7240Rx` | `Ag7240Rx`, `TLAPS` |
| `EnvRedund` | two copies in flash, power failures, repair | refines `SavedEnvironment` |
| `EnvRedundProofs` | theorems about `EnvRedund` | `EnvRedund`, `TLAPS` |
| `Environment` | RAM copy, `setenv`, single copy in a shared sector | - |
| `EnvironmentProofs` | theorems about `Environment` | `Environment`, `TLAPS` |
| `MCTftp`, `MCNetLoop`, `MCDhcp`, `MCYmodem`, `MCFlash`, `MCAg7240Rx`, `MCEnvRedund`, `MCEnvironment` | constants for the configurations | the module of the same name |

A definition named after another one with a suffix (`TftpTimeoutOnce`,
`eth_try_anotherEarly`, ...) is a mistake that a property catches; it is used by
nothing and stands before the definition it spoils.

### Tftp

State is `net/tftp.c`'s statics, `NetState`, the handlers, memory at `load_addr`
in blocks, the server's sessions and the set of packets on their way. `pc` keeps
the order of an iteration: `"rx"` (packets), `"drain"` (packets that are handed
over after `NetStartAgain` in the same call of `eth_rx`), `"switch"`. Actions:
`HandleOack`, `HandleBadFirst`, `HandleSameBlock`, `HandleBlock`, `HandleError`,
`HandleOther` (the branches of `TftpHandler`), `TftpTimeout`,
`startAgainTimeout`, `NoTimeout`, `Restart`, `EndOfIteration`. External: the
server (`OpenSession`, `NextBlock`, `ServerTimeout`, ...) and the network
(`Lose`, `Take` with `dup`).

Abstractions: sizes in blocks, only the last one short; a DATA packet carries the
index of its block in the file, its number on the wire is that index modulo
`SequenceSize`. UDP ports of two starts differ (the code draws them from the
timer, 1024 + t % 3072). A packet waiting for ARP that is never answered is a lost
packet. Which interface is used after `NetStartAgain` is left open here; whether
the operation goes on, pauses or fails is a free choice that `NetLoop` decides.
The packets drained after `NetStartAgain` are among those that were on their way
when it was called: re-initialising the interface takes longer than a packet.

### NetLoop

State is `net.c`'s and `eth.c`'s statics plus which MACs receive. `pc` walks one
iteration: `"start"` (label `restart`), `"rx"`, `"arp"`, `"time"`, `"switch"`.
One action per outcome of each part: `NetLoop` (entry), `NotConfigured`,
`NoEtherAddress`, `Start`; packets (`TftpBlock`, `TftpLastBlock`, `TftpError`,
`PingReply`, `DhcpOffer`, `DhcpAck`, `ArpReply`, `NullHandler`); `EndRecv`,
`CtrlC`; `ArpGivesUp`, `ArpAgain`, `ArpIdle`; `TftpTimeout`, `BootpTimeout`,
`PingTimeout`, `startAgainTimeout`, `TimeIdle`; `Continues`, `Restarts`,
`Succeeds`, `Fails`. `tried` and `started` record what the properties speak of.

Abstractions: time is in whole seconds with the code's own intervals (5 s TFTP and
ARP, 3 s DHCP selection, 10 s ping and pause) and passes only while the loop
waits; the second that `eth_init` itself may take is not counted. `ethact` is
eth0, because `NetLoop` writes it on every call (`CONFIG_AG7240_SPEPHY` is inside a
comment of `ap93.h`). At least one interface exists.

### Ag7240Rx

Packets are numbered as they arrive; a descriptor holds a number, or 0 if the DMA
owns it. The driver is `clean_rx`, `clean_rx_no_link`, `halt`, `recv`,
`NetReceive` (the handler runs), `HandlerReturns` (descriptor given back,
`next_rx` advanced), `recv_ends`. In between, the handler may halt the MAC
(`HandlerHalts`) or have the ring set up again (`NetStartAgain`). `Arrives` is the
DMA (external): it stores into the next descriptor and stops on one that it does
not own. `Init` is the ring as `ag7240_setup_fifos` leaves it: descriptors zeroed
by the cleared malloc arena, which read as packets of length 0. `restarted` is true
from the return of a handler that has set the ring up under a running
`ag7240_recv` until the next command sets it up again: in between driver and DMA
may be one descriptor apart, and the properties except `HandedOnce` make no claim.

`PacketQueue` is what the ring amounts to for `NetReceive`: a set of numbered packets of
which the oldest is handed over, and at most as many as there are buffers. The mapping
takes the packets in descriptors for it (`Waiting`), the one a handler reads included,
since it keeps its buffer; it shows nothing while `restarted`.

### Dhcp

State is `dhcp_state`, `BootpTry`, `BootpID`, the three addresses, which handler is
installed, the requests and replies on their way, and what the servers have leased
(`lease`) or given to others (`taken`). Client: `StartDhcp` (label `restart` of
`NetLoop`), `BootpTimeout` with `BootpRequest` or `NetStartAgain`, and `DhcpHandler`
with its branches `HandleOffer`, `HandleAck`, `HandleOther`. A reply reaches the
handler if `NetReceive` accepts its destination (`AcceptsIP`) and `BootpCheckPkt` its
transaction (`Accepts`). External: servers that offer, acknowledge and refuse, BOOTP
servers that take every request for a BOOTREQUEST, another board that is given an
address, and the network.

Abstractions: identifiers count the transactions (the code draws them from the
timer and the Ethernet address); of the options only message type and server
identifier count; a request is on its way once per server it is for, which is every
DHCP server as long as none has been named (`Addressed`). What follows
the acknowledgement (`TftpStart`, or the end of the command) is `handler = "other"`,
and `Again` a new start from there.

### Ymodem

State is the structure `xyz`, the locals of `xyzModem_stream_open` and
`xyzModem_stream_read` that survive a wait, what the command has stored, the packets
and answers on the line, and the sender. `get_hdr` is `xyzModem_get_hdr` returning
with a result, `get_hdr_goes_on` its waits and `xyzModem_flush`. Actions:
`stream_open`, `OpenSucceeds`, `OpenRetries`; `stream_read`, `ReadBlock`,
`ReadSameBlock`, `ReadRetries`, `ReadCancelled`, `ReadEof`, `FinalHeader`, `Copy`,
`CopyNegative`; `load_serial_ymodem`. The acknowledgement of a block waits for the
next read (`tx_ack`), as in the code; a request for repetition is `'C'` or NAK.

`Noise` garbles or loses characters of a block; what `xyzModem_get_hdr` then finds at
its beginning is a block with a wrong checksum, with a wrong number or with too few
characters, or an EOT, three CANs or a shorter block (`Early`). Behind the latter
characters are left over for the next call (`Rest`), as they are behind a CRC of which
only one character is read. `misread` records that one of these was read.

Abstractions: a packet is one element of the line. Noise inserts no characters, and a
garbled block never passes its checksum. A garbled EOT counts as lost, and so does one
that comes right behind ignored characters; what is left of a packet is at most one
EOT or block, and nothing is read behind CANs. A file is counted in units longer than the three characters
that the receiver looks for when it removes padding; `xyzModem_stream_terminate`,
which sends a cancellation and reads what is left, comes after the end. The sender
follows the protocol: block 0, then blocks on `'C'` and ACK, EOT, final header; its
time-outs are longer than the receiver's.

### Flash

State is the content of every cell and `protect[]`. A cell holds `"data"` if it
holds the byte that a write had for this cell, programmed once on erased flash,
and `"spoilt"` if it was programmed otherwise. Commands: `do_flerase`, `do_protect`
with the sectors their arguments name (`Selected`: all, sectors, addresses, length),
`do_mem_cp` for every write through `flash_write`. `Place` is where the chip puts
byte i of a buffer: pieces as `write_buff` cuts them, addresses that wrap inside a
page. The operators are functions of the state, so that the properties speak of every
command with every argument in every state, not only of the commands of `Next`.
The other boards' second banks are left out.

### EnvRedund

Two sectors with data, CRC, flag byte, the rest of the sector and protection. The
CRC field is the environment it was computed over. `pc` walks `env_init`,
`env_relocate`, the two repairs, and `saveenv` write by write. Each flash
operation may succeed, report failure with a partial effect (if listed in
`Failing`), or be cut off by a power failure inside it; power may also fail
between any two steps. Programming only clears bits, so a flag byte may be left
half-way; which bytes do occur is the constant `TornFlags`. `committed` and
`attempts` are what a user can expect to find: the environment last booted or
saved, and those that `saveenv` has begun to write since.

`SavedEnvironment` is the promise: one environment `store` that the next boot loads,
replaced in one step by a running `saveenv` (`Replace`). The mapping takes for it what
a boot would load from the flash as it is (`Booted(flash)`), and `committed` for the
one last saved. The step that replaces it is not always the same one: normally the
write of the new copy's CRC, since an erased flag beats an active one; when both flags
are erased it can be the next one, that of `OBSOLETE_FLAG` in the old copy. `Phase` says
where `saveenv` is.

Assumptions: an interrupted erase spoils the data; torn data never match their
CRC; the CRC of the RAM copy is right (that is `Environment`'s subject);
`flash_init` protects the sectors at boot.

### Environment

Data are functions from variables to values; the CRC is the data it was computed
over; entries have sizes, so that overflow happens. `setenv` is one action with
all of its branches: refusal, deletion, overflow after deletion, CRC update,
values in use (`bi_enetaddr`, `bi_ip_addr`, `load_addr`, `BootFile`, the address of
the Ethernet device, baud rate, console). `saveenv` is step by step, with failing operations and power failures.
`console_init_r` enters stdin, stdout and stderr at every boot. Three variables are
history for the properties: `stored` and `overflowed` say what the next boot should
load, `late` which variables were not defined when `setenv` was called for them. Left out: deleting
`baudrate` (the code then reads a null pointer), and `ethact`, which the network
code keeps.

## 3. Runs

Passing runs:

| Run | Instance | Shows |
|---|---|---|
| `tftp_safety` | 2 blocks, 2 starts, 2 sessions, packets delayed and reordered without bound, no losses | `TypeOK`, `ImageComplete`, `InOrder`, refinement of `FileTransfer` |
| `tftp_completes` | 3 blocks, 3 starts, 6 sessions, 2 faults (lost or doubled packet, error, server crash), fair | `TransferCompletes` |
| `net_once` | 3 interfaces, one without an address, TFTP, `netretry=once`, links may fail, bursts of 2 | `FailsOnlyAfterAll`, `StartedOnce` |
| `net_terminates` | 2 interfaces, eth0 without an address, all protocols, all values of `netretry` | `Terminates`, `PauseEnds`, `OnlyCurrentReceives` |
| `net_commands` | two commands on 2 interfaces, all protocols, all values of `netretry`, server errors | `ArpOfThisCommand`, `TypeOK` |
| `dhcp_bind` | 2 DHCP servers, 1 BOOTP server, 4 addresses, 6 transactions, 2 faults, fair | `BoundToLease`, `BootFromBinder`, `OffersOnly`, `Binds`, `TypeOK` |
| `ymodem` | 3 blocks, numbers modulo 3, 2 garbled or lost packets or answers, 1 crossed answer, 6 tries, fair | `InOrder`, `EofMeansComplete`, `Ends`, `Completes`, `TypeOK` |
| `flash_exact` | 3 sectors of 3 cells, one page each, 13 addresses | `WriteExact`, `RangeExact` |
| `rx_ring` | 4 descriptors, 8 packets beside the 4 zeroed ones, handlers that set the ring up again | `NothingStuck`, `HandlerOwnsBuffer`, `HandedInOrder`, `HandedOnce`, `TypeOK`, refinement of `PacketQueue` |
| `env_power_failure` | 3 environments, rest of the sector to be carried over | `BootLoadsLastSave`, `SaveIsComplete`, `ProtectedAtPrompt`, `TypeOK`, refinement of `SavedEnvironment` |
| `env_save` | 4 variables, 2 values with entries of 2 and 3 bytes, room for 6 | `SavedIsLoaded`, `InUse`, `RestKept`, `TypeOK` |

One run must be found violated; it is a finding in `PROJECT.json` and quotes the
text of the repository it contradicts: in `tftp_wrap_duplicate` a repeated block 0
moves the wrap offset, and all later blocks are misplaced.

**Where the properties cease to hold.** The passing runs leave out the cases in
which the code does not keep the property. Unless the table says otherwise each has
a constant, so that the case is in the model and TLC shows it when the constant is
changed:

| Constant or condition | What happens, and where |
|---|---|
| `TornFlags` with an odd value below 255 (`EnvRedund`) | a half-programmed `ACTIVE_FLAG` is no value `env_init` compares with; the default environment comes up (`common/env_flash.c:120`). Even values stand for a byte whose bit 0 is already programmed |
| `"restore"` in `Failing` (`EnvRedund`) | `saveenv` reports success with the addresses unexchanged, the next one erases the only good copy (`common/env_flash.c:226`) |
| `"mark"` in `Failing` (`EnvRedund`) | the failed repair goes unnoticed, a later boot takes the older copy (`common/env_flash.c:377`) |
| `EqualsInName` (`Environment`) | `setenv` with `=` in the name finds the variable before it but is tested as a whole name: it replaces `ethaddr` and `serial#`, against the comment "Ethernet Address and serial# can be set only once" (`common/cmd_nvedit.c:187`), and copies nothing, against `InUse`. For plain names the comment is one guard of the code, and no property states it |
| variable `overflowed` (`Environment`) | a longer value that does not fit has deleted the old one, and `setenv` returns without a new CRC; a `saveenv` that follows directly stores both and the next boot rejects the environment (`common/cmd_nvedit.c:308`). `SavedIsLoaded` holds again from the next change on |
| variable `late`, in `InUse` (`Environment`) | a baud rate or console device that was not defined before is only entered into the environment and applied at the next boot: the branches are inside the one for an existing definition (`common/cmd_nvedit.c:183-240`) |
| `enetaddr` = `NoValue`, in `InUse` (`Environment`) | after every boot the first Ethernet device has the address of its EEPROM, which `CONFIG_AR7240` does not replace by `ethaddr` (`net/eth.c:267-288`); `setenv ethaddr` without a value clears the device's address, and one that does not fit into the environment still sets it, for a variable that is then not defined (`common/cmd_nvedit.c:280`) |
| variable `fault`, in `RestKept` (`Environment`) | an erase that fails half-way has lost U-Boot's part of the sector; a second `saveenv` copies the spoilt sector and writes it back (`common/env_flash.c:334`) |
| none (`EnvRedund`, `Environment`) | protecting the sectors again, whose result the code ignores, always succeeds in the model; `ProtectedAtPrompt` is about every other failure (`common/env_flash.c:251-252`) |
| `ServerErrors` (`NetLoop`) | the constant stands for ERROR packets and for a first block that is not block 1 (`net/tftp.c:251-257`), since both call `NetStartAgain` from the packet handler: two of them in one iteration call it twice and skip an interface, against `FailsOnlyAfterAll` (`net/net.c:643`); one and a time-out in one iteration, again and again, break `Terminates`; and `ag7240_recv` switches the receiver of the MAC its handler has halted on again, against `OnlyCurrentReceives` (`cpu/mips/ar7240/ag7240.c:103`) |
| `MaxCommands` = 3, links that fail (`NetLoop`) | `first_failed` of an earlier command ends a command too early, against `FailsOnlyAfterAll` (`net/eth.c:418`) |
| `MaxCommands` = 2, ping, eth0 without an address (`NetLoop`) | the previous command's `PingTimeout` ends a TFTP command, against `FailsOnlyAfterAll` (`net/net.c:437`) |
| two interfaces without an address, four in all (`NetLoop`) | a client that has given up stays installed when the next interface cannot be started; a late packet sets its timer, it gives up once more, and an interface that has not been tried is passed over, against `FailsOnlyAfterAll`; its count exceeds the limit (`net/net.c:643`) |
| DHCP on two configured interfaces (`NetLoop`) | the ARP slot of the first start overwrites `NETLOOP_FAIL`, against `StartedOnce` and `Terminates` (`net/net.c:258`) |
| the condition `restarted` (`Ag7240Rx`) | after a restart from a handler, driver and DMA are one descriptor apart, against `NothingStuck` (`cpu/mips/ar7240/ag7240.c:97`) |
| none (`Ag7240Rx`) | the test of the descriptor and the read of the control register at the end of `ag7240_recv` are one step (`recv_ends`): a whole ring that fills within these few instructions is not represented (`cpu/mips/ar7240/ag7240.c:87-101`) |
| none: `NoWildWrite` (`Ag7240Rx`) | before the first link the DMA is started on descriptors without buffers (`cpu/mips/ar7240/ag7240.c:257`) |
| `OtherIds` with one of our transactions (`Dhcp`) | the client takes the acknowledgement to another board that has drawn the same identifier, since `bp_chaddr` is not compared, against `BoundToLease` (`net/bootp.c:86-113`) |
| `Broadcasts` with a DHCP server outside `Siaddr` (`Dhcp`) | an offer that named a server to boot from is followed, in a later try, by one that names none; `NetServerIP` is still the first one's, against `BootFromBinder` (`net/bootp.c:124`) |
| more than (`MAX_RETRIES` - 2) / 2 faults (`Ymodem`) | a fault can cost two tries; when the last try for a block reads the block before once more, `stat` is 0 and that block is stored again, against `InOrder`; the comment says "Need new header" (`common/xyzModem.c:589-592`) |
| `MaxSlow` = 1, `MaxNoise` = 1, `NBlocks` + 1 a multiple of the modulus (`Ymodem`) | the final header, block 0, is taken for a data block, against `InOrder` (`common/xyzModem.c:555`) |
| the condition in `EofMeansComplete`, `Completes` (`Ymodem`) | after a crossed answer (`MaxSlow` = 2: two of them) every packet is exchanged twice and the sender is a block ahead when one is garbled; EOT ends the file, and the length is not compared (`common/xyzModem.c:600`) |
| variable `misread`, in `EofMeansComplete`, `Completes`, `InOrder` (`Ymodem`) | the comment "EOT only supported if no noise" (`common/xyzModem.c:363`) stands over a test that looks only whether EOT is the first character: block 4 (mod 256) without its SOH begins with EOT, is acknowledged as the end, and a short file is reported. Three CANs in a row among the characters of a garbled block cancel the transfer (`:353`), and what is left behind a block that looked shorter is searched for headers by the next call. Together with a crossed answer the sender can get so far ahead that its final header is taken for a data block, if the receiver waits for number 0, against `InOrder` |
| `LengthSent` = {FALSE}, `EofUnits` at the end of a block (`Ymodem`) | data that look like padding are removed inside the file, against `InOrder` (`common/xyzModem.c:564`) |
| a sender that starts after `MAX_RETRIES_WITH_CRC` time-outs (condition in `Completes`) | the receiver has changed to checksums when the answer to its last `'C'` arrives; every block fails (`common/xyzModem.c:525`) |
| state `"undefined"` (`Ymodem`) | an error after a part of the buffer was filled leaves `xyz.len` at -1; the caller reads on and copies -1 bytes (`common/xyzModem.c:620`). The command never reports an error of a read: a file cut off is reported with its "Total Size" |
| the condition `PiecesFit` (`Flash`) | all pieces of a write have the length of the first one, computed from `addr` and not from `dst`; a longer write to an address inside a page wraps in its pages, against `WriteExact` (`board/ar7240/common/ar7240_flash.c:211`) |
| flash at the end of `AddrSpace` (`Flash`) | the end of the last sector wraps to 0, its protection is ignored, against `WriteExact` and the comment "no protected sectors are hit" (`common/flash.c:158`, `:127`) |
| counts beyond the end of `AddrSpace`, outside the quantifier of `WriteExact` (`Flash`) | the end of a write wraps into the flash, protected sectors behind `addr` are not asked for (`common/flash.c:144`) |
| `SectorSize` = 1 (`Flash`) | a range of one sector is refused, since the first address must be below the last, against `RangeExact`; no chip has such sectors (`common/cmd_flash.c:394`) |
| the end of a range in `RangeExact` (`Flash`) | the property takes it as the last address, as the usage text "from addr 'start' to addr 'end'" (`common/cmd_flash.c:697`) and the code do; the comment of `addr_spec` says "operate on <'start',  'end')" (`common/cmd_flash.c:112`), half-open. By the comment the property is false for every accepted range that ends within the flash: the code refuses such an end unless it is the last address of a sector |
| none (`Flash`) | `erase` does not look at `protect[]`, and a write on flash that is not erased reports success: `ERR_NOT_ERASED` is never returned by this driver |

**Bounds.** Two blocks are a first and a last one, three add one in the middle;
two starts and two sessions are the least with stale packets. Losses and duplicates
multiply the states of `tftp_safety` beyond reach, so that run has the adverse
order of packets and `tftp_completes` the faults; the theorems cover both for all
sizes. Three interfaces are the least with one between first and last. Time-out
counts are the code's own in `net_once` and `net_terminates`; in `net_commands`
TFTP gives up after one time-out and DHCP after two, which only shortens the way
there. Four descriptors let the ring wrap, fill and be
restarted at any place. Two DHCP servers of which one names a server to boot from,
and one BOOTP server, are the least in which offers differ in everything the
handler copies; six transactions are three starts of two tries. Three YMODEM blocks
with numbers modulo 3 wrap once, the last one is padded, and the buffer of two
blocks is filled once and then in part; six tries are fewer than the code's and the
least with two for each fault and two more. Three sectors have a first, an inner and a last one, a page of
three cells is the least in which pieces can fail to fit, and there are addresses
below and above the flash. Three environments are the default one, the one saved
and the one being saved; copies that fill their sectors (`UpData` FALSE) take fewer
steps and are covered by the theorems. Every bound is a constant named in its module.

**Deadlock** is checked in `EnvRedund`, `Ag7240Rx` and `Flash`, where something can
always happen. `Tftp`, `NetLoop` and `Dhcp` are bounded in starts and commands,
`Ymodem` is one command, `Environment` ends
when the shared sector is lost: a board that does not come up again.

**Fairness.** `NetLoop`: `WF(Loop)`, the processor runs; `SF(Tick)`, the clock
advances although the loop keeps polling between two ticks. Nothing is assumed of
packets and of the user. `Tftp`: the client polls and its timer expires
(`SF`, because the timer waits, under `Prompt`, for an idle network), the server
does the same; packets may be lost only `MaxFaults` times, because a network that
loses everything lets no protocol finish. `Prompt` says that packets arrive or are
lost within the 5 s of a time-out and that the server's timer is not slower than
the client's. `Dhcp`: the client polls and its timer expires, servers answer (`WF`);
an address stays free at every server, and faults are bounded as above. `Ymodem`:
the receiver runs and its timer expires, a sender that was started answers (`WF`);
nothing is assumed of the user who starts and stops it.

## 4. Proofs

**TftpProofs** (for every number of blocks below the wrap of the block counter, of
starts, sessions and faults): `TypeCorrect`, `AlwaysInOrder`,
`DownloadComplete`, `TftpImplementsFileTransfer`. `ImageComplete` is not inductive:
`TftpHandler` takes any block that is not the one before, so a download is
complete only because of what can be on its way. `InOrder` says it: while a
transfer runs, block b is on its way to the client's port only if the blocks
before b are stored, an acknowledgement is on its way only for stored blocks, and
no packet carries a port that has not been used yet. After `NetStartAgain` the
claim is given up except for the packets being drained, since an acknowledgement
of a refused block may be sent, and the next start's new port restores it. The
refinement maps `image` to the set of blocks that are in place. Above the wrap the
statements are false (`tftp_wrap_duplicate`).

**EnvRedundProofs** (for every set of environments, torn flags and failing steps
within `Sound`): `TypeCorrect` without condition, `AlwaysCrashSafe`,
`BackupSurvives`, `SavedForGood`, `SaveIsAtomic`; `AlwaysProtected` without `Sound`,
the protecting itself excepted. `Sound` is what section 3 shows to be necessary: the write-back and the repair of the other copy do not fail, and
`ACTIVE_FLAG` is programmed in one piece. The invariant `CrashSafe` says that the
flags of two readable copies tell which one counts (`Settled`), that what the next
boot would load is what the user can expect (`NextBootGood`), and for each step of
`saveenv` and of the repair how far the flags have got (`SaveProgress`,
`BootProgress`, `OwnCommitted`). For `ProtectedAtPrompt` the invariant
(`ProtectedSinceBoot`) says which sectors are unprotected at which step.
`SaveIsAtomic` is the refinement of `SavedEnvironment`. It follows from `CrashSafe` step
by step: no step before the replacing one changes what a boot would load except
erasing what a failed `saveenv` has left (`PrepareShown`, the abstract `Discard`), a
torn replacing step shows the old environment or the new one (`ReplaceShown`), the
steps after it and the repairs change nothing (`ReplacedShown`, `BootShown`).

**Ag7240RxProofs** (for every ring size and number of packets): `TypeCorrect` and
`NoDuplicate` without condition; `AlwaysRingInOrder`, `NeverStuck`,
`BufferIsStable`, `ArrivalOrder` outside the time after a handler has set the ring
up and before the next command does (`restarted`; section 3 says why), whatever
happened before. `RingInOrder` says that from `next_rx`
on the packets lie behind each other, the oldest first, and the DMA goes on right
behind the last one, also when the ring is full. `RingIsQueue` is the refinement of
`PacketQueue`, which follows from it: the DMA meets a descriptor that it does not own
only when all are in use (`RoomIs` counts the packets), and a driver that finds nothing
at `next_rx` has handed over everything. `NoDuplicate` needs another
invariant, `SeenIsGone`: a packet that was handed over leaves the ring with its
handler's return.

**DhcpProofs** (for every set of servers and addresses, transactions and faults):
`TypeCorrect` without condition; `AlwaysOffersOnly` and `AlwaysBoundToLease` under
`Separate` (no other board uses our transactions, no address belongs to two
servers), `AlwaysBootFromBinder` under `Separate` and `Unmixed`; section 3 says why.
`BoundToLease` is not inductive: the handler tests neither the type of an offer nor
the sender of an acknowledgement, so it follows from what can be on its way. The
invariant `Transactions` says that everything on its way to this board belongs to a
transaction that has begun, that while the client is SELECTING no request of the
current one exists, hence no acknowledgement or refusal either, that messages are
true of their servers, and that leases are disjoint from what others got.
`FilterHolds` ties `NetServerIP` to `NetOurIP`: it differs from the environment's only
while the address is one of a server that may set it, so that `NetReceive` drops the
rest.

**NetLoopProofs** (for every number of interfaces, whichever links fail, and every
value of the counts): `TypeCorrect` and `OwnArpOnly` without condition, `OneReceiver`
unless a packet handler starts again (ERROR packets, first blocks that are not block
1), for any number of commands of all protocols;
`WholeRound` and `NeverTwice` under `OneCommand`, which is what section 3 shows to be
necessary: one TFTP command, no such packets, at most one interface without an
address, and an ARP limit of 4 or more (5 in the code). `FailsOnlyAfterAll` relates
the end of a command to all of its starts, so the invariant `RoundInv` says where in
the round it is: the interfaces passed since `first_failed` have been tried or have
no address, those started on are among them (`Position`); and `NetStartAgain` is
not called twice in an iteration, because the ARP timer runs in step with the
client's and a client that has given up is not called again (`Timers`). Type
correctness needs more than the types: the ARP count stays below its limit because
of the order of the tests in `ArpTimeoutCheck`, and the client's count has a limit
only if all interfaces have an address.

**EnvironmentProofs** (for every set of variables, values and sizes of entries, whether
they fit or not): `TypeCorrect`, `AlwaysRestKept` and `SavedLoaded` without condition;
`AlwaysInUse` if no name has a `=` in it (section 3 says why). The invariants say what
the buffer of `saveenv` holds until it is written (`RestBuffered`); that the values in
use follow the data in every state of a running system and not only at the prompt, and
which of the console devices the boot has still to enter (`InUseRunning`, `Awaited`);
and that the CRC is that of the data, in RAM unless an overflow has just deleted an
entry, in the buffer and in flash as long as `stored` is not given up (`CrcInv`).

**FlashProofs** (for every geometry of the flash, in every state): `AlwaysRangeExact`
and `AlwaysWriteExact`. `Below` is the assumption that the flash ends below the end of
the address space, as the board's at 0xbf000000 does; `RangeExact` needs sectors of
more than one cell. The properties quantify over all arguments, so most of the proof
is arithmetic: which sector an address is in (`SectorOf`), which cells a run of
sectors has (`CellsOfRun`), which sectors `flash_fill_sect_ranges` finds (`FillRun`,
`LengthRun`), and that byte i of a buffer lands at `addr` + i if the pieces fit
(`PlaceExact`).

**YmodemProofs** (for every length of file, block and buffer, and every modulus of the
block numbers from 3 on): `UntilCrossed`, as long as no time-out has crossed an answer
and no garbled packet has been misread, and `TypeCorrect`, `AlwaysInOrder`,
`EofComplete`, until one is misread, for a line on which answers are not crossed. `EnoughTries` is what section 3 shows to be necessary: `MAX_RETRIES` of at
least 2 more than twice the faults (9 faults in the code), and a file whose length is
sent or of which no block ends with what looks like padding; the constants of the run
`ymodem` satisfy it. `InOrder` says nothing about the sender; that a block with the
right number is the right block follows from where the sender can be. `RingLoad` says
that at most one packet or answer is on its way, that the sender is at the block
received last or at the next one, and that an ACK is on its way only when it is at
the former; the two have different numbers (`Numbers`). `Tries` keeps the block before
from being read by the last try: the tries left are twice the faults left plus those
that the packet or answer on its way still needs (`Need`). `DataLengthRight` shows that
only padding is cut off. `LoadyImplementsFileTransfer` is the refinement of
`FileTransfer` on the condition of `UntilCrossed`: `image` is the set of blocks that are in place to
their last unit, `size` their number, and the download is done when `at_eof` is set; a
`Copy` completes a block or ends within it (`CopyDelivers`). The instance is in the
proof module and no run has it as a property; the constants of `ymodem` with `MaxSlow` 0
satisfy it.

The assumptions of the constants are `TftpAssumption`, `EnvRedundAssumption`,
`DhcpAssumption`, `Ag7240RxAssumption`, `NetLoopAssumption`, `EnvironmentAssumption`,
`FlashAssumption` and `YmodemAssumption`; TLC evaluates them in the runs. Every
inductive invariant was checked with TLC before it was proved, on instances that
satisfy the theorem's condition.

Only model-checked: all liveness (`TransferCompletes`, `Terminates`, `PauseEnds`,
`Binds`, `Ends`, `Completes`: fairness is out of the prover's reach). Every other
property of the runs is stated by a theorem, some under conditions that the runs do
not need: `InOrder` and `EofMeansComplete` of `Ymodem` with a crossed answer,
`OnlyCurrentReceives` with ERROR packets (false, section 3), `FailsOnlyAfterAll` and
`StartedOnce` for DHCP and ping (false, section 3).

## 5. Not modelled

The transmit ring (one packet at a time, waited for), PHY and register set-up, the
SPI command sequences, NFS, image booting, Kermit and S-record downloads, the
command line and the console beyond `console_init_r`, third-party code, and
everything the board does not build: most of the tree is drivers, boards and
processors other than this one's. `PROJECT.json` gives the reason for each. Known
hazards without a property: the missing bound in `store_block`; and, in the models but
with a property that would only be refuted, the copy of -1 bytes in `Ymodem` and names
with `=` in `Environment`.

## 6. Plan

In the order of importance:

1. `Environment` as a `SavedEnvironment` whose store may also be lost, between erasing
   and writing; `EnvRedund`'s `Succeeds` and `Fails` from `Flash`.
2. `Nfs` (`net/nfs.c`) as a further refinement of `FileTransfer`, Kermit
   (`common/cmd_load.c`), and `AutoBoot` (`common/main.c`).
3. The transmit ring, and `Ag7240Rx` composed with `NetLoop` for both MACs.
4. `InOrder` of `Ymodem` with one crossed answer and no garbled packet, where every
   packet is exchanged twice.

## 7. Running it

    tlc -workers 2 -config MCTftp.cfg MCTftp      # likewise for every cfg
    tlapm TftpProofs.tla                          # likewise for the other proofs
