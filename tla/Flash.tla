-------------------------------- MODULE Flash --------------------------------
(***************************************************************************)
(* The flash: the commands erase and protect (common/cmd_flash.c), writes  *)
(* by cp and loady through flash_write (common/flash.c), and the driver of *)
(* the serial chip (board/ar7240/common/ar7240_flash.c).  The board has    *)
(* one bank of uniform sectors (flash_get_geom).                           *)
(*                                                                         *)
(* A cell is the address of one byte.  Its content is what it should hold  *)
(* after the last command that named it, or not: "data" is the byte that   *)
(* some write had for this cell, programmed once and on erased flash.      *)
(***************************************************************************)
EXTENDS Integers, FiniteSets

CONSTANTS
    CFG_FLASH_BASE, SectorSize, SectorCount,
    PageSize,           \* AR7240_SPI_PAGE_SIZE, 256 in the code
    AddrSpace,          \* 2^32 in the code: ulong
    Counts              \* bytes that the commands of a behaviour write at once

ASSUME FlashAssumption ==
    /\ CFG_FLASH_BASE \in Nat
    /\ SectorCount \in Nat \ {0}
    /\ PageSize \in Nat \ {0}
    /\ SectorSize \in Nat \ {0} /\ SectorSize % PageSize = 0
    /\ AddrSpace \in Nat /\ CFG_FLASH_BASE + SectorCount * SectorSize <= AddrSpace
    /\ Counts \subseteq 1 .. AddrSpace - 1

VARIABLES
    content,            \* per cell
    protect             \* per sector: info->protect[]

vars == <<content, protect>>

Addresses == 0 .. AddrSpace - 1
Sectors   == 0 .. SectorCount - 1
start(s)  == CFG_FLASH_BASE + s * SectorSize
sect_end(s) == start(s) + SectorSize - 1
b_end     == sect_end(SectorCount - 1)
Cells     == CFG_FLASH_BASE .. b_end
CellsOf(S) == UNION {start(s) .. sect_end(s) : s \in S}

-----------------------------------------------------------------------------
(* Which sectors a command names; none if it is refused                     *)

(* A range with an end that is not on a boundary, cut off at the last boundary *)
sect_ranges_cut(first, last) ==
    {s \in Sectors : first <= last /\ \E f \in 0 .. s :
       first = start(f) /\ sect_end(s) <= last}

(* The sectors of first .. last, which begins and ends on a boundary or goes
   beyond the end of the bank *)
flash_fill_sect_ranges(first, last) ==
    {s \in Sectors : first <= last /\ \E f \in 0 .. s, l \in s .. SectorCount - 1 :
       /\ first = start(f)
       /\ last = sect_end(l) \/ (last > b_end /\ l = SectorCount - 1)}

(* start +length: the end is moved to that of its sector; none if it is in no
   sector *)
LastOfLength(first, length) ==
    LET last == (first + length - 1) % AddrSpace
    IN  {sect_end(s) : s \in {t \in Sectors : start(t) <= last /\ last <= sect_end(t)}}

(* The command's arguments: "all" or the bank, its sectors f to l, the addresses
   first to last, or a length from first on *)
Specs == [form : {"all"}] \cup [form : {"sectors"}, f : 0 .. SectorCount, l : 0 .. SectorCount]
           \cup [form : {"range", "length"}, first : Addresses, arg : Addresses]

(* abbrev_spec, addr_spec and the tests that follow them.  The end of a range is
   its last address *)
Selected(spec) ==
    CASE spec.form = "all" -> Sectors
      [] spec.form = "sectors" -> {s \in Sectors : spec.f <= s /\ s <= spec.l /\ spec.l \in Sectors}
      [] OTHER ->
           LET ends == IF spec.form = "range" THEN {spec.arg} ELSE LastOfLength(spec.first, spec.arg)
           IN  UNION {flash_fill_sect_ranges(spec.first, last) : last \in {e \in ends : spec.first < e}}

Selections == {Selected(spec) : spec \in Specs}

-----------------------------------------------------------------------------
(* What is written                                                          *)

addr2info(a) == CFG_FLASH_BASE <= a /\ a <= b_end

(* The cells that byte i of a buffer for addr goes to.  Every piece has the
   length of the first one, and the chip goes on at the beginning of a page when
   it has reached its end *)
Place(addr, i) ==
    LET offset == addr - CFG_FLASH_BASE
        piece  == PageSize - (offset % PageSize)
        dst    == offset + (i \div piece) * piece
        page   == dst \div PageSize
    IN  CFG_FLASH_BASE + (page * PageSize) + ((dst + (i % piece)) % PageSize)

(* write_buff: cells that get one byte, their own, are as they should be if they
   were erased.  Programming clears bits only *)
write_buff(addr, len) ==
    [x \in Cells |->
      LET bytes == {i \in 0 .. len - 1 : Place(addr, i) = x}
      IN  IF bytes = {} THEN content[x]
          ELSE IF content[x] = "erased" /\ bytes = {x - addr} THEN "data" ELSE "spoilt"]

(* The last byte does not count *)
HitsProtectedButLast(addr, end) ==
    \E s \in Sectors : end > start(s) /\ addr < (start(s) + SectorSize) % AddrSpace /\ protect[s]

(* The protection of every sector between the addresses is asked for *)
HitsProtected(addr, end) ==
    \E s \in Sectors : end >= start(s) /\ addr < (start(s) + SectorSize) % AddrSpace /\ protect[s]

(* flash_write: what it returns, and the flash afterwards *)
flash_write(addr, cnt) ==
    LET end == (addr + cnt - 1) % AddrSpace
        left == b_end + 1 - addr
        Returns(err) == [rc |-> err, flash |-> content]
    IN  IF cnt = 0 THEN Returns("ERR_OK")
        ELSE IF ~ addr2info(addr) \/ ~ addr2info(end) THEN Returns("ERR_INVAL")
        ELSE IF HitsProtected(addr, end) THEN Returns("ERR_PROTECTED")
        ELSE [rc |-> "ERR_OK", flash |-> write_buff(addr, IF left > cnt THEN cnt ELSE left)]

-----------------------------------------------------------------------------
(* The commands                                                             *)

(* The flash after sectors S were erased.  The driver does not look at protect[] *)
flash_erase(S) == [x \in Cells |-> IF x \in CellsOf(S) THEN "erased" ELSE content[x]]

do_flerase(S) ==
    /\ content' = flash_erase(S)
    /\ UNCHANGED protect

do_protect(p, S) ==
    /\ protect' = [s \in Sectors |-> IF s \in S THEN p ELSE protect[s]]
    /\ UNCHANGED content

(* cp or a block of loady, to an address in flash *)
do_mem_cp(dest, cnt) ==
    /\ addr2info(dest)
    /\ content' = flash_write(dest, cnt).flash
    /\ UNCHANGED protect

(* flash_init has cleared protect[]; what the flash contains was written before *)
Init ==
    /\ content = [x \in Cells |-> "data"]
    /\ protect = [s \in Sectors |-> FALSE]

Next ==
    \/ \E S \in Selections : do_flerase(S) \/ \E p \in BOOLEAN : do_protect(p, S)
    \/ \E dest \in Addresses, cnt \in Counts : do_mem_cp(dest, cnt)

Spec == Init /\ [][Next]_vars

-----------------------------------------------------------------------------
(* Properties: of every command in every state that commands lead to        *)

Between(first, last) == {x \in Cells : first <= x /\ x <= last}

(* The pieces of a write do not cross the end of a page: the second begins on a
   page, later ones do if the first one's length divides a page's *)
PiecesFit(addr, cnt) ==
    LET piece == PageSize - ((addr - CFG_FLASH_BASE) % PageSize)
    IN  PageSize % piece = 0 \/ cnt <= 2 * piece

(* A write that reports success has put every byte into its place, if that was
   erased, changed no other cell and none of a protected sector; one that reports
   an error has changed nothing.  Not so if its pieces cross the ends of pages or
   the addresses wrap *)
WriteExact ==
    \A addr \in Addresses : \A cnt \in 1 .. AddrSpace - addr :
      PiecesFit(addr, cnt) =>
        LET w == flash_write(addr, cnt)
            range == addr .. addr + cnt - 1
        IN  IF w.rc = "ERR_OK"
              THEN /\ range \subseteq Cells
                   /\ \A x \in Cells \ range : w.flash[x] = content[x]
                   /\ \A x \in range : content[x] = "erased" => w.flash[x] = "data"
                   /\ \A s \in Sectors : protect[s] => CellsOf({s}) \cap range = {}
              ELSE w.flash = content

(* erase either refuses its arguments or erases exactly the cells of the flash
   that are named: with a length, also the rest of the last sector.  It does not
   refuse a length from the beginning of a sector on.  (protect works on the same
   sectors.)  A range includes its end, as the usage text has it: "from addr 'start'
   to addr 'end'"; the comment of addr_spec says <'start', 'end'), by which an
   accepted range that ends within the flash is erased with one cell too many *)
RangeExact ==
    \A first, arg \in Addresses :
      LET After(form) == flash_erase(Selected([form |-> form, first |-> first, arg |-> arg]))
          Erased(X) == [x \in Cells |-> IF x \in X THEN "erased" ELSE content[x]]
          named   == Between(first, first + arg - 1)
          touched == CellsOf({s \in Sectors : CellsOf({s}) \cap named # {}})
      IN  /\ After("range") \in {content, Erased(Between(first, arg))}
          /\ After("length") \in {content, Erased(touched)}
          /\ Cardinality(named) = arg /\ (\E s \in Sectors : first = start(s)) =>
               After("length") = Erased(touched)
=============================================================================
