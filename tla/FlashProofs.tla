----------------------------- MODULE FlashProofs -----------------------------
(***************************************************************************)
(* Proofs about module Flash: what erase and flash_write do to the cells   *)
(* of the flash, for every geometry, address and length.                   *)
(***************************************************************************)
EXTENDS Flash, FiniteSetTheorems, TLAPS

-----------------------------------------------------------------------------
(* Arithmetic *)

LEMMA Grows ==
    ASSUME NEW a \in Int, NEW b \in Int, NEW n \in Nat, a < b
    PROVE  (a * n) + n <= b * n
<1>1. b - a - 1 \in Nat
  OBVIOUS
<1>2. (b - a - 1) * n >= 0
  BY <1>1
<1>3. (b - a - 1) * n = (b * n) - ((a * n) + n)
  OBVIOUS
<1>4. a * n \in Int /\ b * n \in Int
  OBVIOUS
<1> QED BY <1>2, <1>3, <1>4

LEMMA Division ==
    ASSUME NEW a \in Nat, NEW n \in Nat \ {0}
    PROVE  /\ a \div n \in Nat /\ a % n \in 0 .. n - 1
           /\ a = (a \div n) * n + (a % n) /\ (a \div n) * n \in Nat
<1>1. /\ a \div n \in Nat /\ a % n \in 0 .. n - 1
      /\ a = (a \div n) * n + (a % n)
  OBVIOUS
<1>2. \A d \in Nat : d * n \in Nat
  OBVIOUS
<1> QED BY <1>1, <1>2

LEMMA Product ==
    ASSUME NEW a \in Nat, NEW b \in Nat, NEW c \in Nat
    PROVE  (a * b) * c = a * (b * c) /\ a * b \in Nat
OBVIOUS

\* The only quotient and remainder.
LEMMA DivisionUnique ==
    ASSUME NEW n \in Nat \ {0}, NEW k \in Nat, NEW y \in 0 .. n - 1
    PROVE  (k * n + y) \div n = k /\ (k * n + y) % n = y
<1> DEFINE a == k * n + y
           q == a \div n
           r == a % n
<1>1. k * n \in Nat
  OBVIOUS
<1>2. a \in Nat
  BY <1>1
<1> HIDE DEF a
<1>3. q \in Nat /\ r \in 0 .. n - 1 /\ a = q * n + r
  BY <1>2, Division
<1> HIDE DEF q, r
<1>4. a = k * n + y
  BY DEF a
<1>5. q * n \in Nat
  BY <1>3
<1>6. ~ (q < k)
  <2>1. q < k => (q * n) + n <= k * n
    BY <1>3, Grows
  <2> QED BY <1>1, <1>3, <1>4, <1>5, <2>1
<1>7. ~ (k < q)
  <2>1. k < q => (k * n) + n <= q * n
    BY <1>3, Grows
  <2> QED BY <1>1, <1>3, <1>4, <1>5, <2>1
<1>8. q = k
  BY <1>3, <1>6, <1>7
<1>9. r = y
  BY <1>1, <1>3, <1>4, <1>8
<1> QED BY <1>8, <1>9, Zenon DEF q, r, a

-----------------------------------------------------------------------------
(* Sectors and cells *)

\* The sectors are intervals of cells, one after the other.
LEMMA SectorOrder ==
    /\ \A s \in Sectors : /\ start(s) \in Nat /\ sect_end(s) \in Nat /\ b_end \in Nat
                          /\ sect_end(s) = start(s) + SectorSize - 1
                          /\ CFG_FLASH_BASE <= start(s) /\ sect_end(s) <= b_end
    /\ \A s, t \in Sectors : s < t => sect_end(s) < start(t)
<1> USE FlashAssumption
<1>1. ASSUME NEW s \in Int, NEW t \in Int, s < t, 0 <= s
      PROVE  /\ s * SectorSize \in Nat /\ t * SectorSize \in Nat
             /\ (s * SectorSize) + SectorSize <= t * SectorSize
  BY <1>1, Grows
<1>2. ASSUME NEW s \in Sectors, NEW t \in Sectors, s < t PROVE sect_end(s) < start(t)
  BY <1>1, <1>2 DEF Sectors, sect_end, start
<1>3. SectorCount - 1 \in Sectors
  BY DEF Sectors
<1>4. ASSUME NEW s \in Sectors
      PROVE  start(s) \in Nat /\ sect_end(s) \in Nat /\ CFG_FLASH_BASE <= start(s)
             /\ sect_end(s) = start(s) + SectorSize - 1
  <2>1. s \in Nat /\ s * SectorSize \in Nat
    BY DEF Sectors
  <2> QED BY <2>1 DEF sect_end, start
<1>5. b_end \in Nat
  BY <1>3, <1>4 DEF b_end
<1>6. ASSUME NEW s \in Sectors PROVE sect_end(s) <= b_end
  <2>1. CASE s = SectorCount - 1
    BY <1>5, <2>1 DEF b_end
  <2>2. CASE s < SectorCount - 1
    BY <1>2, <1>3, <1>4, <1>5, <2>2 DEF b_end
  <2> QED BY <2>1, <2>2 DEF Sectors
<1> QED BY <1>2, <1>4, <1>5, <1>6

LEMMA BankEnd ==
    /\ b_end + 1 = CFG_FLASH_BASE + SectorCount * SectorSize
    /\ SectorCount * SectorSize \in Nat /\ b_end \in Nat
<1>1. (SectorCount - 1) * SectorSize = (SectorCount * SectorSize) - SectorSize
  BY FlashAssumption
<1>2. SectorCount * SectorSize \in Nat
  BY FlashAssumption
<1>3. b_end = CFG_FLASH_BASE + ((SectorCount - 1) * SectorSize) + SectorSize - 1
  BY DEF b_end, sect_end, start
<1>4. SectorCount - 1 \in Sectors
  BY FlashAssumption DEF Sectors
<1>5. b_end \in Nat
  BY <1>4, SectorOrder
<1> QED BY <1>1, <1>2, <1>3, <1>5, FlashAssumption

\* Every cell is in a sector.
LEMMA SectorOf ==
    ASSUME NEW x \in Cells
    PROVE  \E s \in Sectors : start(s) <= x /\ x <= sect_end(s)
<1> USE FlashAssumption
<1> DEFINE o == x - CFG_FLASH_BASE
           s == o \div SectorSize
           r == o % SectorSize
<1>1. x \in Nat /\ o \in Nat /\ x = CFG_FLASH_BASE + o /\ o < SectorCount * SectorSize
  BY BankEnd, SectorOrder DEF Cells
<1> HIDE DEF o
<1>2. s \in Nat /\ r \in 0 .. SectorSize - 1 /\ o = s * SectorSize + r
  BY <1>1, Division
<1> HIDE DEF s, r
<1>3. s * SectorSize \in Nat /\ SectorCount * SectorSize \in Nat
  BY <1>2
<1>4. s < SectorCount
  <2>1. SUFFICES ASSUME SectorCount <= s PROVE FALSE
    BY <1>2
  <2>2. SectorCount * SectorSize <= s * SectorSize
    <3>1. CASE SectorCount = s
      BY <3>1, <1>3
    <3>2. CASE SectorCount < s
      BY <3>2, <1>2, <1>3, Grows
    <3> QED BY <2>1, <3>1, <3>2, <1>2
  <2> QED BY <1>1, <1>2, <1>3, <2>2
<1>5. s \in Sectors
  BY <1>2, <1>4 DEF Sectors
<1>6. start(s) <= x /\ x <= sect_end(s)
  BY <1>1, <1>2, <1>3 DEF start, sect_end
<1> QED BY <1>5, <1>6

\* A run of sectors is one interval of cells.
LEMMA CellsOfRun ==
    ASSUME NEW f \in Sectors, NEW l \in Sectors, f <= l
    PROVE  /\ CellsOf({s \in Sectors : f <= s /\ s <= l}) = start(f) .. sect_end(l)
           /\ start(f) .. sect_end(l) = Between(start(f), sect_end(l))
<1> DEFINE S == {s \in Sectors : f <= s /\ s <= l}
<1>1. ASSUME NEW x \in CellsOf(S) PROVE x \in start(f) .. sect_end(l)
  <2>1. PICK s \in S : x \in start(s) .. sect_end(s)
    BY <1>1 DEF CellsOf
  <2>2. start(f) <= start(s) /\ sect_end(s) <= sect_end(l)
    BY <2>1, SectorOrder, FlashAssumption DEF Sectors
  <2> QED BY <2>1, <2>2, SectorOrder
<1>2. start(f) .. sect_end(l) \subseteq Cells
  BY SectorOrder, FlashAssumption DEF Cells
<1>3. ASSUME NEW x \in start(f) .. sect_end(l) PROVE x \in CellsOf(S)
  <2>1. PICK s \in Sectors : start(s) <= x /\ x <= sect_end(s)
    BY <1>2, <1>3, SectorOf
  <2>2. f <= s /\ s <= l
    BY <1>3, <2>1, SectorOrder DEF Sectors
  <2>3. x \in start(s) .. sect_end(s)
    BY <1>3, <2>1, SectorOrder
  <2> QED BY <2>1, <2>2, <2>3 DEF CellsOf
<1>4. CellsOf(S) = start(f) .. sect_end(l)
  BY <1>1, <1>3
<1>5. start(f) .. sect_end(l) = Between(start(f), sect_end(l))
  BY <1>2, SectorOrder, FlashAssumption DEF Between, Cells
<1> QED BY <1>4, <1>5

-----------------------------------------------------------------------------
(* What the commands select *)

\* flash_fill_sect_ranges selects none, or the sectors from that which begins at
\* first to that which ends at last, or to the last one.
LEMMA FillRun ==
    ASSUME NEW first \in Nat, NEW last \in Nat, flash_fill_sect_ranges(first, last) # {}
    PROVE  \E f, l \in Sectors :
             /\ f <= l /\ first = start(f)
             /\ last = sect_end(l) \/ (last > b_end /\ l = SectorCount - 1)
             /\ flash_fill_sect_ranges(first, last) = {s \in Sectors : f <= s /\ s <= l}
<1> USE FlashAssumption
<1> DEFINE S == flash_fill_sect_ranges(first, last)
           Ends(l) == last = sect_end(l) \/ (last > b_end /\ l = SectorCount - 1)
<1>1. PICK s \in Sectors : first <= last /\ \E f \in 0 .. s, l \in s .. SectorCount - 1 :
                                            first = start(f) /\ Ends(l)
  BY DEF flash_fill_sect_ranges
<1>2. PICK f \in 0 .. s, l \in s .. SectorCount - 1 : first = start(f) /\ Ends(l)
  BY <1>1
<1>3. f \in Sectors /\ l \in Sectors /\ f <= l
  BY <1>2 DEF Sectors
<1>4. ASSUME NEW g \in Sectors, first = start(g) PROVE g = f
  <2>1. (g < f => start(g) < start(f)) /\ (f < g => start(f) < start(g))
    BY <1>3, SectorOrder
  <2>2. g \in Int /\ f \in Int /\ start(g) \in Int /\ start(f) \in Int
    BY <1>3, SectorOrder DEF Sectors
  <2> QED BY <1>2, <1>4, <2>1, <2>2
<1>5. ASSUME NEW g \in Sectors, Ends(g) PROVE g = l
  <2>1. SectorCount - 1 \in Sectors /\ b_end = sect_end(SectorCount - 1)
    BY DEF Sectors, b_end
  <2>2. /\ g < l => sect_end(g) < sect_end(l)
        /\ l < g => sect_end(l) < sect_end(g)
    BY <1>3, SectorOrder
  <2>3. sect_end(g) <= b_end /\ sect_end(l) <= b_end
    BY <1>3, SectorOrder
  <2>4. g \in Int /\ l \in Int /\ sect_end(g) \in Int /\ sect_end(l) \in Int /\ b_end \in Int
    BY <1>3, SectorOrder, BankEnd DEF Sectors
  <2> QED BY <1>2, <1>5, <2>2, <2>3, <2>4
<1>6. ASSUME NEW t \in S PROVE t \in Sectors /\ f <= t /\ t <= l
  <2>1. t \in Sectors /\ \E g \in 0 .. t, h \in t .. SectorCount - 1 : first = start(g) /\ Ends(h)
    BY <1>6 DEF flash_fill_sect_ranges
  <2>2. PICK g \in 0 .. t, h \in t .. SectorCount - 1 : first = start(g) /\ Ends(h)
    BY <2>1
  <2>3. g \in Sectors /\ h \in Sectors /\ g <= t /\ t <= h
    BY <2>1, <2>2 DEF Sectors
  <2> QED BY <1>4, <1>5, <2>1, <2>2, <2>3
<1>7. ASSUME NEW t \in Sectors, f <= t, t <= l PROVE t \in S
  <2>1. f \in 0 .. t /\ l \in t .. SectorCount - 1
    BY <1>3, <1>7 DEF Sectors
  <2> QED BY <1>1, <1>2, <2>1 DEF flash_fill_sect_ranges
<1>8. S = {t \in Sectors : f <= t /\ t <= l}
  <2> HIDE DEF S
  <2> QED BY <1>6, <1>7
<1> QED BY <1>2, <1>3, <1>8

LEMMA SelectedRange ==
    ASSUME NEW first, NEW arg
    PROVE  Selected([form |-> "range", first |-> first, arg |-> arg]) =
             IF first < arg THEN flash_fill_sect_ranges(first, arg) ELSE {}
BY DEF Selected

LEMMA SelectedLength ==
    ASSUME NEW first, NEW arg
    PROVE  Selected([form |-> "length", first |-> first, arg |-> arg]) =
             UNION {flash_fill_sect_ranges(first, last) :
                    last \in {e \in LastOfLength(first, arg) : first < e}}
BY DEF Selected

-----------------------------------------------------------------------------
(* erase *)

Filled == /\ content \in [Cells -> {"data", "erased", "spoilt"}]
          /\ protect \in [Sectors -> BOOLEAN]

ErasedCells(X) == [x \in Cells |-> IF x \in X THEN "erased" ELSE content[x]]

LEMMA EraseNothing == Filled => flash_erase({}) = content /\ ErasedCells({}) = content
BY DEF Filled, flash_erase, ErasedCells, CellsOf

LEMMA EraseCells ==
    ASSUME NEW S, NEW X, CellsOf(S) = X
    PROVE  flash_erase(S) = ErasedCells(X)
BY DEF flash_erase, ErasedCells

LEMMA EraseRange ==
    ASSUME Filled, NEW first \in Addresses, NEW arg \in Addresses
    PROVE  flash_erase(Selected([form |-> "range", first |-> first, arg |-> arg]))
             \in {content, ErasedCells(Between(first, arg))}
<1> DEFINE S == flash_fill_sect_ranges(first, arg)
<1>0. first \in Nat /\ arg \in Nat
  BY FlashAssumption DEF Addresses
<1>1. CASE ~ (first < arg) \/ S = {}
  BY <1>1, SelectedRange, EraseNothing
<1>2. CASE first < arg /\ S # {}
  <2>1. PICK f \in Sectors, l \in Sectors :
             /\ f <= l /\ first = start(f)
             /\ arg = sect_end(l) \/ (arg > b_end /\ l = SectorCount - 1)
             /\ S = {s \in Sectors : f <= s /\ s <= l}
    BY <1>0, <1>2, FillRun
  <2>2. CellsOf(S) = Between(start(f), sect_end(l))
    BY <2>1, CellsOfRun
  <2>3. Between(start(f), sect_end(l)) = Between(first, arg)
    <3>1. CASE arg = sect_end(l)
      BY <2>1, <3>1
    <3>2. CASE arg > b_end /\ l = SectorCount - 1
      <4>1. sect_end(l) = b_end
        BY <3>2 DEF b_end
      <4> QED BY <1>0, <2>1, <3>2, <4>1, BankEnd, FlashAssumption DEF Between, Cells
    <3> QED BY <2>1, <3>1, <3>2
  <2> HIDE DEF S
  <2>4. flash_erase(S) = ErasedCells(Between(first, arg))
    BY <2>2, <2>3, EraseCells
  <2> QED BY <1>2, <2>4, SelectedRange DEF S
<1> QED BY <1>1, <1>2

\* The flash ends below the end of the address space: the board has it at
\* 0xbf000000 (or 0x9f000000).  At the very end, the sum in flash_write wraps to 0,
\* and so does that in addr_spec for a length of 0.
Below == CFG_FLASH_BASE + (SectorCount * SectorSize) < AddrSpace

LEMMA Wraps ==
    ASSUME NEW n \in Nat \ {0}, NEW a \in Int, -1 <= a, a < 2 * n
    PROVE  a % n = IF a < 0 THEN n - 1 ELSE IF a < n THEN a ELSE a - n
<1>1. CASE a < 0
  <2>1. a = -1
    BY <1>1
  <2>2. (-1) % n = n - 1
    OBVIOUS
  <2> QED BY <1>1, <2>1, <2>2
<1>2. CASE 0 <= a /\ a < n
  BY <1>2
<1>3. CASE n <= a
  <2>1. a - n \in 0 .. n - 1 /\ a = 1 * n + (a - n)
    BY <1>3
  <2>2. (1 * n + (a - n)) % n = a - n
    BY <2>1, DivisionUnique
  <2> QED BY <1>3, <2>1, <2>2
<1> QED BY <1>1, <1>2, <1>3

\* No cell is in two sectors.
LEMMA SectorUnique ==
    ASSUME NEW s \in Sectors, NEW t \in Sectors, NEW x \in Nat,
           start(s) <= x, x <= sect_end(s), start(t) <= x, x <= sect_end(t)
    PROVE  s = t
<1>1. ~ (s < t) /\ ~ (t < s)
  BY SectorOrder
<1> QED BY <1>1 DEF Sectors

\* The sectors that an interval of cells from the beginning of f into t touches.
LEMMA Touched ==
    ASSUME NEW f \in Sectors, NEW t \in Sectors, f <= t,
           NEW last \in Nat, start(t) <= last, last <= sect_end(t)
    PROVE  {s \in Sectors : CellsOf({s}) \cap Between(start(f), last) # {}}
             = {s \in Sectors : f <= s /\ s <= t}
<1>1. \A s \in Sectors : CellsOf({s}) = start(s) .. sect_end(s)
  BY DEF CellsOf
<1>2. ASSUME NEW s \in Sectors, f <= s, s <= t
      PROVE  start(s) \in start(s) .. sect_end(s) /\ start(s) \in Between(start(f), last)
  <2>1. start(f) <= start(s) /\ start(s) <= start(t)
    BY <1>2, SectorOrder, FlashAssumption DEF Sectors
  <2>2. start(s) \in start(s) .. sect_end(s) /\ start(s) \in Cells
    BY SectorOrder, FlashAssumption DEF Cells
  <2> QED BY <2>1, <2>2, SectorOrder DEF Between
<1>3. ASSUME NEW s \in Sectors, NEW x \in start(s) .. sect_end(s), x \in Between(start(f), last)
      PROVE  f <= s /\ s <= t
  <2>1. start(s) <= x /\ x <= sect_end(s) /\ start(f) <= x /\ x <= sect_end(t) /\ x \in Nat
    BY <1>3, SectorOrder DEF Between
  <2>2. ~ (s < f) /\ ~ (t < s)
    BY <2>1, SectorOrder
  <2> QED BY <2>2 DEF Sectors
<1> QED BY <1>1, <1>2, <1>3

\* A length selects none, or the sectors it touches.
LEMMA LengthRun ==
    ASSUME Below, NEW first \in Addresses, NEW arg \in Addresses,
           Selected([form |-> "length", first |-> first, arg |-> arg]) # {}
    PROVE  \E f, t \in Sectors :
             /\ f <= t /\ first = start(f) /\ first + arg - 1 \in Nat
             /\ start(t) <= first + arg - 1 /\ first + arg - 1 <= sect_end(t)
             /\ Selected([form |-> "length", first |-> first, arg |-> arg])
                  = {s \in Sectors : f <= s /\ s <= t}
<1> USE FlashAssumption
<1> DEFINE S == Selected([form |-> "length", first |-> first, arg |-> arg])
           last == (first + arg - 1) % AddrSpace
<1>0. first \in Nat /\ arg \in Nat /\ first < AddrSpace /\ arg < AddrSpace /\ AddrSpace \in Nat \ {0}
  BY DEF Addresses
<1>1. S = UNION {flash_fill_sect_ranges(first, e) : e \in {e \in LastOfLength(first, arg) : first < e}}
  BY SelectedLength
<1>2. LastOfLength(first, arg) =
        {sect_end(s) : s \in {t \in Sectors : start(t) <= last /\ last <= sect_end(t)}}
  BY DEF LastOfLength
<1>3. last = IF first + arg - 1 < 0 THEN AddrSpace - 1
             ELSE IF first + arg - 1 < AddrSpace THEN first + arg - 1 ELSE (first + arg - 1) - AddrSpace
  <2>1. first + arg - 1 \in Int /\ -1 <= first + arg - 1 /\ first + arg - 1 < 2 * AddrSpace
    BY <1>0
  <2> QED BY <1>0, <2>1, Wraps
<1>4. last \in Nat
  BY <1>0, <1>3
<1> HIDE DEF last, S
<1>5. PICK t \in Sectors : start(t) <= last /\ last <= sect_end(t) /\ first < sect_end(t)
                           /\ flash_fill_sect_ranges(first, sect_end(t)) # {}
  BY <1>1, <1>2 DEF S
<1>6. \A u \in Sectors : start(u) <= last /\ last <= sect_end(u) => u = t
  BY <1>4, <1>5, SectorUnique
<1>7. S = flash_fill_sect_ranges(first, sect_end(t))
  BY <1>1, <1>2, <1>5, <1>6
<1>8. PICK f \in Sectors, l \in Sectors :
          /\ f <= l /\ first = start(f)
          /\ sect_end(t) = sect_end(l) \/ (sect_end(t) > b_end /\ l = SectorCount - 1)
          /\ S = {s \in Sectors : f <= s /\ s <= l}
  <2>1. sect_end(t) \in Nat
    BY SectorOrder
  <2> QED BY <1>0, <1>5, <1>7, <2>1, FillRun
<1>9. l = t
  <2>1. sect_end(t) <= b_end /\ sect_end(t) \in Nat /\ b_end \in Nat /\ sect_end(l) \in Nat
    BY SectorOrder
  <2>2. sect_end(t) = sect_end(l)
    BY <1>8, <2>1
  <2>3. ~ (t < l) /\ ~ (l < t)
    BY <2>1, <2>2, SectorOrder
  <2> QED BY <2>3 DEF Sectors
<1>10. first <= last
  <2>1. start(f) <= start(t)
    BY <1>8, <1>9, SectorOrder DEF Sectors
  <2> QED BY <1>4, <1>5, <1>8, <2>1, SectorOrder
<1>11. last <= b_end /\ b_end + 1 < AddrSpace
  BY <1>4, <1>5, SectorOrder, BankEnd DEF Below
<1>12. last = first + arg - 1
  BY <1>0, <1>3, <1>4, <1>10, <1>11, BankEnd
<1> QED BY <1>4, <1>5, <1>8, <1>9, <1>12 DEF S

TouchedBy(first, arg) ==
    CellsOf({s \in Sectors : CellsOf({s}) \cap Between(first, first + arg - 1) # {}})

LEMMA EraseLength ==
    ASSUME Filled, Below, NEW first \in Addresses, NEW arg \in Addresses
    PROVE  LET S == Selected([form |-> "length", first |-> first, arg |-> arg])
           IN  /\ S = {} => flash_erase(S) = content
               /\ S # {} => flash_erase(S) = ErasedCells(TouchedBy(first, arg))
<1> DEFINE S == Selected([form |-> "length", first |-> first, arg |-> arg])
<1>1. CASE S = {}
  BY <1>1, EraseNothing
<1>2. CASE S # {}
  <2>1. PICK f \in Sectors, t \in Sectors :
             /\ f <= t /\ first = start(f) /\ first + arg - 1 \in Nat
             /\ start(t) <= first + arg - 1 /\ first + arg - 1 <= sect_end(t)
             /\ S = {s \in Sectors : f <= s /\ s <= t}
    BY <1>2, LengthRun
  <2> HIDE DEF S
  <2>2. S = {s \in Sectors : CellsOf({s}) \cap Between(first, first + arg - 1) # {}}
    BY <2>1, Touched
  <2>3. flash_erase(S) = ErasedCells(TouchedBy(first, arg))
    BY <2>2, EraseCells DEF TouchedBy
  <2> QED BY <1>2, <2>3 DEF S
<1> QED BY <1>1, <1>2

\* A length from the beginning of a sector on, and not beyond the flash, is not
\* refused.
LEMMA LengthTaken ==
    ASSUME Below, SectorSize > 1, NEW f \in Sectors, NEW arg \in Addresses \ {0},
           Cardinality(Between(start(f), start(f) + arg - 1)) = arg
    PROVE  Selected([form |-> "length", first |-> start(f), arg |-> arg]) # {}
<1> USE FlashAssumption
<1> DEFINE first == start(f)
           last  == first + arg - 1
<1>1. first \in Nat /\ arg \in Nat \ {0} /\ b_end \in Nat /\ CFG_FLASH_BASE <= first /\ first <= b_end
      /\ b_end + 1 < AddrSpace /\ arg < AddrSpace
  BY SectorOrder, BankEnd DEF Addresses, Below
<1> HIDE DEF first
<1>2. last \in Nat /\ first <= last
  BY <1>1
<1>3. last <= b_end
  <2>1. SUFFICES ASSUME b_end < last PROVE FALSE
    BY <1>1, <1>2
  <2>2. Between(first, last) = first .. b_end
    BY <1>1, <1>2, <2>1 DEF Between, Cells
  <2>3. Cardinality(first .. b_end) = b_end - first + 1
    BY <1>1, FS_Interval
  <2>4. Cardinality(Between(first, last)) = arg
    BY DEF first
  <2> QED BY <1>1, <2>1, <2>2, <2>3, <2>4
<1>4. last \in Cells
  BY <1>1, <1>2, <1>3 DEF Cells
<1> HIDE DEF last
<1>5. PICK t \in Sectors : start(t) <= last /\ last <= sect_end(t)
  BY <1>4, SectorOf
<1>6. last % AddrSpace = last
  BY <1>1, <1>2, <1>3
<1>7. sect_end(t) \in LastOfLength(first, arg)
  BY <1>5, <1>6 DEF LastOfLength, last
<1>8. f <= t
  <2>1. ~ (t < f)
    BY <1>1, <1>2, <1>5, SectorOrder DEF first
  <2> QED BY <2>1 DEF Sectors
<1>9. first < sect_end(t)
  <2>1. CASE f = t
    BY <2>1, SectorOrder DEF first
  <2>2. CASE f < t
    BY <2>2, SectorOrder DEF first
  <2> QED BY <1>8, <2>1, <2>2 DEF Sectors
<1>10. f \in flash_fill_sect_ranges(first, sect_end(t))
  <2>1. f \in 0 .. f /\ t \in f .. SectorCount - 1
    BY <1>8 DEF Sectors
  <2>2. first <= sect_end(t)
    BY <1>1, <1>9, SectorOrder
  <2> QED BY <2>1, <2>2 DEF flash_fill_sect_ranges, first
<1>11. f \in UNION {flash_fill_sect_ranges(first, e) : e \in {e \in LastOfLength(first, arg) : first < e}}
  BY <1>7, <1>9, <1>10
<1> QED BY <1>11, SelectedLength DEF first

\* erase either refuses its arguments or erases exactly the cells they name, and
\* with a length the rest of the last sector; it takes a length from the beginning
\* of a sector on.
LEMMA RangeFollows ==
    ASSUME Below, SectorSize > 1, Filled
    PROVE  RangeExact
<1> SUFFICES ASSUME NEW first \in Addresses, NEW arg \in Addresses
             PROVE  LET After(form) == flash_erase(Selected([form |-> form, first |-> first, arg |-> arg]))
                        named == Between(first, first + arg - 1)
                    IN  /\ After("range") \in {content, ErasedCells(Between(first, arg))}
                        /\ After("length") \in {content, ErasedCells(TouchedBy(first, arg))}
                        /\ Cardinality(named) = arg /\ (\E s \in Sectors : first = start(s)) =>
                             After("length") = ErasedCells(TouchedBy(first, arg))
  BY DEF RangeExact, ErasedCells, TouchedBy
<1> DEFINE S == Selected([form |-> "length", first |-> first, arg |-> arg])
<1>1. flash_erase(Selected([form |-> "range", first |-> first, arg |-> arg]))
        \in {content, ErasedCells(Between(first, arg))}
  BY EraseRange
<1>2. /\ S = {} => flash_erase(S) = content
      /\ S # {} => flash_erase(S) = ErasedCells(TouchedBy(first, arg))
  BY EraseLength
<1>3. ASSUME Cardinality(Between(first, first + arg - 1)) = arg, NEW s \in Sectors, first = start(s)
      PROVE  flash_erase(S) = ErasedCells(TouchedBy(first, arg))
  <2>1. CASE arg = 0
    <3>1. Between(first, first + arg - 1) = {}
      BY <2>1, FlashAssumption DEF Between, Cells, Addresses
    <3>2. TouchedBy(first, arg) = {}
      BY <3>1 DEF TouchedBy, CellsOf
    <3> QED BY <1>2, <3>2, EraseNothing
  <2>2. CASE arg # 0
    <3>1. S # {}
      BY <1>3, <2>2, LengthTaken
    <3> QED BY <1>2, <3>1
  <2> QED BY <2>1, <2>2
<1> HIDE DEF S
<1> QED BY <1>1, <1>2, <1>3 DEF S

-----------------------------------------------------------------------------
(* flash_write *)

\* Pieces whose length divides that of a page begin at multiples of it.
LEMMA PieceInPage ==
    ASSUME NEW P \in Nat \ {0}, NEW o \in Nat, NEW j \in Nat, NEW q \in Nat \ {0},
           q = P - (o % P), P % q = 0 \/ j \in {0, 1}
    PROVE  ((o + (j * q)) % P) + q <= P
<1> DEFINE a == o \div P
           r == o % P
           dst == o + (j * q)
           k == dst \div P
           u == dst % P
<1>1. a \in Nat /\ r \in 0 .. P - 1 /\ o = a * P + r /\ a * P \in Nat
  BY Division
<1> HIDE DEF a
<1>2. q = P - r
  OBVIOUS
<1> HIDE DEF r
<1>3. j * q \in Nat /\ dst \in Nat
  OBVIOUS
<1>4. dst = o + (j * q)
  OBVIOUS
<1> HIDE DEF dst
<1>5. CASE j = 0
  <2>1. dst = a * P + r
    BY <1>1, <1>3, <1>4, <1>5
  <2>2. dst % P = r
    BY <1>1, <2>1, DivisionUnique
  <2> QED BY <1>1, <1>2, <2>2 DEF dst
<1>6. CASE j = 1
  <2>1. dst = (a * P) + P
    BY <1>1, <1>2, <1>3, <1>4, <1>6
  <2>2. (a + 1) * P = (a * P) + P
    BY <1>1
  <2>3. dst = ((a + 1) * P) + 0 /\ a + 1 \in Nat /\ 0 \in 0 .. P - 1
    BY <1>1, <2>1, <2>2
  <2>4. dst % P = 0
    BY <2>3, DivisionUnique
  <2> QED BY <1>1, <1>2, <2>4 DEF dst
<1>7. CASE P % q = 0
  <2> DEFINE t == P \div q
  <2>1. t \in Nat /\ P = (t * q) + (P % q) /\ t * q \in Nat
    BY Division
  <2>2. P = t * q
    BY <1>7, <2>1
  <2>3. t # 0
    BY <2>1, <2>2
  <2> HIDE DEF t
  <2>4. r = (t * q) - q
    BY <1>1, <1>2, <2>1, <2>2
  <2>5. k \in Nat /\ u \in 0 .. P - 1 /\ dst = k * P + u
    BY <1>3, Division
  <2> HIDE DEF k, u
  <2>6. (k * t) * q = k * P /\ (a * t) * q = a * P /\ k * t \in Int /\ a * t \in Int
    <3>1. (k * t) * q = k * (t * q) /\ k * t \in Nat
      BY <2>1, <2>5, Product
    <3>2. (a * t) * q = a * (t * q) /\ a * t \in Nat
      BY <1>1, <2>1, Product
    <3> QED BY <2>2, <3>1, <3>2
  \* The place in the page is a multiple of q.
  <2> DEFINE v == (((a * t) + t) - 1 + j) - (k * t)
  <2>7. v \in Int
    BY <2>1, <2>6
  <2>8. v * q = u
    <3>1. v * q = (((((a * t) * q) + (t * q)) - q) + (j * q)) - ((k * t) * q)
      BY <2>1, <2>6
    <3> HIDE DEF v
    <3> DEFINE A == a * P
               K == k * P
               J == j * q
    <3>2. A \in Nat /\ K \in Nat /\ J \in Nat
      BY <1>1, <1>3, <2>5
    <3>3. dst = (A + r) + J /\ dst = K + u
      BY <1>1, <1>4, <2>5
    <3>4. v * q = (((A + P) - q) + J) - K
      BY <2>2, <2>6, <3>1
    <3>5. r = P - q
      BY <1>1, <1>2
    <3> HIDE DEF A, K, J
    <3> QED BY <1>1, <2>5, <3>2, <3>3, <3>4, <3>5
  <2> HIDE DEF v
  <2>9. v < t
    <3>1. SUFFICES ASSUME t <= v PROVE FALSE
      BY <2>1, <2>7
    <3>2. t * q <= v * q
      <4>1. CASE t = v
        BY <4>1, <2>1
      <4>2. CASE t < v
        BY <4>2, <2>1, <2>7, <2>8, Grows
      <4> QED BY <2>1, <2>7, <3>1, <4>1, <4>2
    <3> QED BY <2>1, <2>2, <2>5, <2>8, <3>2
  <2>10. (v * q) + q <= t * q
    BY <2>1, <2>7, <2>9, Grows
  <2>11. u + q <= P
    BY <2>2, <2>8, <2>10
  <2> QED BY <2>11 DEF u, dst
<1> QED BY <1>5, <1>6, <1>7

\* Byte i of a buffer goes to cell addr + i.
LEMMA PlaceExact ==
    ASSUME NEW addr \in Nat, NEW cnt \in Nat, CFG_FLASH_BASE <= addr, PiecesFit(addr, cnt),
           NEW i \in 0 .. cnt - 1
    PROVE  Place(addr, i) = addr + i
<1> USE FlashAssumption
<1> DEFINE P == PageSize
           o == addr - CFG_FLASH_BASE
           q == P - (o % P)
           j == i \div q
           m == i % q
           dst == o + (j * q)
           k == dst \div P
           u == dst % P
<1>1. o \in Nat /\ i \in Nat /\ P \in Nat \ {0}
  OBVIOUS
<1>2. q \in Nat \ {0}
  BY <1>1, Division
<1>3. P % q = 0 \/ cnt <= 2 * q
  BY DEF PiecesFit
<1>4. Place(addr, i) = CFG_FLASH_BASE + (k * P) + ((dst + m) % P)
  BY DEF Place
<1>5. q = P - (o % P) /\ addr = CFG_FLASH_BASE + o
  BY <1>1
<1> HIDE DEF P, o
<1> HIDE DEF q
<1>6. j \in Nat /\ m \in 0 .. q - 1 /\ i = (j * q) + m /\ j * q \in Nat
  BY <1>1, <1>2, Division
<1> HIDE DEF j, m
<1>7. P % q = 0 \/ j \in {0, 1}
  <2>1. SUFFICES ASSUME cnt <= 2 * q, 1 < j PROVE FALSE
    BY <1>3, <1>6
  <2>2. (1 * q) + q <= j * q
    BY <1>2, <1>6, <2>1, Grows
  <2> QED BY <1>1, <1>2, <1>6, <2>1, <2>2
<1>8. u + q <= P
  BY <1>1, <1>2, <1>5, <1>6, <1>7, PieceInPage
<1>9. dst \in Nat /\ dst = o + (j * q)
  BY <1>1, <1>6
<1> HIDE DEF dst
<1>10. k \in Nat /\ u \in 0 .. P - 1 /\ dst = k * P + u /\ k * P \in Nat
  BY <1>1, <1>9, Division
<1> HIDE DEF k, u
<1>11. u + m \in 0 .. P - 1 /\ dst + m = (k * P) + (u + m)
  BY <1>1, <1>2, <1>6, <1>8, <1>10
<1>12. (dst + m) % P = u + m
  <2>1. ((k * P) + (u + m)) % P = u + m
    BY <1>1, <1>10, <1>11, DivisionUnique
  <2> QED BY <1>11, <2>1
<1> QED BY <1>1, <1>4, <1>5, <1>6, <1>9, <1>10, <1>12

LEMMA WriteBuff ==
    ASSUME Filled, NEW addr \in Nat, NEW cnt \in Nat \ {0}, CFG_FLASH_BASE <= addr,
           PiecesFit(addr, cnt)
    PROVE  LET flash == write_buff(addr, cnt)
           IN  /\ \A x \in Cells \ (addr .. addr + cnt - 1) : flash[x] = content[x]
               /\ \A x \in Cells : x \in addr .. addr + cnt - 1 /\ content[x] = "erased"
                    => flash[x] = "data"
<1> DEFINE Bytes(x) == {i \in 0 .. cnt - 1 : Place(addr, i) = x}
<1>1. \A i \in 0 .. cnt - 1 : Place(addr, i) = addr + i
  BY PlaceExact
<1>2. Cells \subseteq Int
  BY DEF Cells
<1>3. ASSUME NEW x \in Cells, x \notin addr .. addr + cnt - 1 PROVE Bytes(x) = {}
  BY <1>1, <1>2, <1>3
<1>4. ASSUME NEW x \in Cells, x \in addr .. addr + cnt - 1 PROVE Bytes(x) = {x - addr}
  <2>1. x - addr \in 0 .. cnt - 1
    BY <1>4
  <2>2. \A i \in 0 .. cnt - 1 : addr + i = x <=> i = x - addr
    BY <1>2
  <2> QED BY <1>1, <2>1, <2>2
<1>5. \A x \in Cells : write_buff(addr, cnt)[x] =
          IF Bytes(x) = {} THEN content[x]
          ELSE IF content[x] = "erased" /\ Bytes(x) = {x - addr} THEN "data" ELSE "spoilt"
  BY DEF write_buff
<1> HIDE DEF Bytes
<1> QED BY <1>3, <1>4, <1>5

\* flash_write asks for the protection of every sector it is going to write to.
LEMMA WriteProtected ==
    ASSUME Below, NEW addr \in Nat, NEW end \in Nat, NEW s \in Sectors, protect[s],
           ~ HitsProtected(addr, end)
    PROVE  CellsOf({s}) \cap (addr .. end) = {}
<1> USE FlashAssumption
<1>1. start(s) + SectorSize \in Nat /\ start(s) + SectorSize < AddrSpace
  BY SectorOrder, BankEnd DEF Below
<1>2. (start(s) + SectorSize) % AddrSpace = start(s) + SectorSize
  BY <1>1
<1>3. end < start(s) \/ addr >= start(s) + SectorSize
  BY <1>1, <1>2, SectorOrder DEF HitsProtected
<1>4. CellsOf({s}) = start(s) .. sect_end(s)
  BY DEF CellsOf
<1> QED BY <1>3, <1>4, SectorOrder

\* A write that succeeds puts every byte into its place, if that was erased, and
\* changes nothing else and no protected sector; one that fails changes nothing.
LEMMA WriteFollows ==
    ASSUME Below, Filled
    PROVE  WriteExact
<1> USE FlashAssumption
<1> SUFFICES ASSUME NEW addr \in Addresses, NEW cnt \in 1 .. AddrSpace - addr, PiecesFit(addr, cnt)
             PROVE  LET w == flash_write(addr, cnt)
                        range == addr .. addr + cnt - 1
                    IN  IF w.rc = "ERR_OK"
                          THEN /\ range \subseteq Cells
                               /\ \A x \in Cells \ range : w.flash[x] = content[x]
                               /\ \A x \in range : content[x] = "erased" => w.flash[x] = "data"
                               /\ \A s \in Sectors : protect[s] => CellsOf({s}) \cap range = {}
                          ELSE w.flash = content
  BY DEF WriteExact
<1> DEFINE end == addr + cnt - 1
           left == b_end + 1 - addr
           w == flash_write(addr, cnt)
           ok == addr2info(addr) /\ addr2info(end) /\ ~ HitsProtected(addr, end)
<1>1. addr \in Nat /\ cnt \in Nat \ {0} /\ end \in Nat /\ end < AddrSpace /\ b_end \in Nat
  BY BankEnd DEF Addresses
<1>2. end % AddrSpace = end
  BY <1>1
<1>3. CASE ~ ok
  <2>1. w.rc # "ERR_OK" /\ w.flash = content
    BY <1>1, <1>2, <1>3 DEF flash_write
  <2> QED BY <2>1
<1>4. CASE ok
  <2>1. CFG_FLASH_BASE <= addr /\ end <= b_end /\ left >= cnt
    BY <1>1, <1>4 DEF addr2info
  <2>2. (IF left > cnt THEN cnt ELSE left) = cnt
    BY <1>1, <2>1
  <2>3. w.rc = "ERR_OK" /\ w.flash = write_buff(addr, cnt)
    BY <1>1, <1>2, <1>4, <2>2 DEF flash_write
  <2>4. addr .. end \subseteq Cells
    BY <1>1, <2>1 DEF Cells
  <2>5. /\ \A x \in Cells \ (addr .. end) : w.flash[x] = content[x]
        /\ \A x \in Cells : x \in addr .. end /\ content[x] = "erased" => w.flash[x] = "data"
    <3> HIDE DEF w
    <3> QED BY <1>1, <2>1, <2>3, WriteBuff
  <2>6. \A s \in Sectors : protect[s] => CellsOf({s}) \cap (addr .. end) = {}
    <3> HIDE DEF end
    <3> QED BY <1>1, <1>4, WriteProtected
  <2> HIDE DEF w
  <2>7. w = flash_write(addr, cnt)
    BY DEF w
  <2> QED BY <2>3, <2>4, <2>5, <2>6, <2>7
<1> QED BY <1>3, <1>4

-----------------------------------------------------------------------------
(* Every state that commands lead to *)

LEMMA FilledStep == Filled /\ [Next]_vars => Filled'
<1> SUFFICES ASSUME Filled, [Next]_vars PROVE Filled'
  OBVIOUS
<1> USE DEF Filled
<1>1. ASSUME NEW S, do_flerase(S) PROVE Filled'
  BY <1>1 DEF do_flerase, flash_erase
<1>2. ASSUME NEW S, NEW p \in BOOLEAN, do_protect(p, S) PROVE Filled'
  BY <1>2 DEF do_protect
<1>3. ASSUME NEW dest, NEW cnt, do_mem_cp(dest, cnt) PROVE Filled'
  <2>1. ASSUME NEW n PROVE write_buff(dest, n) \in [Cells -> {"data", "erased", "spoilt"}]
    BY DEF write_buff
  <2>2. flash_write(dest, cnt).flash \in {content} \cup {write_buff(dest, n) : n \in {cnt, b_end + 1 - dest}}
    BY DEF flash_write
  <2> QED BY <1>3, <2>1, <2>2 DEF do_mem_cp
<1>4. CASE UNCHANGED vars
  BY <1>4 DEF vars
<1> QED BY <1>1, <1>2, <1>3, <1>4 DEF Next

LEMMA AlwaysFilled == Spec => []Filled
<1>1. Init => Filled
  BY DEF Init, Filled
<1> QED BY <1>1, FilledStep, PTL DEF Spec

\* Whatever was done to the flash before, erase refuses its arguments or erases
\* exactly what they name.  (A sector of one byte could not be erased by a range
\* or a length: the code wants the first address below the last.)
THEOREM AlwaysRangeExact ==
    ASSUME Below, SectorSize > 1
    PROVE  Spec => []RangeExact
<1>1. Filled => RangeExact
  BY RangeFollows
<1> QED BY <1>1, AlwaysFilled, PTL

\* Whatever was done to the flash before, a write whose pieces do not cross the ends
\* of pages writes exactly its cells, and none that are protected.
THEOREM AlwaysWriteExact ==
    ASSUME Below
    PROVE  Spec => []WriteExact
<1>1. Filled => WriteExact
  BY WriteFollows
<1> QED BY <1>1, AlwaysFilled, PTL
=============================================================================
