--------------------------- MODULE EnvRedundProofs ---------------------------
(***************************************************************************)
(* Crash safety of the redundant environment, for any set of environments, *)
(* any flag bytes that cut-off programming may leave, and any failing      *)
(* steps, within the conditions Sound.                                     *)
(***************************************************************************)
EXTENDS EnvRedund, TLAPS

-----------------------------------------------------------------------------
(* Type correctness *)

LEMMA FlagTypes ==
    /\ OBSOLETE_FLAG \in FlagBytes /\ ACTIVE_FLAG \in FlagBytes /\ ErasedFlag \in FlagBytes
    /\ \A x, y : Halfway(x, y) \subseteq FlagBytes
BY DEF FlagBytes, Halfway

LEMMA SectorFields ==
    ASSUME NEW s \in Sector
    PROVE  /\ s.data \in Content /\ s.crc \in Content /\ s.flags \in FlagBytes
           /\ s.rest \in BOOLEAN /\ s.protected \in BOOLEAN
           /\ \A e \in Envs : [s EXCEPT !.data = e] \in Sector /\ [s EXCEPT !.crc = e] \in Sector
           /\ \A f \in FlagBytes : [s EXCEPT !.flags = f] \in Sector
           /\ \A b \in BOOLEAN : [s EXCEPT !.rest = b] \in Sector
           /\ \A b \in BOOLEAN : [s EXCEPT !.protected = b] \in Sector
BY DEF Sector, Content

LEMMA BlankTypes ==
    ASSUME NEW s \in Sector
    PROVE  Blank(s) \in Sector /\ PartlyBlank(s) \subseteq Sector
<1>1. \A x \in Content, f \in FlagBytes :
         [s EXCEPT !.data = Garbage, !.crc = x, !.flags = f, !.rest = FALSE] \in Sector
  BY DEF Sector, Content
<1>2. Garbage \in Content /\ s.crc \in Content /\ s.flags \in FlagBytes
  BY SectorFields DEF Content
<1>3. Blank(s) \in Sector
  BY <1>1, <1>2, FlagTypes DEF Blank
<1>4. ASSUME NEW t \in PartlyBlank(s) PROVE t \in Sector
  <2>1. PICK x \in {s.crc, Garbage}, f \in {s.flags, ErasedFlag} :
           t = [s EXCEPT !.data = Garbage, !.crc = x, !.flags = f, !.rest = FALSE]
    BY DEF PartlyBlank
  <2>2. x \in Content /\ f \in FlagBytes
    BY <1>2, <2>1, FlagTypes
  <2> QED BY <1>1, <2>1, <2>2
<1> QED BY <1>3, <1>4

LEMMA FlaggedTypes ==
    ASSUME NEW s \in Sector, NEW f \in FlagBytes
    PROVE  Flagged(s, f) \in Sector /\ PartlyFlagged(s, f) \subseteq Sector
BY FlagTypes, SectorFields DEF Flagged, PartlyFlagged

LEMMA OtherCopy == \A c \in Copies : Other(c) \in Copies /\ Other(Other(c)) = c /\ Other(c) # c
BY DEF Copies, Other

\* Replacing one sector.
LEMMA SucceedsType ==
    ASSUME flash \in [Copies -> Sector], NEW c \in Copies, NEW s \in Sector, Succeeds(c, s)
    PROVE  flash' \in [Copies -> Sector]
BY DEF Succeeds

LEMMA FailsType ==
    ASSUME flash \in [Copies -> Sector], NEW c \in Copies, NEW s \in Sector,
           NEW P \in SUBSET Sector, Fails(c, s, P)
    PROVE  flash' \in [Copies -> Sector]
BY DEF Fails

LEMMA CutOffType ==
    ASSUME TypeOK, NEW c \in Copies, NEW P \in SUBSET Sector, CutOff(c, P)
    PROVE  TypeOK'
BY DEF CutOff, TypeOK

LEMMA StepType ==
    ASSUME TypeOK, NEW c \in Copies, NEW s \in Sector, NEW P \in SUBSET Sector,
           NEW step, NEW next \in SaveSteps, NEW ok \in {0, 1}, NEW err \in {0, 1},
           Step(step, c, s, P, next, ok, err)
    PROVE  TypeOK'
<1> "Done" \in SaveSteps
  BY DEF SaveSteps
<1>1. CASE CutOff(c, P)
  BY <1>1, CutOffType
<1>2. CASE Succeeds(c, s) /\ rc' = ok /\ pc' = next
           /\ UNCHANGED <<flash_addr, env_addr, env_valid, ram, saved_data, committed, attempts>>
  <2>1. flash' \in [Copies -> Sector]
    BY <1>2, SucceedsType DEF TypeOK
  <2> QED BY <1>2, <2>1 DEF TypeOK
<1>3. CASE Fails(c, s, P) /\ rc' = err /\ pc' = "Done"
           /\ UNCHANGED <<flash_addr, env_addr, env_valid, ram, saved_data, committed, attempts>>
  <2>1. flash' \in [Copies -> Sector]
    BY <1>3, FailsType DEF TypeOK
  <2> QED BY <1>3, <2>1 DEF TypeOK
<1> QED BY <1>1, <1>2, <1>3 DEF Step

LEMMA ChosenType == \A f : Chosen(f)[1] \in Copies /\ Chosen(f)[2] \in 0 .. 2
BY DEF Chosen, Copies

LEMMA RepairType ==
    ASSUME TypeOK, NEW c \in Copies, NEW f \in FlagBytes, NEW next \in BootSteps,
           Repair(c, f, next)
    PROVE  TypeOK'
<1> DEFINE s == [flash[c] EXCEPT !.protected = FALSE]
           After(t) == [t EXCEPT !.protected = TRUE]
           P == PartlyFlagged(s, f)
           Q == {After(t) : t \in P}
<1>1. s \in Sector
  BY SectorFields DEF TypeOK
<1>2. Flagged(s, f) \in Sector /\ P \subseteq Sector
  BY <1>1, FlaggedTypes
<1>3. \A t \in Sector : After(t) \in Sector
  BY SectorFields
<1> HIDE DEF s, After, P
<1>4. Q \in SUBSET Sector
  BY <1>2, <1>3
<1>5. CASE CutOff(c, P \cup {s, Flagged(s, f)})
  BY <1>1, <1>2, <1>5, CutOffType
<1>6. CASE /\ \/ Succeeds(c, After(Flagged(s, f)))
              \/ Fails(c, After(Flagged(s, f)), Q)
           /\ env_valid' = 2
           /\ pc' = next
           /\ UNCHANGED <<flash_addr, env_addr, ram, rc, saved_data, committed, attempts>>
  <2>1. flash' \in [Copies -> Sector]
    BY <1>2, <1>3, <1>4, <1>6, SucceedsType, FailsType DEF TypeOK
  <2> QED BY <1>6, <2>1 DEF TypeOK
<1> QED BY <1>5, <1>6 DEF Repair, s, After, P

LEMMA TypeStep == TypeOK /\ LoadsReadable /\ [Next]_vars => TypeOK'
<1> SUFFICES ASSUME TypeOK, LoadsReadable, [Next]_vars PROVE TypeOK'
  OBVIOUS
<1> USE EnvRedundAssumption
<1>0. /\ flash_addr \in Copies /\ flash_addr_new \in Copies
      /\ old \in Sector /\ new \in Sector
  BY OtherCopy DEF TypeOK, old, new, flash_addr_new
<1>1. Protected \in [Copies -> Sector]
  BY SectorFields DEF TypeOK, Protected
<1>2. CASE env_init
  BY <1>1, <1>2, ChosenType DEF env_init, TypeOK, Copies, BootSteps
<1>3. CASE env_relocate_default
  BY <1>3 DEF env_relocate_default, Loads, TypeOK
<1>4. CASE env_relocate_swap
  BY <1>4 DEF env_relocate_swap, TypeOK, BootSteps
<1>5. ASSUME NEW next \in BootSteps, NoRepair(next) PROVE TypeOK'
  BY <1>5 DEF NoRepair, TypeOK
<1>6. CASE MarkOther
  BY <1>0, <1>5, <1>6, RepairType, FlagTypes DEF MarkOther, BootSteps
<1>7. CASE CompleteOwn
  BY <1>0, <1>5, <1>7, RepairType, FlagTypes DEF CompleteOwn, BootSteps
<1>8. CASE Load
  <2>1. flash[flash_addr].data \in Envs
    BY <1>8 DEF Load, LoadsReadable, Readable, CrcOk
  <2> QED BY <1>8, <2>1 DEF Load, Loads, TypeOK
<1>9. CASE \E e \in Envs : setenv(e)
  BY <1>9 DEF setenv, TypeOK
<1>10. CASE saveenv
  BY <1>10 DEF saveenv, TypeOK, SaveSteps
<1>20. /\ rc \in {0, 1} /\ 0 \in {0, 1} /\ 1 \in {0, 1} /\ ram \in Envs /\ saved_data \in BOOLEAN
       /\ {} \in SUBSET Sector
  BY DEF TypeOK
<1>21. /\ {"protect_new", "malloc", "erase", "data", "crc", "obsolete", "active", "restore", "swap"}
            \subseteq SaveSteps
       /\ (IF UpData THEN "malloc" ELSE "erase") \in SaveSteps
       /\ (IF UpData THEN "restore" ELSE "swap") \in SaveSteps
  BY DEF SaveSteps
<1>11. CASE UnprotectOld
  <2>1. [old EXCEPT !.protected = FALSE] \in Sector
    BY <1>0, SectorFields
  <2> QED BY <1>0, <1>11, <1>20, <1>21, <2>1, StepType DEF UnprotectOld
<1>12. CASE UnprotectNew
  <2>1. [new EXCEPT !.protected = FALSE] \in Sector
    BY <1>0, SectorFields
  <2> QED BY <1>0, <1>12, <1>20, <1>21, <2>1, StepType DEF UnprotectNew
<1>13. CASE SaveRest
  <2>1. new.rest \in BOOLEAN
    BY <1>0, SectorFields
  <2> QED BY <1>13, <2>1 DEF SaveRest, TypeOK, SaveSteps
<1>14. CASE EraseNew
  <2>1. Blank(new) \in Sector /\ PartlyBlank(new) \in SUBSET Sector
    BY <1>0, BlankTypes
  <2> QED BY <1>0, <1>14, <1>20, <1>21, <2>1, StepType DEF EraseNew
<1>15. CASE WriteData
  <2>1. [new EXCEPT !.data = ram] \in Sector
    BY <1>0, <1>20, SectorFields
  <2> QED BY <1>0, <1>15, <1>20, <1>21, <2>1, StepType DEF WriteData
<1>16. CASE WriteCrc
  <2>1. [new EXCEPT !.crc = ram] \in Sector
    BY <1>0, <1>20, SectorFields
  <2> QED BY <1>0, <1>16, <1>20, <1>21, <2>1, StepType DEF WriteCrc
<1>17. CASE ObsoleteOld
  <2>1. /\ Flagged(old, OBSOLETE_FLAG) \in Sector
        /\ PartlyFlagged(old, OBSOLETE_FLAG) \in SUBSET Sector
    BY <1>0, FlaggedTypes, FlagTypes
  <2> QED BY <1>0, <1>17, <1>20, <1>21, <2>1, StepType DEF ObsoleteOld
<1>18. CASE ActivateNew
  <2>1. /\ Flagged(new, ACTIVE_FLAG) \in Sector
        /\ PartlyFlagged(new, ACTIVE_FLAG) \in SUBSET Sector
    BY <1>0, FlaggedTypes, FlagTypes
  <2> QED BY <1>0, <1>18, <1>20, <1>21, <2>1, StepType DEF ActivateNew
<1>19. CASE RestoreRest
  <2>1. [new EXCEPT !.rest = saved_data] \in Sector
    BY <1>0, <1>20, SectorFields
  <2> QED BY <1>0, <1>19, <1>20, <1>21, <2>1, StepType DEF RestoreRest
<1>22. CASE SwapAddresses
  BY <1>0, <1>22 DEF SwapAddresses, TypeOK, SaveSteps
<1>23. CASE Done
  BY <1>1, <1>23 DEF Done, TypeOK
<1>24. CASE PowerFails
  BY <1>24 DEF PowerFails, TypeOK
<1>25. CASE UNCHANGED vars
  BY <1>25 DEF vars, TypeOK
<1> QED
  BY <1>2, <1>3, <1>4, <1>6, <1>7, <1>8, <1>9, <1>10, <1>11, <1>12, <1>13, <1>14, <1>15,
     <1>16, <1>17, <1>18, <1>19, <1>22, <1>23, <1>24, <1>25 DEF Next

-----------------------------------------------------------------------------
(* What the next boot would take *)

LEMMA ChosenReadable == \A f : Chosen(f)[2] # 0 => CrcOk(f[Chosen(f)[1]])
BY DEF Chosen

\* Only data, CRC and flags matter.
LEMMA BootedSame ==
    ASSUME NEW f, NEW g,
           \A c \in Copies : /\ g[c].data = f[c].data /\ g[c].crc = f[c].crc
                            /\ g[c].flags = f[c].flags
    PROVE  Chosen(g) = Chosen(f) /\ (Tells(g) <=> Tells(f)) /\ Booted(g) = Booted(f)
<1>1. \A c \in Copies : CrcOk(g[c]) <=> CrcOk(f[c])
  BY DEF CrcOk
<1>2. 1 \in Copies /\ 2 \in Copies
  BY DEF Copies
<1>3. Chosen(g) = Chosen(f)
  BY <1>1, <1>2 DEF Chosen
<1>4. Tells(g) <=> Tells(f)
  BY <1>1, <1>2, OtherCopy DEF Tells
<1>5. Booted(g) = Booted(f)
  BY <1>3, ChosenType DEF Booted
<1> QED BY <1>3, <1>4, <1>5

\* A readable copy next to an unreadable or obsolete one is taken.
LEMMA BootedOwn ==
    ASSUME NEW f, NEW c \in Copies, Tells(f), CrcOk(f[c]),
           CrcOk(f[Other(c)]) => f[Other(c)].flags = OBSOLETE_FLAG
    PROVE  /\ Chosen(f)[1] = c /\ Chosen(f)[2] # 0 /\ Booted(f) = f[c].data
           /\ CrcOk(f[Other(c)]) => f[c].flags \in {ACTIVE_FLAG, ErasedFlag}
<1>1. CASE c = 1
  <2>1. Other(c) = 2 /\ Other(1) = 2 /\ Other(2) = 1
    BY <1>1 DEF Other
  <2>2. CrcOk(f[2]) => f[1].flags = ACTIVE_FLAG \/ f[1].flags = ErasedFlag
    BY <1>1, <2>1 DEF Tells, Copies, OBSOLETE_FLAG, ACTIVE_FLAG, ErasedFlag
  <2>3. Chosen(f)[1] = 1 /\ Chosen(f)[2] # 0
    BY <1>1, <2>1, <2>2 DEF Chosen, OBSOLETE_FLAG, ACTIVE_FLAG, ErasedFlag
  <2> QED BY <1>1, <2>1, <2>2, <2>3 DEF Booted
<1>2. CASE c = 2
  <2>1. Other(c) = 1 /\ Other(1) = 2 /\ Other(2) = 1
    BY <1>2 DEF Other
  <2>2. CrcOk(f[1]) => f[2].flags = ACTIVE_FLAG \/ f[2].flags = ErasedFlag
    BY <1>2, <2>1 DEF Tells, Copies, OBSOLETE_FLAG, ACTIVE_FLAG, ErasedFlag
  <2>3. Chosen(f)[1] = 2 /\ Chosen(f)[2] # 0
    BY <1>2, <2>1, <2>2 DEF Chosen, OBSOLETE_FLAG, ACTIVE_FLAG, ErasedFlag
  <2> QED BY <1>2, <2>1, <2>2, <2>3 DEF Booted
<1> QED BY <1>1, <1>2 DEF Copies

\* In any case it is a readable copy, if there is one; and when both are, the
\* other one is obsolete or the one taken has an erased flag.
LEMMA BootedSome ==
    ASSUME NEW f, Tells(f)
    PROVE  \/ /\ Chosen(f)[2] = 0 /\ Booted(f) = default_environment
              /\ \A c \in Copies : ~CrcOk(f[c])
           \/ \E c \in Copies :
                 /\ Chosen(f)[2] # 0 /\ Chosen(f)[1] = c
                 /\ CrcOk(f[c]) /\ Booted(f) = f[c].data
                 /\ CrcOk(f[Other(c)]) => \/ f[c].flags = ErasedFlag
                                          \/ f[Other(c)].flags = OBSOLETE_FLAG
<1> DEFINE c == Chosen(f)[1]
<1>0. Other(1) = 2 /\ Other(2) = 1
  BY DEF Other
<1>1. CASE Chosen(f)[2] = 0
  <2>1. ~CrcOk(f[1]) /\ ~CrcOk(f[2])
    BY <1>0, <1>1 DEF Chosen, Tells, Copies, OBSOLETE_FLAG, ACTIVE_FLAG, ErasedFlag
  <2> QED BY <1>1, <2>1 DEF Booted, Copies
<1>2. CASE Chosen(f)[2] # 0
  <2>1. c \in Copies /\ CrcOk(f[c]) /\ Booted(f) = f[c].data
    BY <1>2, ChosenType, ChosenReadable DEF Booted
  <2>2. ASSUME CrcOk(f[Other(c)])
        PROVE  f[c].flags = ErasedFlag \/ f[Other(c)].flags = OBSOLETE_FLAG
    <3>1. CrcOk(f[1]) /\ CrcOk(f[2])
      BY <1>0, <2>1, <2>2 DEF Copies
    <3>2. CASE c = 1
      <4>1. \/ f[1].flags = ErasedFlag
            \/ f[1].flags = ACTIVE_FLAG /\ f[2].flags = OBSOLETE_FLAG
        BY <1>0, <1>2, <3>1, <3>2 DEF Chosen, Tells, Copies, OBSOLETE_FLAG, ACTIVE_FLAG, ErasedFlag
      <4> QED BY <1>0, <3>2, <4>1
    <3>3. CASE c = 2
      <4>1. \/ f[2].flags = ErasedFlag
            \/ f[2].flags = ACTIVE_FLAG /\ f[1].flags = OBSOLETE_FLAG
        BY <1>0, <1>2, <3>1, <3>3 DEF Chosen, Tells, Copies, OBSOLETE_FLAG, ACTIVE_FLAG, ErasedFlag
      <4> QED BY <1>0, <3>3, <4>1
    <3> QED BY <2>1, <3>2, <3>3 DEF Copies
  <2> HIDE DEF c
  <2> QED BY <1>2, <2>1, <2>2 DEF c
<1> QED BY <1>1, <1>2

LEMMA ChosenPair == \A f : Chosen(f) = <<Chosen(f)[1], Chosen(f)[2]>>
BY DEF Chosen

\* An erased flag decides against any other value.
LEMMA BootedErased ==
    ASSUME NEW f, NEW c \in Copies, CrcOk(f[c]), f[c].flags = ErasedFlag,
           f[Other(c)].flags # ErasedFlag
    PROVE  Tells(f) /\ Chosen(f)[1] = c /\ Chosen(f)[2] # 0 /\ Booted(f) = f[c].data
<1>0. Other(1) = 2 /\ Other(2) = 1
  BY DEF Other
<1>1. Tells(f)
  BY DEF Tells
<1>2. Chosen(f)[1] = c /\ Chosen(f)[2] # 0
  <2>1. CASE c = 1
    BY <1>0, <2>1 DEF Chosen, OBSOLETE_FLAG, ACTIVE_FLAG, ErasedFlag
  <2>2. CASE c = 2
    BY <1>0, <2>2 DEF Chosen, OBSOLETE_FLAG, ACTIVE_FLAG, ErasedFlag
  <2> QED BY <2>1, <2>2 DEF Copies
<1> QED BY <1>1, <1>2 DEF Booted

\* When every readable copy is acceptable, so is what is booted.
LEMMA BootedIn ==
    ASSUME NEW f, NEW E, Tells(f),
           \A c \in Copies : CrcOk(f[c]) => f[c].data \in E,
           (\A c \in Copies : ~CrcOk(f[c])) => default_environment \in E
    PROVE  Booted(f) \in E
BY BootedSome

-----------------------------------------------------------------------------
(* What the flash operations leave *)

LEMMA Replaced ==
    ASSUME NEW f \in [Copies -> Sector], NEW c \in Copies, NEW s
    PROVE  /\ [f EXCEPT ![c] = s][c] = s
           /\ [f EXCEPT ![c] = s][Other(c)] = f[Other(c)]
BY OtherCopy

LEMMA StepEffect ==
    ASSUME flash \in [Copies -> Sector], NEW c \in Copies, NEW step, NEW whole, NEW partial,
           NEW next, NEW ok, NEW err, Step(step, c, whole, partial, next, ok, err)
    PROVE  /\ pc = step
           /\ UNCHANGED <<flash_addr, env_addr, env_valid, ram, saved_data, committed, attempts>>
           /\ flash'[Other(c)] = flash[Other(c)]
           /\ \/ flash'[c] = whole /\ rc' = ok /\ pc' = next
              \/ /\ flash'[c] \in partial \cup {flash[c], whole}
                 /\ rc' = err /\ pc' = "Done" /\ step \in Failing
              \/ flash'[c] \in partial /\ pc' = "off"
<1>1. CASE Succeeds(c, whole) /\ rc' = ok /\ pc' = next
           /\ UNCHANGED <<flash_addr, env_addr, env_valid, ram, saved_data, committed, attempts>>
  BY <1>1, Replaced DEF Succeeds, Step
<1>2. CASE Fails(c, whole, partial) /\ rc' = err /\ pc' = "Done"
           /\ UNCHANGED <<flash_addr, env_addr, env_valid, ram, saved_data, committed, attempts>>
  BY <1>2, Replaced DEF Fails, Step
<1>3. CASE CutOff(c, partial)
  BY <1>3, Replaced DEF CutOff, Step
<1> QED BY <1>1, <1>2, <1>3 DEF Step

LEMMA SameFields ==
    ASSUME NEW s \in Sector
    PROVE  /\ \A b : LET t == [s EXCEPT !.protected = b]
                  IN  t.data = s.data /\ t.crc = s.crc /\ t.flags = s.flags /\ t.rest = s.rest
           /\ \A b : LET t == [s EXCEPT !.rest = b]
                  IN  t.data = s.data /\ t.crc = s.crc /\ t.flags = s.flags /\ t.rest = b
           /\ \A x : LET t == [s EXCEPT !.data = x]
                  IN  t.data = x /\ t.crc = s.crc /\ t.flags = s.flags
           /\ \A x : LET t == [s EXCEPT !.crc = x]
                  IN  t.data = s.data /\ t.crc = x /\ t.flags = s.flags
           /\ \A x : LET t == Flagged(s, x)
                  IN  t.data = s.data /\ t.crc = s.crc /\ t.flags = x /\ t.rest = s.rest
           /\ Blank(s).data = Garbage /\ Blank(s).crc = Garbage /\ Blank(s).flags = ErasedFlag
           /\ \A t \in PartlyBlank(s) : t.data = Garbage
<1>1. \A x, y, z : LET t == [s EXCEPT !.data = Garbage, !.crc = x, !.flags = y, !.rest = z]
                   IN  t.data = Garbage /\ t.crc = x /\ t.flags = y
  BY DEF Sector
<1>2. \A t \in PartlyBlank(s) : t.data = Garbage
  <2> SUFFICES ASSUME NEW t \in PartlyBlank(s) PROVE t.data = Garbage
    OBVIOUS
  <2>1. PICK x \in {s.crc, Garbage}, f \in {s.flags, ErasedFlag} :
           t = [s EXCEPT !.data = Garbage, !.crc = x, !.flags = f, !.rest = FALSE]
    BY DEF PartlyBlank
  <2> QED BY <1>1, <2>1
<1>3. Blank(s).data = Garbage /\ Blank(s).crc = Garbage /\ Blank(s).flags = ErasedFlag
  BY <1>1 DEF Blank
<1> QED BY <1>2, <1>3 DEF Sector, Flagged

LEMMA PartlyFields ==
    ASSUME NEW s \in Sector, NEW x, NEW t \in PartlyFlagged(s, x)
    PROVE  /\ t.data = s.data /\ t.crc = s.crc /\ t.rest = s.rest
           /\ t.flags \in Halfway(s.flags, x)
BY DEF Sector, PartlyFlagged

LEMMA HalfwayFacts ==
    ASSUME NEW x \in FlagBytes
    PROVE  /\ ErasedFlag \notin Halfway(x, OBSOLETE_FLAG)
           /\ Sound => Halfway(x, ACTIVE_FLAG) = {}
<1>1. TornFlags \subseteq 2 .. 254 /\ x \in 0 .. 255
  BY EnvRedundAssumption DEF FlagBytes, ErasedFlag, ACTIVE_FLAG, OBSOLETE_FLAG
<1>2. ErasedFlag \notin Halfway(x, OBSOLETE_FLAG)
  BY <1>1 DEF Halfway, ErasedFlag, ACTIVE_FLAG
<1>3. ASSUME Sound, NEW f \in Halfway(x, ACTIVE_FLAG) PROVE FALSE
  <2>1. f \in TornFlags /\ f % 2 = 1
    BY DEF Halfway, ACTIVE_FLAG
  <2> QED BY <1>3, <2>1 DEF Sound
<1> QED BY <1>2, <1>3

\* A repair changes nothing but the flag of its copy.
LEMMA RepairEffect ==
    ASSUME flash \in [Copies -> Sector], NEW c \in Copies, NEW f, NEW next, Repair(c, f, next)
    PROVE  /\ UNCHANGED <<flash_addr, env_addr, ram, rc, saved_data, committed, attempts>>
           /\ flash'[Other(c)] = flash[Other(c)]
           /\ flash'[c].data = flash[c].data /\ flash'[c].crc = flash[c].crc
           /\ flash'[c].flags \in {f, flash[c].flags} \cup Halfway(flash[c].flags, f)
           /\ \/ pc' = "off"
              \/ pc' = next /\ (flash'[c].flags = f \/ pc \in Failing)
<1> DEFINE s == [flash[c] EXCEPT !.protected = FALSE]
           After(t) == [t EXCEPT !.protected = TRUE]
           P == PartlyFlagged(s, f)
           Q == {After(t) : t \in P}
<1>1. s \in Sector /\ s.data = flash[c].data /\ s.crc = flash[c].crc /\ s.flags = flash[c].flags
  <2>1. flash[c] \in Sector
    OBVIOUS
  <2> QED BY <2>1, SectorFields, SameFields
<1>2. /\ Flagged(s, f).data = s.data /\ Flagged(s, f).crc = s.crc /\ Flagged(s, f).flags = f
      /\ After(Flagged(s, f)).data = s.data /\ After(Flagged(s, f)).crc = s.crc
      /\ After(Flagged(s, f)).flags = f
  <2>1. \A x : LET t == [s EXCEPT !.flags = x]
               IN  /\ t.data = s.data /\ t.crc = s.crc /\ t.flags = x
                   /\ [t EXCEPT !.protected = TRUE].data = s.data
                   /\ [t EXCEPT !.protected = TRUE].crc = s.crc
                   /\ [t EXCEPT !.protected = TRUE].flags = x
    BY <1>1 DEF Sector
  <2> QED BY <2>1 DEF Flagged
<1>3. \A t \in P : /\ t.data = s.data /\ t.crc = s.crc /\ t.flags \in Halfway(s.flags, f)
                   /\ After(t).data = s.data /\ After(t).crc = s.crc
                   /\ After(t).flags \in Halfway(s.flags, f)
  BY <1>1 DEF Sector, PartlyFlagged
<1>4. \A u : /\ [flash EXCEPT ![c] = u][c] = u
             /\ [flash EXCEPT ![c] = u][Other(c)] = flash[Other(c)]
  BY Replaced
<1> HIDE DEF s, After, P
<1>5. CASE CutOff(c, P \cup {s, Flagged(s, f)})
  <2>1. PICK u \in P \cup {s, Flagged(s, f)} : flash' = [flash EXCEPT ![c] = u]
    BY <1>5 DEF CutOff
  <2>2. u.data = s.data /\ u.crc = s.crc /\ u.flags \in {f, s.flags} \cup Halfway(s.flags, f)
    BY <1>2, <1>3, <2>1
  <2> QED BY <1>1, <1>4, <1>5, <2>1, <2>2 DEF CutOff
<1>6. CASE /\ \/ Succeeds(c, After(Flagged(s, f)))
              \/ Fails(c, After(Flagged(s, f)), Q)
           /\ env_valid' = 2
           /\ pc' = next
           /\ UNCHANGED <<flash_addr, env_addr, ram, rc, saved_data, committed, attempts>>
  <2>1. CASE Succeeds(c, After(Flagged(s, f)))
    BY <1>1, <1>2, <1>4, <1>6, <2>1 DEF Succeeds
  <2>2. CASE Fails(c, After(Flagged(s, f)), Q)
    <3>1. PICK u \in Q \cup {flash[c], After(Flagged(s, f))} : flash' = [flash EXCEPT ![c] = u]
      BY <2>2 DEF Fails
    <3>2. u.data = s.data /\ u.crc = s.crc /\ u.flags \in {f, s.flags} \cup Halfway(s.flags, f)
      BY <1>1, <1>2, <1>3, <3>1
    <3> QED BY <1>1, <1>4, <1>6, <2>2, <3>1, <3>2 DEF Fails
  <2> QED BY <1>6, <2>1, <2>2
<1> QED BY <1>5, <1>6 DEF Repair, s, After, P

\* The steps of saveenv stay in saveenv, unless power fails.
LEMMA StepPc ==
    ASSUME NEW c, NEW step, NEW whole, NEW partial, NEW next \in SaveSteps, NEW ok, NEW err,
           Step(step, c, whole, partial, next, ok, err)
    PROVE  pc' \in SaveSteps \cup {"off"}
BY DEF Step, CutOff, SaveSteps

LEMMA SaveStepsPc ==
    ASSUME \/ UnprotectOld \/ UnprotectNew \/ SaveRest \/ EraseNew \/ WriteData \/ WriteCrc
           \/ ObsoleteOld \/ ActivateNew \/ RestoreRest \/ SwapAddresses
    PROVE  pc' \in SaveSteps \cup {"off"}
<1>1. /\ {"protect_new", "malloc", "erase", "data", "crc", "obsolete", "active", "restore", "swap", "Done"}
            \subseteq SaveSteps
      /\ (IF UpData THEN "malloc" ELSE "erase") \in SaveSteps
      /\ (IF UpData THEN "restore" ELSE "swap") \in SaveSteps
  BY DEF SaveSteps
<1>2. CASE UnprotectOld \/ UnprotectNew \/ EraseNew
  BY <1>1, <1>2, StepPc DEF UnprotectOld, UnprotectNew, EraseNew
<1>3. CASE WriteData \/ WriteCrc \/ ObsoleteOld
  BY <1>1, <1>3, StepPc DEF WriteData, WriteCrc, ObsoleteOld
<1>4. CASE ActivateNew \/ RestoreRest
  BY <1>1, <1>4, StepPc DEF ActivateNew, RestoreRest
<1>5. CASE SaveRest \/ SwapAddresses
  BY <1>1, <1>5 DEF SaveRest, SwapAddresses
<1> QED BY <1>2, <1>3, <1>4, <1>5

LEMMA ProtectedSame ==
    ASSUME flash \in [Copies -> Sector]
    PROVE  \A c \in Copies : /\ Protected[c].data = flash[c].data
                             /\ Protected[c].crc = flash[c].crc
                             /\ Protected[c].flags = flash[c].flags
                             /\ Protected[c].rest = flash[c].rest
<1> SUFFICES ASSUME NEW c \in Copies
             PROVE  /\ Protected[c].data = flash[c].data /\ Protected[c].crc = flash[c].crc
                    /\ Protected[c].flags = flash[c].flags /\ Protected[c].rest = flash[c].rest
  OBVIOUS
<1>1. flash[c] \in Sector /\ Protected[c] = [flash[c] EXCEPT !.protected = TRUE]
  BY DEF Protected
<1> QED BY <1>1, SameFields

LEMMA ReadableStep == TypeOK /\ LoadsReadable /\ [Next]_vars => LoadsReadable'
<1> SUFFICES ASSUME TypeOK, LoadsReadable, [Next]_vars PROVE LoadsReadable'
  OBVIOUS
<1>0. flash_addr \in Copies /\ flash_addr_new \in Copies /\ flash \in [Copies -> Sector]
  BY OtherCopy DEF TypeOK, flash_addr_new
<1>1. ASSUME pc' \notin BootSteps PROVE LoadsReadable'
  BY <1>1 DEF LoadsReadable, BootSteps
<1>2. CASE env_init
  <2>1. /\ flash' = Protected /\ env_addr' = Chosen(flash)[1] /\ env_valid' = Chosen(flash)[2]
        /\ pc' = "relocate"
    BY <1>2 DEF env_init
  <2>2. Chosen(flash') = Chosen(flash)
    BY <1>0, <2>1, ProtectedSame, BootedSame
  <2> QED BY <2>1, <2>2, ChosenReadable DEF LoadsReadable, Readable
<1>3. CASE env_relocate_swap
  BY <1>3 DEF env_relocate_swap, LoadsReadable, Readable
<1>4. ASSUME NEW c \in Copies, NEW f, NEW next, Repair(c, f, next),
             next \in {"complete", "load"}, pc \in {"mark", "complete"}
      PROVE  LoadsReadable'
  <2>1. /\ flash_addr' = flash_addr
        /\ \A d \in Copies : flash'[d].data = flash[d].data /\ flash'[d].crc = flash[d].crc
    BY <1>0, <1>4, RepairEffect DEF Copies, Other
  <2>2. CrcOk(flash[flash_addr]) => CrcOk(flash'[flash_addr'])
    BY <1>0, <2>1 DEF CrcOk
  <2>3. pc' \in {"off", "complete", "load"}
    BY <1>0, <1>4, RepairEffect
  <2> QED BY <1>4, <2>2, <2>3 DEF LoadsReadable, Readable
<1>5. ASSUME NEW next, NoRepair(next), next \in {"complete", "load"}, pc \in {"mark", "complete"}
      PROVE  LoadsReadable'
  BY <1>5 DEF NoRepair, LoadsReadable, Readable
<1>6. CASE MarkOther
  BY <1>0, <1>4, <1>5, <1>6 DEF MarkOther
<1>7. CASE CompleteOwn
  BY <1>0, <1>4, <1>5, <1>7 DEF CompleteOwn
<1>8. CASE env_relocate_default \/ Load \/ saveenv \/ Done \/ PowerFails
  BY <1>1, <1>8 DEF env_relocate_default, Load, Loads, saveenv, Done, PowerFails, BootSteps
<1>9. CASE \E e \in Envs : setenv(e)
  BY <1>1, <1>9 DEF setenv, BootSteps
<1>10. CASE \/ UnprotectOld \/ UnprotectNew \/ SaveRest \/ EraseNew \/ WriteData \/ WriteCrc
            \/ ObsoleteOld \/ ActivateNew \/ RestoreRest \/ SwapAddresses
  BY <1>1, <1>10, SaveStepsPc DEF BootSteps, SaveSteps
<1>11. CASE UNCHANGED vars
  BY <1>11 DEF vars, LoadsReadable, Readable
<1> QED
  BY <1>2, <1>3, <1>6, <1>7, <1>8, <1>9, <1>10, <1>11 DEF Next

\* Spec keeps the types.  In particular what a boot loads into RAM is always
\* a complete environment, never a torn one (line 399 of env_flash.c copies
\* only a sector that has passed the CRC test), wherever power has failed and
\* whichever operations have failed: Sound is not assumed.
THEOREM TypeCorrect == Spec => []TypeOK
<1>1. Init => TypeOK /\ LoadsReadable
  <2> SUFFICES ASSUME Init PROVE TypeOK /\ LoadsReadable
    OBVIOUS
  <2>1. [data |-> Garbage, crc |-> Garbage, flags |-> ErasedFlag,
         rest |-> TRUE, protected |-> TRUE] \in Sector
    BY FlagTypes DEF Sector, Content
  <2>2. flash \in [Copies -> Sector]
    BY <2>1 DEF Init
  <2>3. /\ pc = "off" /\ flash_addr \in Copies /\ env_addr \in Copies /\ env_valid = 0
        /\ ram \in Envs /\ rc = 1 /\ committed \in Envs /\ attempts = {}
    BY EnvRedundAssumption DEF Init, Copies
  <2>4. saved_data \in BOOLEAN
    BY Zenon DEF Init
  <2>5. TypeOK
    BY <2>2, <2>3, <2>4 DEF TypeOK
  <2> QED BY <2>3, <2>5 DEF LoadsReadable
<1>2. TypeOK /\ LoadsReadable /\ [Next]_vars => (TypeOK /\ LoadsReadable)'
  BY TypeStep, ReadableStep
<1> QED BY <1>1, <1>2, PTL DEF Spec

-----------------------------------------------------------------------------
(* Crash safety *)

\* In a step of saveenv before the exchange of the copies, the copy in use
\* keeps its data; the step preserves the invariant if the flags still tell
\* which copy counts and the new copy, if readable, holds something expected.
LEMMA SaveMid ==
    ASSUME TypeOK, CrashSafe, pc \in SaveSteps \ {"Done"}, pc' \in SaveSteps \cup {"off"},
           UNCHANGED <<flash_addr, ram, committed, attempts>>,
           pc' = "Done" => rc' # 0,
           flash'[flash_addr].data = old.data, flash'[flash_addr].crc = old.crc,
           \/ \A c \in Copies : /\ flash'[c].data = flash[c].data
                                 /\ flash'[c].crc = flash[c].crc
                                 /\ flash'[c].flags = flash[c].flags
           \/ /\ Tells(flash')
              /\ CrcOk(flash'[flash_addr_new]) =>
                    flash'[flash_addr_new].data \in {committed} \cup attempts
    PROVE  LoadsReadable' /\ Settled' /\ NextBootGood' /\ BootProgress' /\ OwnCommitted'
<1>0. flash_addr \in Copies /\ flash_addr_new = Other(flash_addr)
      /\ \A c \in Copies : c = flash_addr \/ c = flash_addr_new
  BY DEF TypeOK, Copies, flash_addr_new, Other
<1>1. IF CrcOk(old) THEN old.data = committed ELSE committed = default_environment
  BY DEF CrashSafe, OwnCommitted, Readable, old
<1>2. CrcOk(flash'[flash_addr]) <=> CrcOk(old)
  BY DEF CrcOk
<1>3. LoadsReadable' /\ BootProgress'
  BY DEF LoadsReadable, BootProgress, SaveSteps
<1>4. OwnCommitted'
  BY <1>1, <1>2 DEF OwnCommitted, Readable, old
<1>5. Settled' /\ NextBootGood'
  <2>1. CASE \A c \in Copies : /\ flash'[c].data = flash[c].data
                               /\ flash'[c].crc = flash[c].crc
                               /\ flash'[c].flags = flash[c].flags
    <3>1. (Tells(flash') <=> Tells(flash)) /\ Booted(flash') = Booted(flash)
      BY <2>1, BootedSame
    <3> QED BY <3>1 DEF CrashSafe, Settled, NextBootGood
  <2>2. CASE /\ Tells(flash')
             /\ CrcOk(flash'[flash_addr_new]) =>
                   flash'[flash_addr_new].data \in {committed} \cup attempts
    <3> DEFINE E == {committed} \cup attempts
    <3>1. \A c \in Copies : CrcOk(flash'[c]) => flash'[c].data \in E
      BY <1>0, <1>1, <1>2, <2>2
    <3>2. (\A c \in Copies : ~CrcOk(flash'[c])) => default_environment \in E
      BY <1>0, <1>1, <1>2
    <3> HIDE DEF E
    <3>3. Booted(flash') \in E
      BY <2>2, <3>1, <3>2, BootedIn
    <3> QED BY <2>2, <3>3 DEF Settled, NextBootGood, E
  <2> QED BY <2>1, <2>2
<1> QED BY <1>3, <1>4, <1>5

LEMMA Addresses ==
    ASSUME TypeOK
    PROVE  /\ flash \in [Copies -> Sector]
           /\ flash_addr \in Copies /\ flash_addr_new \in Copies
           /\ Other(flash_addr) = flash_addr_new /\ Other(flash_addr_new) = flash_addr
           /\ \A c \in Copies : c = flash_addr \/ c = flash_addr_new
           /\ old \in Sector /\ new \in Sector
           /\ old = flash[flash_addr] /\ new = flash[flash_addr_new]
BY DEF TypeOK, Copies, flash_addr_new, Other, old, new

\* Erasing and writing the new copy.
LEMMA SafeWrite ==
    ASSUME TypeOK, CrashSafe, Sound,
           UnprotectOld \/ UnprotectNew \/ EraseNew \/ WriteData \/ WriteCrc
    PROVE  CrashSafe'
<1> USE Addresses
<1>g. Garbage \notin Envs /\ ram \in Envs /\ rc \in {0, 1}
  BY EnvRedundAssumption DEF TypeOK
<1>1. CASE UnprotectOld
  <2>1. /\ pc = "protect" /\ UNCHANGED <<flash_addr, ram, committed, attempts>>
        /\ flash'[flash_addr_new] = flash[flash_addr_new]
        /\ flash'[flash_addr] \in {old, [old EXCEPT !.protected = FALSE]}
        /\ pc' \in {"protect_new", "Done", "off"} /\ (pc' # "off" => rc' = rc)
    BY <1>1, StepEffect DEF UnprotectOld
  <2>2. /\ flash'[flash_addr].data = old.data /\ flash'[flash_addr].crc = old.crc
        /\ flash'[flash_addr].flags = old.flags
    <3> DEFINE t == [old EXCEPT !.protected = FALSE]
    <3>1. t.data = old.data /\ t.crc = old.crc /\ t.flags = old.flags
      BY SameFields
    <3> QED BY <2>1, <3>1
  <2>3. rc = 1 /\ ram \in attempts
    BY <2>1 DEF CrashSafe, SaveProgress, SaveSteps
  <2>4. LoadsReadable' /\ Settled' /\ NextBootGood' /\ BootProgress' /\ OwnCommitted'
    BY <2>1, <2>2, <2>3, SaveMid DEF SaveSteps
  <2>5. SaveProgress'
    BY <2>1, <2>3 DEF SaveProgress
  <2> QED BY <2>4, <2>5 DEF CrashSafe
<1>2. CASE UnprotectNew
  <2>1. /\ pc = "protect_new" /\ UNCHANGED <<flash_addr, ram, committed, attempts>>
        /\ flash'[flash_addr] = flash[flash_addr]
        /\ flash'[flash_addr_new] \in {new, [new EXCEPT !.protected = FALSE]}
        /\ pc' \in {"malloc", "erase", "Done", "off"} /\ (pc' # "off" => rc' = rc)
    BY <1>2, StepEffect DEF UnprotectNew
  <2>2. /\ flash'[flash_addr_new].data = new.data /\ flash'[flash_addr_new].crc = new.crc
        /\ flash'[flash_addr_new].flags = new.flags
    <3> DEFINE t == [new EXCEPT !.protected = FALSE]
    <3>1. t.data = new.data /\ t.crc = new.crc /\ t.flags = new.flags
      BY SameFields
    <3> QED BY <2>1, <3>1
  <2>3. rc = 1 /\ ram \in attempts
    BY <2>1 DEF CrashSafe, SaveProgress, SaveSteps
  <2>4. LoadsReadable' /\ Settled' /\ NextBootGood' /\ BootProgress' /\ OwnCommitted'
    BY <2>1, <2>2, <2>3, SaveMid DEF SaveSteps
  <2>5. SaveProgress'
    BY <2>1, <2>3 DEF SaveProgress
  <2> QED BY <2>4, <2>5 DEF CrashSafe
<1>3. CASE EraseNew
  <2>1. /\ pc = "erase" /\ UNCHANGED <<flash_addr, ram, committed, attempts>>
        /\ flash'[flash_addr] = flash[flash_addr]
        /\ \/ flash'[flash_addr_new] = Blank(new) /\ pc' = "data"
           \/ flash'[flash_addr_new] \in PartlyBlank(new) \cup {new, Blank(new)} /\ pc' \in {"Done", "off"}
        /\ pc' # "off" => rc' = rc
    BY <1>3, StepEffect DEF EraseNew
  <2>2. \/ flash'[flash_addr_new] = new
        \/ flash'[flash_addr_new].data = Garbage
    BY <2>1, SameFields
  <2>3. rc = 1 /\ ram \in attempts
    BY <2>1 DEF CrashSafe, SaveProgress, SaveSteps
  <2>4. flash'[flash_addr_new].data = Garbage =>
           ~CrcOk(flash'[flash_addr_new]) /\ Tells(flash')
    BY <1>g DEF CrcOk, Tells, Copies
  <2>5. LoadsReadable' /\ Settled' /\ NextBootGood' /\ BootProgress' /\ OwnCommitted'
    <3>1. CASE flash'[flash_addr_new] = new
      BY <2>1, <2>3, <3>1, SaveMid DEF SaveSteps
    <3>2. CASE flash'[flash_addr_new].data = Garbage
      BY <2>1, <2>3, <2>4, <3>2, SaveMid DEF SaveSteps
    <3> QED BY <2>2, <3>1, <3>2
  <2>6. pc' = "data" => NewBlank'
    BY <2>1, SameFields DEF NewBlank, new, flash_addr_new
  <2>7. SaveProgress'
    BY <2>1, <2>3, <2>6 DEF SaveProgress
  <2> QED BY <2>5, <2>7 DEF CrashSafe
<1>4. CASE WriteData
  <2>1. /\ pc = "data" /\ UNCHANGED <<flash_addr, ram, committed, attempts>>
        /\ flash'[flash_addr] = flash[flash_addr]
        /\ \/ flash'[flash_addr_new] = [new EXCEPT !.data = ram] /\ pc' = "crc"
           \/ flash'[flash_addr_new] \in {new, [new EXCEPT !.data = ram]} /\ pc' = "Done" /\ rc' = 1
    BY <1>4, StepEffect DEF WriteData
  <2>2. new.crc = Garbage /\ new.flags = ErasedFlag /\ ram \in attempts
    BY <2>1 DEF CrashSafe, SaveProgress, NewBlank, SaveSteps
  <2>3. /\ flash'[flash_addr_new].crc = Garbage /\ flash'[flash_addr_new].flags = ErasedFlag
        /\ pc' = "crc" => flash'[flash_addr_new].data = ram
    <3> DEFINE t == [new EXCEPT !.data = ram]
    <3>1. t.data = ram /\ t.crc = new.crc /\ t.flags = new.flags
      BY SameFields
    <3> QED BY <2>1, <2>2, <3>1
  <2>4. ~CrcOk(flash'[flash_addr_new]) /\ Tells(flash')
    BY <1>g, <2>3 DEF CrcOk, Tells, Copies
  <2>5. LoadsReadable' /\ Settled' /\ NextBootGood' /\ BootProgress' /\ OwnCommitted'
    BY <2>1, <2>4, SaveMid DEF SaveSteps
  <2>6. SaveProgress'
    BY <2>1, <2>2, <2>3 DEF SaveProgress, NewBlank, new, flash_addr_new
  <2> QED BY <2>5, <2>6 DEF CrashSafe
<1>5. CASE WriteCrc
  <2>1. /\ pc = "crc" /\ UNCHANGED <<flash_addr, ram, committed, attempts>>
        /\ flash'[flash_addr] = flash[flash_addr]
        /\ \/ flash'[flash_addr_new] = [new EXCEPT !.crc = ram] /\ pc' = "obsolete"
           \/ flash'[flash_addr_new] \in {new, [new EXCEPT !.crc = ram]} /\ pc' = "Done" /\ rc' = 1
    BY <1>5, StepEffect DEF WriteCrc
  <2>2. new.data = ram /\ new.flags = ErasedFlag /\ ram \in attempts
    BY <2>1 DEF CrashSafe, SaveProgress, NewBlank, SaveSteps
  <2>3. /\ flash'[flash_addr_new].data = ram /\ flash'[flash_addr_new].flags = ErasedFlag
        /\ pc' = "obsolete" => flash'[flash_addr_new].crc = ram
    <3> DEFINE t == [new EXCEPT !.crc = ram]
    <3>1. t.data = new.data /\ t.crc = ram /\ t.flags = new.flags
      BY SameFields
    <3> QED BY <2>1, <2>2, <3>1
  <2>4. Tells(flash')
    BY <2>3 DEF Tells
  <2>5. LoadsReadable' /\ Settled' /\ NextBootGood' /\ BootProgress' /\ OwnCommitted'
    BY <2>1, <2>2, <2>3, <2>4, SaveMid DEF SaveSteps
  <2>6. SaveProgress'
    BY <1>g, <2>1, <2>2, <2>3 DEF SaveProgress, NewWritten, Readable, CrcOk, new, flash_addr_new
  <2> QED BY <2>5, <2>6 DEF CrashSafe
<1> QED BY <1>1, <1>2, <1>3, <1>4, <1>5

\* The hand-over from the old copy to the new one.
LEMMA SafeHandOver ==
    ASSUME TypeOK, CrashSafe, Sound,
           ObsoleteOld \/ ActivateNew \/ RestoreRest \/ SaveRest
    PROVE  CrashSafe'
<1> USE Addresses
<1>g. ram \in Envs /\ rc \in {0, 1} /\ old.flags \in FlagBytes /\ new.flags \in FlagBytes
  BY SectorFields DEF TypeOK
<1>1. CASE ObsoleteOld
  <2>1. /\ pc = "obsolete" /\ UNCHANGED <<flash_addr, ram, committed, attempts>>
        /\ flash'[flash_addr_new] = flash[flash_addr_new]
        /\ \/ flash'[flash_addr] = Flagged(old, OBSOLETE_FLAG) /\ pc' = "active"
           \/ /\ flash'[flash_addr] \in PartlyFlagged(old, OBSOLETE_FLAG)
                                          \cup {old, Flagged(old, OBSOLETE_FLAG)}
              /\ pc' \in {"Done", "off"} /\ (pc' = "Done" => rc' = 1)
    BY <1>1, StepEffect DEF ObsoleteOld
  <2>2. CrcOk(new) /\ new.data = ram /\ new.flags = ErasedFlag /\ ram \in attempts
    BY <2>1 DEF CrashSafe, SaveProgress, NewWritten, Readable, SaveSteps
  <2>3. /\ flash'[flash_addr].data = old.data /\ flash'[flash_addr].crc = old.crc
        /\ pc' = "active" => flash'[flash_addr].flags = OBSOLETE_FLAG
    BY <2>1, SameFields, PartlyFields
  <2>4. Tells(flash')
    BY <2>1, <2>2 DEF Tells
  <2>5. LoadsReadable' /\ Settled' /\ NextBootGood' /\ BootProgress' /\ OwnCommitted'
    BY <2>1, <2>2, <2>3, <2>4, SaveMid DEF SaveSteps
  <2>6. pc' = "active" => (NewWritten /\ new.flags = ErasedFlag /\ old.flags = OBSOLETE_FLAG)'
    BY <2>1, <2>2, <2>3 DEF NewWritten, Readable, new, old, flash_addr_new
  <2>7. SaveProgress'
    BY <2>1, <2>2, <2>6 DEF SaveProgress
  <2> QED BY <2>5, <2>7 DEF CrashSafe
<1>2. CASE ActivateNew
  <2>0. PartlyFlagged(new, ACTIVE_FLAG) = {}
    BY <1>g, HalfwayFacts DEF PartlyFlagged
  <2>1. /\ pc = "active" /\ UNCHANGED <<flash_addr, ram, committed, attempts>>
        /\ flash'[flash_addr] = flash[flash_addr]
        /\ \/ /\ flash'[flash_addr_new] = Flagged(new, ACTIVE_FLAG)
              /\ pc' = IF UpData THEN "restore" ELSE "swap"
           \/ /\ flash'[flash_addr_new] \in {new, Flagged(new, ACTIVE_FLAG)}
              /\ pc' = "Done" /\ rc' = 1
    BY <1>2, <2>0, StepEffect DEF ActivateNew
  <2>2. /\ CrcOk(new) /\ new.data = ram /\ new.flags = ErasedFlag /\ ram \in attempts
        /\ old.flags = OBSOLETE_FLAG
    BY <2>1 DEF CrashSafe, SaveProgress, NewWritten, Readable, SaveSteps
  <2>3. /\ flash'[flash_addr_new].data = ram /\ flash'[flash_addr_new].crc = ram
        /\ flash'[flash_addr_new].flags \in {ErasedFlag, ACTIVE_FLAG}
        /\ pc' # "Done" => flash'[flash_addr_new].flags = ACTIVE_FLAG
    BY <2>1, <2>2, SameFields DEF CrcOk
  <2>4. Tells(flash')
    BY <2>1, <2>2, <2>3 DEF Tells
  <2>5. LoadsReadable' /\ Settled' /\ NextBootGood' /\ BootProgress' /\ OwnCommitted'
    BY <2>1, <2>2, <2>3, <2>4, SaveMid DEF SaveSteps
  <2>6. pc' # "Done" => (NewWritten /\ new.flags = ACTIVE_FLAG)'
    BY <1>g, <2>1, <2>2, <2>3 DEF NewWritten, Readable, CrcOk, new, flash_addr_new
  <2>7. (old.flags = OBSOLETE_FLAG)'
    BY <2>1, <2>2 DEF old
  <2>8. SaveProgress'
    BY <2>1, <2>2, <2>6, <2>7 DEF SaveProgress
  <2> QED BY <2>5, <2>8 DEF CrashSafe
<1>3. CASE RestoreRest
  <2>1. /\ pc = "restore" /\ UNCHANGED <<flash_addr, ram, committed, attempts, saved_data>>
        /\ flash'[flash_addr] = flash[flash_addr]
        /\ flash'[flash_addr_new] = [new EXCEPT !.rest = saved_data]
        /\ pc' = "swap"
    BY <1>3, StepEffect DEF RestoreRest, Sound
  <2>2. /\ CrcOk(new) /\ new.data = ram /\ new.flags = ACTIVE_FLAG /\ ram \in attempts
        /\ old.flags = OBSOLETE_FLAG
    BY <2>1 DEF CrashSafe, SaveProgress, NewWritten, Readable, SaveSteps
  <2>3. /\ flash'[flash_addr_new].data = new.data /\ flash'[flash_addr_new].crc = new.crc
        /\ flash'[flash_addr_new].flags = new.flags /\ flash'[flash_addr_new].rest = saved_data
    <3> DEFINE t == [new EXCEPT !.rest = saved_data]
    <3>1. t.data = new.data /\ t.crc = new.crc /\ t.flags = new.flags /\ t.rest = saved_data
      BY SameFields
    <3> QED BY <2>1, <3>1
  <2>4. LoadsReadable' /\ Settled' /\ NextBootGood' /\ BootProgress' /\ OwnCommitted'
    BY <2>1, <2>3, SaveMid DEF SaveSteps
  <2>5. (NewWritten /\ new.flags = ACTIVE_FLAG /\ old.flags = OBSOLETE_FLAG /\ new.rest = saved_data)'
    BY <2>1, <2>2, <2>3 DEF NewWritten, Readable, CrcOk, new, old, flash_addr_new
  <2>6. SaveProgress'
    BY <2>1, <2>2, <2>5 DEF SaveProgress
  <2> QED BY <2>4, <2>6 DEF CrashSafe
<1>4. CASE SaveRest
  <2>1. /\ pc = "malloc" /\ UNCHANGED <<flash, flash_addr, ram, committed, attempts, rc>>
        /\ pc' \in {"erase", "Done"}
    BY <1>4 DEF SaveRest
  <2>2. rc = 1 /\ ram \in attempts
    BY <2>1 DEF CrashSafe, SaveProgress, SaveSteps
  <2>3. LoadsReadable' /\ Settled' /\ NextBootGood' /\ BootProgress' /\ OwnCommitted'
    BY <2>1, <2>2, SaveMid DEF SaveSteps
  <2>4. SaveProgress'
    BY <2>1, <2>2 DEF SaveProgress
  <2> QED BY <2>3, <2>4 DEF CrashSafe
<1> QED BY <1>1, <1>2, <1>3, <1>4

\* The end of saveenv, and the commands that leave the flash alone.
LEMMA SafeCommands ==
    ASSUME TypeOK, CrashSafe,
           SwapAddresses \/ Done \/ saveenv \/ PowerFails \/ \E e \in Envs : setenv(e)
    PROVE  CrashSafe'
<1> USE Addresses
<1>1. CASE SwapAddresses
  <2>1. /\ pc = "swap" /\ flash_addr' = flash_addr_new /\ rc' = 0 /\ pc' = "Done"
        /\ UNCHANGED <<flash, ram, saved_data, committed, attempts>>
    BY <1>1 DEF SwapAddresses
  <2>2. /\ CrcOk(new) /\ new.data = ram /\ new.flags = ACTIVE_FLAG /\ ram \in attempts
        /\ old.flags = OBSOLETE_FLAG /\ (UpData => new.rest = saved_data)
    BY <2>1 DEF CrashSafe, SaveProgress, NewWritten, Readable, SaveSteps
  <2>3. flash_addr_new' = flash_addr
    BY <2>1 DEF flash_addr_new
  <2>4. old' = new /\ new' = old
    BY <2>1, <2>3 DEF old, new
  <2>5. SaveProgress'
    BY <2>1, <2>2, <2>4 DEF SaveProgress, Readable
  <2>6. LoadsReadable' /\ Settled' /\ NextBootGood' /\ BootProgress' /\ OwnCommitted'
    BY <2>1 DEF CrashSafe, LoadsReadable, Settled, NextBootGood, BootProgress, OwnCommitted
  <2> QED BY <2>5, <2>6 DEF CrashSafe
<1>2. CASE Done
  <2>1. /\ pc = "Done" /\ pc' = "main" /\ flash' = Protected
        /\ UNCHANGED <<flash_addr, ram, rc>>
        /\ \/ rc = 0 /\ committed' = ram /\ attempts' = {}
           \/ rc # 0 /\ UNCHANGED <<committed, attempts>>
    BY <1>2 DEF Done
  <2>2. (Tells(flash') <=> Tells(flash)) /\ Booted(flash') = Booted(flash)
    BY <2>1, ProtectedSame, BootedSame
  <2>3. CrcOk(flash'[flash_addr]) <=> CrcOk(old)
    BY <2>1, ProtectedSame DEF CrcOk
  <2>4. flash'[flash_addr].data = old.data
    BY <2>1, ProtectedSame
  <2>5. Settled'
    BY <2>2 DEF CrashSafe, Settled
  <2>6. LoadsReadable' /\ BootProgress' /\ SaveProgress'
    BY <2>1 DEF LoadsReadable, BootProgress, SaveProgress, SaveSteps
  <2>7. CASE rc = 0
    <3>1. CrcOk(old) /\ old.data = ram /\ new.flags = OBSOLETE_FLAG
      BY <2>1, <2>7 DEF CrashSafe, SaveProgress, Readable
    <3>2. Booted(flash) = ram
      BY <3>1, BootedOwn DEF CrashSafe, Settled
    <3>3. NextBootGood'
      BY <2>1, <2>2, <2>7, <3>2 DEF NextBootGood
    <3>4. OwnCommitted'
      BY <2>1, <2>3, <2>4, <2>7, <3>1 DEF OwnCommitted, Readable, old
    <3> QED BY <2>5, <2>6, <3>3, <3>4 DEF CrashSafe
  <2>8. CASE rc # 0
    <3>1. IF CrcOk(old) THEN old.data = committed ELSE committed = default_environment
      BY <2>1, <2>8 DEF CrashSafe, OwnCommitted, Readable, SaveSteps
    <3>2. NextBootGood'
      BY <2>1, <2>2, <2>8 DEF CrashSafe, NextBootGood
    <3>3. OwnCommitted'
      BY <2>1, <2>3, <2>4, <2>8, <3>1 DEF OwnCommitted, Readable, old
    <3> QED BY <2>5, <2>6, <3>2, <3>3 DEF CrashSafe
  <2> QED BY <2>7, <2>8
<1>3. CASE saveenv
  <2>1. /\ pc = "main" /\ pc' = "protect" /\ attempts' = attempts \cup {ram} /\ rc' = 1
        /\ UNCHANGED <<flash, flash_addr, ram, committed>>
    BY <1>3 DEF saveenv
  <2>2. LoadsReadable' /\ BootProgress' /\ SaveProgress'
    BY <2>1 DEF LoadsReadable, BootProgress, SaveProgress
  <2>3. Settled' /\ NextBootGood'
    BY <2>1 DEF CrashSafe, Settled, NextBootGood
  <2>4. OwnCommitted'
    BY <2>1 DEF CrashSafe, OwnCommitted, Readable, old
  <2> QED BY <2>2, <2>3, <2>4 DEF CrashSafe
<1>4. CASE PowerFails
  <2>1. pc' = "off" /\ UNCHANGED <<flash, flash_addr, committed, attempts>>
    BY <1>4 DEF PowerFails
  <2>2. Settled' /\ NextBootGood'
    BY <2>1 DEF CrashSafe, Settled, NextBootGood
  <2> QED
    BY <2>1, <2>2 DEF CrashSafe, LoadsReadable, BootProgress, OwnCommitted, SaveProgress, SaveSteps
<1>5. CASE \E e \in Envs : setenv(e)
  <2>1. /\ pc = "main" /\ pc' = "main" /\ UNCHANGED <<flash, flash_addr, committed, attempts>>
    BY <1>5 DEF setenv
  <2>2. Settled' /\ NextBootGood'
    BY <2>1 DEF CrashSafe, Settled, NextBootGood
  <2>3. OwnCommitted'
    BY <2>1 DEF CrashSafe, OwnCommitted, Readable, old
  <2> QED
    BY <2>1, <2>2, <2>3 DEF CrashSafe, LoadsReadable, BootProgress, SaveProgress, SaveSteps
<1> QED BY <1>1, <1>2, <1>3, <1>4, <1>5

\* The boot; its repairs leave what the next boot loads as it is.
LEMMA SafeBoot ==
    ASSUME TypeOK, CrashSafe, Sound,
           env_init \/ env_relocate_default \/ env_relocate_swap \/ MarkOther \/ CompleteOwn \/ Load,
           LoadsReadable'
    PROVE  CrashSafe' /\ Booted(flash') = Booted(flash)
<1> USE Addresses
<1>0. ASSUME pc' \in BootSteps \cup {"off"} PROVE OwnCommitted' /\ SaveProgress'
  BY <1>0 DEF OwnCommitted, SaveProgress, BootSteps, SaveSteps
<1>1. CASE env_init
  <2>1. /\ pc' = "relocate" /\ flash' = Protected /\ UNCHANGED <<committed, attempts>>
        /\ env_addr' = Chosen(flash)[1] /\ env_valid' = Chosen(flash)[2]
    BY <1>1 DEF env_init
  <2>2. /\ Chosen(flash') = Chosen(flash)
        /\ (Tells(flash') <=> Tells(flash)) /\ Booted(flash') = Booted(flash)
    BY <2>1, ProtectedSame, BootedSame
  <2>3. Settled' /\ NextBootGood'
    BY <2>1, <2>2 DEF CrashSafe, Settled, NextBootGood
  <2>4. BootProgress'
    BY <2>1, <2>2, ChosenPair DEF BootProgress
  <2> QED BY <1>0, <2>1, <2>2, <2>3, <2>4 DEF CrashSafe, BootSteps
<1>2. CASE env_relocate_default
  <2>1. /\ pc = "relocate" /\ env_valid = 0 /\ pc' = "main"
        /\ committed' = default_environment /\ attempts' = {} /\ UNCHANGED <<flash, flash_addr>>
    BY <1>2 DEF env_relocate_default, Loads
  <2>2. Chosen(flash)[2] = 0
    BY <2>1 DEF CrashSafe, BootProgress
  <2>3. Booted(flash) = default_environment /\ \A c \in Copies : ~CrcOk(flash[c])
    BY <2>2, BootedSome DEF CrashSafe, Settled
  <2>4. Settled' /\ NextBootGood'
    BY <2>1, <2>3 DEF CrashSafe, Settled, NextBootGood
  <2>5. OwnCommitted'
    BY <2>1, <2>3 DEF OwnCommitted, Readable
  <2> QED BY <2>1, <2>4, <2>5 DEF CrashSafe, BootProgress, SaveProgress, SaveSteps
<1>3. CASE env_relocate_swap
  <2>1. /\ pc = "relocate" /\ env_valid # 0 /\ pc' = "mark" /\ flash_addr' = env_addr
        /\ UNCHANGED <<flash, committed, attempts>>
    BY <1>3 DEF env_relocate_swap
  <2>2. Chosen(flash)[1] = env_addr /\ Chosen(flash)[2] # 0
    BY <2>1 DEF CrashSafe, BootProgress
  <2>3. Settled' /\ NextBootGood' /\ BootProgress'
    BY <2>1, <2>2 DEF CrashSafe, Settled, NextBootGood, BootProgress
  <2> QED BY <1>0, <2>1, <2>3 DEF CrashSafe, BootSteps
<1>4. CASE MarkOther
  <2>0. /\ pc = "mark" /\ CrcOk(old) /\ Tells(flash)
        /\ Chosen(flash)[1] = flash_addr /\ Chosen(flash)[2] # 0
        /\ Booted(flash) \in {committed} \cup attempts
    BY <1>4 DEF MarkOther, CrashSafe, LoadsReadable, Readable, BootProgress, Settled, NextBootGood
  <2>1. Booted(flash) = old.data
    BY <2>0 DEF Booted
  <2>2. CASE new.flags # OBSOLETE_FLAG /\ CrcOk(new)
    <3>1. Repair(flash_addr_new, OBSOLETE_FLAG, "complete")
      BY <1>4, <2>2 DEF MarkOther
    <3>2. /\ UNCHANGED <<flash_addr, committed, attempts>>
          /\ flash'[flash_addr] = old
          /\ flash'[flash_addr_new].data = new.data /\ flash'[flash_addr_new].crc = new.crc
          /\ flash'[flash_addr_new].flags \in {OBSOLETE_FLAG, new.flags} \cup Halfway(new.flags, OBSOLETE_FLAG)
          /\ \/ pc' = "off"
             \/ pc' = "complete" /\ flash'[flash_addr_new].flags = OBSOLETE_FLAG
      BY <2>0, <3>1, RepairEffect DEF Sound
    <3>3. old.flags = ErasedFlag
      BY <2>0, <2>2, BootedSome
    <3>4. Tells(flash') /\ Booted(flash') = old.data
      <4>1. CASE flash'[flash_addr_new].flags = new.flags
        <5>1. (Tells(flash') <=> Tells(flash)) /\ Booted(flash') = Booted(flash)
          BY <3>2, <4>1, BootedSame
        <5> QED BY <2>0, <2>1, <5>1
      <4>2. CASE flash'[flash_addr_new].flags # new.flags
        <5>1. new.flags \in FlagBytes
          BY SectorFields
        <5>2. flash'[flash_addr_new].flags # ErasedFlag
          BY <3>2, <4>2, <5>1, HalfwayFacts DEF OBSOLETE_FLAG, ErasedFlag
        <5> QED BY <2>0, <3>2, <3>3, <5>2, BootedErased
      <4> QED BY <4>1, <4>2
    <3>5. Settled' /\ NextBootGood'
      BY <2>0, <2>1, <3>2, <3>4 DEF Settled, NextBootGood
    <3>6. BootProgress'
      BY <2>0, <3>2 DEF BootProgress, OwnCounts, Readable, new, flash_addr_new
    <3> QED BY <1>0, <2>1, <3>2, <3>4, <3>5, <3>6 DEF CrashSafe, BootSteps
  <2>3. CASE ~(new.flags # OBSOLETE_FLAG /\ CrcOk(new))
    <3>1. pc' = "complete" /\ UNCHANGED <<flash, flash_addr, committed, attempts>>
      BY <1>4, <2>3 DEF MarkOther, NoRepair
    <3>2. Settled' /\ NextBootGood'
      BY <2>0, <3>1 DEF Settled, NextBootGood
    <3>3. BootProgress'
      BY <2>0, <2>3, <3>1 DEF BootProgress, OwnCounts, Readable, new, flash_addr_new
    <3> QED BY <1>0, <3>1, <3>2, <3>3 DEF CrashSafe, BootSteps
  <2> QED BY <2>2, <2>3
<1>5. CASE CompleteOwn
  <2>0. /\ pc = "complete" /\ CrcOk(old) /\ Tells(flash)
        /\ CrcOk(new) => new.flags = OBSOLETE_FLAG
        /\ Booted(flash) \in {committed} \cup attempts
    BY <1>5 DEF CompleteOwn, CrashSafe, BootProgress, OwnCounts, Readable, Settled, NextBootGood
  <2>1. Booted(flash) = old.data
    BY <2>0, BootedOwn
  <2>2. CASE old.flags # ACTIVE_FLAG /\ old.flags % 2 = 1
    <3>1. Repair(flash_addr, ACTIVE_FLAG, "load")
      BY <1>5, <2>2 DEF CompleteOwn
    <3>2. old.flags \in FlagBytes
      BY SectorFields
    <3>3. old.flags = ErasedFlag /\ Halfway(old.flags, ACTIVE_FLAG) = {}
      <4>1. Halfway(old.flags, ACTIVE_FLAG) = {}
        BY <3>2, HalfwayFacts
      <4>2. old.flags \notin TornFlags /\ old.flags # OBSOLETE_FLAG
        BY <2>2 DEF Sound, OBSOLETE_FLAG
      <4> QED BY <2>2, <3>2, <4>1, <4>2 DEF FlagBytes
    <3>4. /\ UNCHANGED <<flash_addr, committed, attempts>>
          /\ flash'[flash_addr_new] = new
          /\ flash'[flash_addr].data = old.data /\ flash'[flash_addr].crc = old.crc
          /\ flash'[flash_addr].flags \in {ACTIVE_FLAG, ErasedFlag}
          /\ pc' \in {"off", "load"}
      BY <2>0, <3>1, <3>3, RepairEffect
    <3>5. CrcOk(flash'[flash_addr])
      BY <2>0, <3>4 DEF CrcOk
    <3>6. Tells(flash')
      <4>1. CrcOk(flash'[flash_addr_new]) => flash'[flash_addr_new].flags = OBSOLETE_FLAG
        BY <2>0, <3>4
      <4>2. (CrcOk(flash'[1]) /\ CrcOk(flash'[2])) => CrcOk(flash'[flash_addr_new])
        BY DEF Copies
      <4> QED BY <3>4, <4>1, <4>2 DEF Tells
    <3>7. Booted(flash') = old.data
      BY <2>0, <3>4, <3>5, <3>6, BootedOwn
    <3>8. Settled' /\ NextBootGood'
      BY <2>0, <2>1, <3>4, <3>6, <3>7 DEF Settled, NextBootGood
    <3>9. BootProgress'
      BY <2>0, <3>4, <3>5 DEF BootProgress, OwnCounts, Readable, new, flash_addr_new
    <3> QED BY <1>0, <2>1, <3>4, <3>7, <3>8, <3>9 DEF CrashSafe, BootSteps
  <2>3. CASE ~(old.flags # ACTIVE_FLAG /\ old.flags % 2 = 1)
    <3>1. pc' = "load" /\ UNCHANGED <<flash, flash_addr, committed, attempts>>
      BY <1>5, <2>3 DEF CompleteOwn, NoRepair
    <3>2. Settled' /\ NextBootGood'
      BY <2>0, <3>1 DEF Settled, NextBootGood
    <3>3. BootProgress'
      BY <2>0, <3>1 DEF BootProgress, OwnCounts, Readable, new, flash_addr_new
    <3> QED BY <1>0, <3>1, <3>2, <3>3 DEF CrashSafe, BootSteps
  <2> QED BY <2>2, <2>3
<1>6. CASE Load
  <2>1. /\ pc = "load" /\ pc' = "main" /\ committed' = old.data /\ attempts' = {}
        /\ UNCHANGED <<flash, flash_addr>>
    BY <1>6 DEF Load, Loads
  <2>2. CrcOk(old) /\ Tells(flash) /\ (CrcOk(new) => new.flags = OBSOLETE_FLAG)
    BY <2>1 DEF CrashSafe, BootProgress, OwnCounts, Readable, Settled
  <2>3. Booted(flash) = old.data
    BY <2>2, BootedOwn
  <2>4. Settled' /\ NextBootGood'
    BY <2>1, <2>2, <2>3 DEF Settled, NextBootGood
  <2>5. OwnCommitted'
    BY <2>1, <2>2 DEF OwnCommitted, Readable, old
  <2> QED BY <2>1, <2>4, <2>5 DEF CrashSafe, BootProgress, SaveProgress, SaveSteps
<1> QED BY <1>1, <1>2, <1>3, <1>4, <1>5, <1>6

LEMMA SafeStep == Sound /\ TypeOK /\ CrashSafe /\ [Next]_vars => CrashSafe'
<1> SUFFICES ASSUME Sound, TypeOK, CrashSafe, [Next]_vars PROVE CrashSafe'
  OBVIOUS
<1>1. LoadsReadable'
  BY ReadableStep DEF CrashSafe
<1>2. CASE UNCHANGED vars
  BY <1>2 DEF vars, CrashSafe, LoadsReadable, Settled, NextBootGood, BootProgress, OwnCounts,
              OwnCommitted, SaveProgress, NewBlank, NewWritten, Readable, old, new, flash_addr_new
<1> QED BY <1>1, <1>2, SafeBoot, SafeWrite, SafeHandOver, SafeCommands DEF Next

LEMMA SafeInit == Init => CrashSafe
<1> SUFFICES ASSUME Init PROVE CrashSafe
  OBVIOUS
<1>1. \A c \in Copies : ~CrcOk(flash[c])
  BY EnvRedundAssumption DEF Init, CrcOk
<1>2. Tells(flash) /\ Booted(flash) = default_environment
  BY <1>1 DEF Tells, Booted, Chosen, Copies
<1> QED
  BY <1>2 DEF Init, CrashSafe, LoadsReadable, Settled, NextBootGood, BootProgress,
              OwnCommitted, SaveProgress, SaveSteps

\* At every point where power may fail, what env_init would choose is what
\* the user can expect.
THEOREM AlwaysCrashSafe == Sound => (Spec => []CrashSafe)
<1> SUFFICES ASSUME Sound PROVE Spec => []CrashSafe
  OBVIOUS
<1>1. CrashSafe /\ TypeOK /\ [Next]_vars => CrashSafe'
  BY SafeStep
<1> QED BY <1>1, SafeInit, TypeCorrect, PTL DEF Spec

\* Whatever saveenv and the boot were doing when power failed, the next boot
\* comes up with the environment last booted or saved, or with one that was
\* being saved since: never with the default one, never with an older one.
THEOREM BackupSurvives == Sound => (Spec => BootLoadsLastSave)
<1> SUFFICES ASSUME Sound PROVE Spec => BootLoadsLastSave
  OBVIOUS
<1>1. ASSUME TypeOK, CrashSafe, [Next]_vars
      PROVE  [(pc \in BootSteps /\ pc' = "main") => ram' \in {committed} \cup attempts]_vars
  <2> SUFFICES ASSUME Next, pc \in BootSteps, pc' = "main"
               PROVE  ram' \in {committed} \cup attempts
    BY <1>1
  <2> USE <1>1, Addresses
  <2>1. CASE env_relocate_default
    <3>1. ram' = default_environment /\ Chosen(flash)[2] = 0
      BY <2>1 DEF env_relocate_default, Loads, CrashSafe, BootProgress
    <3> QED BY <3>1 DEF Booted, CrashSafe, NextBootGood
  <2>2. CASE Load
    <3>1. ram' = old.data /\ Booted(flash) = old.data
      BY <2>2, BootedOwn DEF Load, Loads, CrashSafe, BootProgress, OwnCounts, Readable, Settled
    <3> QED BY <3>1 DEF CrashSafe, NextBootGood
  <2>3. CASE MarkOther \/ CompleteOwn
    BY <2>3, RepairEffect DEF MarkOther, CompleteOwn, NoRepair
  <2>4. CASE env_init \/ env_relocate_swap \/ saveenv \/ Done \/ PowerFails \/ \E e \in Envs : setenv(e)
    BY <2>4 DEF env_init, env_relocate_swap, saveenv, Done, PowerFails, setenv, BootSteps
  <2>5. CASE \/ UnprotectOld \/ UnprotectNew \/ SaveRest \/ EraseNew \/ WriteData \/ WriteCrc
             \/ ObsoleteOld \/ ActivateNew \/ RestoreRest \/ SwapAddresses
    BY <2>5, SaveStepsPc DEF SaveSteps
  <2> QED BY <2>1, <2>2, <2>3, <2>4, <2>5 DEF Next
<1> QED BY <1>1, AlwaysCrashSafe, TypeCorrect, PTL DEF Spec, BootLoadsLastSave

\* When saveenv returns 0, the next boot takes the environment it has saved,
\* and nothing else of the sector is lost.
THEOREM SavedForGood == Sound => (Spec => []SaveIsComplete)
<1> SUFFICES ASSUME Sound PROVE Spec => []SaveIsComplete
  OBVIOUS
<1>1. TypeOK /\ CrashSafe => SaveIsComplete
  <2> SUFFICES ASSUME TypeOK, CrashSafe, pc = "Done", rc = 0
               PROVE  /\ CrcOk(old) /\ old.data = ram
                      /\ Chosen(flash) = <<flash_addr, 1>>
                      /\ UpData => old.rest = saved_data
    BY DEF SaveIsComplete, old
  <2> USE Addresses
  <2>1. /\ CrcOk(old) /\ old.data = ram /\ (UpData => old.rest = saved_data)
        /\ old.flags = ACTIVE_FLAG /\ new.flags = OBSOLETE_FLAG
    BY DEF CrashSafe, SaveProgress, Readable
  <2>2. CASE flash_addr = 1
    <3>1. flash_addr_new = 2
      BY <2>2 DEF flash_addr_new, Other
    <3> QED BY <2>1, <2>2, <3>1 DEF Chosen
  <2>3. CASE flash_addr = 2
    <3>1. flash_addr_new = 1
      BY <2>3 DEF flash_addr_new, Other
    <3> QED BY <2>1, <2>3, <3>1 DEF Chosen, ACTIVE_FLAG, OBSOLETE_FLAG
  <2> QED BY <2>1, <2>2, <2>3 DEF Copies
<1> QED BY <1>1, AlwaysCrashSafe, TypeCorrect, PTL

-----------------------------------------------------------------------------
(* One environment that is replaced in one step *)

\* The old copy counts as long as the new one is not readable.
LEMMA OwnOnly ==
    ASSUME NEW f, NEW c \in Copies, ~CrcOk(f[Other(c)])
    PROVE  Booted(f) = IF CrcOk(f[c]) THEN f[c].data ELSE default_environment
<1>0. Other(1) = 2 /\ Other(2) = 1
  BY DEF Other
<1>1. CASE c = 1
  BY <1>0, <1>1 DEF Booted, Chosen
<1>2. CASE c = 2
  BY <1>0, <1>2 DEF Booted, Chosen
<1> QED BY <1>1, <1>2 DEF Copies

\* Once the old copy is obsolete, the new one counts.
LEMMA NewShown ==
    ASSUME TypeOK, CrashSafe, pc \in {"active", "restore", "swap"}
    PROVE  Booted(flash) = ram
<1> USE Addresses
<1>1. /\ CrcOk(new) /\ new.data = ram /\ old.flags = OBSOLETE_FLAG /\ Tells(flash)
  BY DEF CrashSafe, SaveProgress, NewWritten, Readable, Settled
<1> QED BY <1>1, BootedOwn

\* While the new copy is prepared, an older one of it may be taken back.
LEMMA SavingStep ==
    ASSUME pc \in {"protect", "protect_new", "malloc", "erase", "data"},
           pc' \in {"protect_new", "malloc", "erase", "data", "crc", "Done", "off"},
           pc' = "Done" => rc' # 0,
           UNCHANGED <<ram, committed>>,
           Booted(flash') \in {Booted(flash), committed}
    PROVE  SE!Next \/ UNCHANGED SE!vars
<1>1. Phase = "saving"
  BY DEF Phase, BootSteps
<1>2. CASE pc' = "Done"
  <2>1. Phase' = "failed"
    BY <1>2 DEF Phase, BootSteps
  <2> QED BY <1>1, <2>1 DEF SE!Next, SE!Fail, SE!Interrupted
<1>3. CASE pc' = "off"
  <2>1. Phase' = "off"
    BY <1>3 DEF Phase
  <2> QED BY <1>1, <2>1 DEF SE!Next, SE!PowerFails, SE!Interrupted
<1>4. CASE pc' \notin {"Done", "off"}
  <2>1. Phase' = "saving"
    BY <1>4 DEF Phase, BootSteps
  <2> QED BY <1>1, <2>1 DEF SE!Next, SE!Discard, SE!vars
<1> QED BY <1>2, <1>3, <1>4

LEMMA PrepareShown ==
    ASSUME TypeOK, CrashSafe, UnprotectOld \/ UnprotectNew \/ SaveRest \/ EraseNew \/ WriteData
    PROVE  SE!Next \/ UNCHANGED SE!vars
<1> USE Addresses
<1>g. Garbage \notin Envs
  BY EnvRedundAssumption
<1>0. pc \in {"protect", "protect_new", "malloc", "erase"} => rc = 1
  BY DEF CrashSafe, SaveProgress
<1>1. pc \in SaveSteps \ {"Done"} =>
         IF CrcOk(old) THEN old.data = committed ELSE committed = default_environment
  BY DEF CrashSafe, OwnCommitted, Readable, old
<1>2. CASE UnprotectOld
  <2>1. /\ pc = "protect" /\ UNCHANGED <<ram, committed>>
        /\ flash'[flash_addr_new] = flash[flash_addr_new]
        /\ flash'[flash_addr] \in {old, [old EXCEPT !.protected = FALSE]}
        /\ pc' \in {"protect_new", "Done", "off"} /\ (pc' # "off" => rc' = rc)
    BY <1>2, StepEffect DEF UnprotectOld
  <2>2. /\ flash'[flash_addr].data = old.data /\ flash'[flash_addr].crc = old.crc
        /\ flash'[flash_addr].flags = old.flags
    <3> DEFINE t == [old EXCEPT !.protected = FALSE]
    <3>1. t.data = old.data /\ t.crc = old.crc /\ t.flags = old.flags
      BY SameFields
    <3> QED BY <2>1, <3>1
  <2>3. Booted(flash') = Booted(flash)
    BY <2>1, <2>2, BootedSame
  <2> QED BY <1>0, <2>1, <2>3, SavingStep
<1>3. CASE UnprotectNew
  <2>1. /\ pc = "protect_new" /\ UNCHANGED <<ram, committed>>
        /\ flash'[flash_addr] = flash[flash_addr]
        /\ flash'[flash_addr_new] \in {new, [new EXCEPT !.protected = FALSE]}
        /\ pc' \in {"malloc", "erase", "Done", "off"} /\ (pc' # "off" => rc' = rc)
    BY <1>3, StepEffect DEF UnprotectNew
  <2>2. /\ flash'[flash_addr_new].data = new.data /\ flash'[flash_addr_new].crc = new.crc
        /\ flash'[flash_addr_new].flags = new.flags
    <3> DEFINE t == [new EXCEPT !.protected = FALSE]
    <3>1. t.data = new.data /\ t.crc = new.crc /\ t.flags = new.flags
      BY SameFields
    <3> QED BY <2>1, <3>1
  <2>3. Booted(flash') = Booted(flash)
    BY <2>1, <2>2, BootedSame
  <2> QED BY <1>0, <2>1, <2>3, SavingStep
<1>4. CASE SaveRest
  <2>1. /\ pc = "malloc" /\ UNCHANGED <<flash, ram, committed, rc>> /\ pc' \in {"erase", "Done"}
    BY <1>4 DEF SaveRest
  <2> QED BY <1>0, <2>1, SavingStep
<1>5. CASE EraseNew
  <2>1. /\ pc = "erase" /\ UNCHANGED <<ram, committed>>
        /\ flash'[flash_addr] = flash[flash_addr]
        /\ flash'[flash_addr_new] \in PartlyBlank(new) \cup {new, Blank(new)}
        /\ pc' \in {"data", "Done", "off"} /\ (pc' # "off" => rc' = rc)
    BY <1>5, StepEffect DEF EraseNew
  <2>2. Booted(flash') \in {Booted(flash), committed}
    <3>1. CASE flash'[flash_addr_new] = new
      BY <2>1, <3>1, BootedSame
    <3>2. CASE flash'[flash_addr_new] # new
      <4>1. ~ CrcOk(flash'[flash_addr_new])
        BY <1>g, <2>1, <3>2, SameFields DEF CrcOk
      <4>2. Booted(flash') = IF CrcOk(old) THEN old.data ELSE default_environment
        BY <2>1, <4>1, OwnOnly
      <4> QED BY <1>1, <2>1, <4>2 DEF SaveSteps
    <3> QED BY <3>1, <3>2
  <2> QED BY <1>0, <2>1, <2>2, SavingStep
<1>6. CASE WriteData
  <2>1. /\ pc = "data" /\ UNCHANGED <<ram, committed>>
        /\ flash'[flash_addr] = flash[flash_addr]
        /\ flash'[flash_addr_new] \in {new, [new EXCEPT !.data = ram]}
        /\ pc' \in {"crc", "Done", "off"} /\ (pc' = "Done" => rc' = 1)
    BY <1>6, StepEffect DEF WriteData
  <2>2. new.crc = Garbage
    BY <2>1 DEF CrashSafe, SaveProgress, NewBlank
  <2>3. ~ CrcOk(flash'[flash_addr_new])
    <3> DEFINE t == [new EXCEPT !.data = ram]
    <3>1. t.crc = new.crc
      BY SameFields
    <3> QED BY <1>g, <2>1, <2>2, <3>1 DEF CrcOk
  <2>4. Booted(flash') = IF CrcOk(old) THEN old.data ELSE default_environment
    BY <2>1, <2>3, OwnOnly
  <2>5. Booted(flash') = committed
    BY <1>1, <2>1, <2>4 DEF SaveSteps
  <2> QED BY <2>1, <2>5, SavingStep
<1> QED BY <1>2, <1>3, <1>4, <1>5, <1>6

\* The write of the CRC, or of the old copy's flag, is the step that replaces.
LEMMA ReplaceShown ==
    ASSUME TypeOK, CrashSafe, CrashSafe', WriteCrc \/ ObsoleteOld
    PROVE  SE!Next \/ UNCHANGED SE!vars
<1> USE Addresses
<1>0. Tells(flash')
  BY DEF CrashSafe, Settled
<1>1. pc \in {"crc", "obsolete"} =>
         IF CrcOk(old) THEN old.data = committed ELSE committed = default_environment
  BY DEF CrashSafe, OwnCommitted, Readable, old, SaveSteps
<1>2. ASSUME pc \in {"crc", "obsolete"}, CrcOk(flash'[flash_addr]) <=> CrcOk(old),
             flash'[flash_addr].data = old.data, flash'[flash_addr_new].data = ram
      PROVE  Booted(flash') \in {committed, ram}
  <2> DEFINE E == {committed, ram}
  <2>1. \A c \in Copies : CrcOk(flash'[c]) => flash'[c].data \in E
    BY <1>1, <1>2
  <2>2. (\A c \in Copies : ~CrcOk(flash'[c])) => default_environment \in E
    BY <1>1, <1>2
  <2> HIDE DEF E
  <2>3. Booted(flash') \in E
    BY <1>0, <2>1, <2>2, BootedIn
  <2> QED BY <2>3 DEF E
<1>3. CASE WriteCrc
  <2>1. /\ pc = "crc" /\ UNCHANGED <<ram, committed>>
        /\ flash'[flash_addr] = flash[flash_addr]
        /\ flash'[flash_addr_new] \in {new, [new EXCEPT !.crc = ram]}
        /\ pc' = "obsolete" \/ (pc' = "Done" /\ rc' = 1)
    BY <1>3, StepEffect DEF WriteCrc
  <2>2. flash'[flash_addr_new].data = ram
    <3> DEFINE t == [new EXCEPT !.crc = ram]
    <3>1. t.data = new.data
      BY SameFields
    <3>2. new.data = ram
      BY <2>1 DEF CrashSafe, SaveProgress
    <3> QED BY <2>1, <3>1, <3>2
  <2>3. Booted(flash') \in {committed, ram}
    BY <1>2, <2>1, <2>2
  <2>4. Phase = "saving"
    BY <2>1 DEF Phase, BootSteps
  <2>5. CASE pc' = "obsolete"
    <3>1. Phase' = IF Booted(flash') = ram THEN "replaced" ELSE "saving"
      BY <2>1, <2>5 DEF Phase, BootSteps
    <3> QED BY <2>1, <2>3, <2>4, <3>1 DEF SE!Next, SE!Replace, SE!Discard
  <2>6. CASE pc' = "Done"
    <3>1. Phase' = "failed"
      BY <2>1, <2>6 DEF Phase, BootSteps
    <3> QED BY <2>1, <2>3, <2>4, <3>1 DEF SE!Next, SE!Fail, SE!Interrupted
  <2> QED BY <2>1, <2>5, <2>6
<1>4. CASE ObsoleteOld
  <2>1. /\ pc = "obsolete" /\ UNCHANGED <<ram, committed>>
        /\ flash'[flash_addr_new] = flash[flash_addr_new]
        /\ \/ flash'[flash_addr] = Flagged(old, OBSOLETE_FLAG) /\ pc' = "active"
           \/ /\ flash'[flash_addr] \in PartlyFlagged(old, OBSOLETE_FLAG)
                                          \cup {old, Flagged(old, OBSOLETE_FLAG)}
              /\ pc' \in {"Done", "off"} /\ (pc' = "Done" => rc' = 1)
    BY <1>4, StepEffect DEF ObsoleteOld
  <2>2. CrcOk(new) /\ new.data = ram /\ new.flags = ErasedFlag
    BY <2>1 DEF CrashSafe, SaveProgress, NewWritten, Readable
  <2>3. /\ flash'[flash_addr].data = old.data /\ flash'[flash_addr].crc = old.crc
        /\ flash'[flash_addr].flags \in {old.flags, OBSOLETE_FLAG} \cup Halfway(old.flags, OBSOLETE_FLAG)
        /\ pc' = "active" => flash'[flash_addr].flags = OBSOLETE_FLAG
    BY <2>1, SameFields, PartlyFields
  <2>4. Booted(flash') \in {committed, ram}
    BY <1>2, <2>1, <2>2, <2>3 DEF CrcOk
  <2>5. flash'[flash_addr].flags # ErasedFlag => Booted(flash') = ram
    BY <2>1, <2>2, BootedErased
  <2>6. Booted(flash) = ram => Booted(flash') = ram
    <3>1. CASE flash'[flash_addr].flags = old.flags
      BY <2>1, <2>3, <3>1, BootedSame
    <3>2. CASE flash'[flash_addr].flags # old.flags
      <4>1. old.flags \in FlagBytes
        BY SectorFields
      <4>2. flash'[flash_addr].flags # ErasedFlag
        BY <2>3, <3>2, <4>1, HalfwayFacts DEF OBSOLETE_FLAG, ErasedFlag
      <4> QED BY <2>5, <4>2
    <3> QED BY <3>1, <3>2
  <2>7. Phase = IF Booted(flash) = ram THEN "replaced" ELSE "saving"
    BY <2>1 DEF Phase, BootSteps
  <2>8. CASE pc' = "active"
    <3>1. Phase' = "replaced"
      BY <2>8 DEF Phase, BootSteps
    <3>2. Booted(flash') = ram
      BY <2>3, <2>5, <2>8 DEF OBSOLETE_FLAG, ErasedFlag
    <3> QED BY <2>1, <2>7, <3>1, <3>2 DEF SE!Next, SE!Replace, SE!vars
  <2>9. CASE pc' = "Done"
    <3>1. Phase' = "failed"
      BY <2>1, <2>9 DEF Phase, BootSteps
    <3> QED BY <2>1, <2>4, <2>6, <2>7, <3>1 DEF SE!Next, SE!Fail, SE!Interrupted
  <2>10. CASE pc' = "off"
    <3>1. Phase' = "off"
      BY <2>10 DEF Phase
    <3> QED BY <2>1, <2>4, <2>6, <2>7, <3>1 DEF SE!Next, SE!PowerFails, SE!Interrupted
  <2> QED BY <2>1, <2>8, <2>9, <2>10
<1> QED BY <1>3, <1>4

\* From then on nothing changes what the next boot loads.
LEMMA ReplacedShown ==
    ASSUME TypeOK, CrashSafe, CrashSafe', Sound, ActivateNew \/ RestoreRest \/ SwapAddresses \/ Done
    PROVE  SE!Next \/ UNCHANGED SE!vars
<1> USE Addresses
<1>0. Tells(flash')
  BY DEF CrashSafe, Settled
<1>1. CASE ActivateNew
  <2>0. PartlyFlagged(new, ACTIVE_FLAG) = {}
    BY SectorFields, HalfwayFacts DEF PartlyFlagged
  <2>1. /\ pc = "active" /\ UNCHANGED <<ram, committed>>
        /\ flash'[flash_addr] = flash[flash_addr]
        /\ flash'[flash_addr_new] \in {new, Flagged(new, ACTIVE_FLAG)}
        /\ pc' \in {"restore", "swap"} \/ (pc' = "Done" /\ rc' = 1)
    BY <1>1, <2>0, StepEffect DEF ActivateNew
  <2>2. CrcOk(new) /\ new.data = ram /\ old.flags = OBSOLETE_FLAG
    BY <2>1 DEF CrashSafe, SaveProgress, NewWritten, Readable
  <2>3. CrcOk(flash'[flash_addr_new]) /\ flash'[flash_addr_new].data = ram
    BY <2>1, <2>2, SameFields DEF CrcOk
  <2>4. Booted(flash') = ram /\ Booted(flash) = ram
    BY <1>0, <2>1, <2>2, <2>3, BootedOwn, NewShown
  <2>5. Phase = "replaced"
    BY <2>1 DEF Phase, BootSteps
  <2>6. CASE pc' = "Done"
    <3>1. Phase' = "failed"
      BY <2>1, <2>6 DEF Phase, BootSteps
    <3> QED BY <2>1, <2>4, <2>5, <3>1 DEF SE!Next, SE!Fail, SE!Interrupted
  <2>7. CASE pc' \in {"restore", "swap"}
    <3>1. Phase' = "replaced"
      BY <2>7 DEF Phase, BootSteps
    <3> QED BY <2>1, <2>4, <2>5, <3>1 DEF SE!vars
  <2> QED BY <2>1, <2>6, <2>7
<1>2. CASE RestoreRest
  <2>1. /\ pc = "restore" /\ pc' = "swap" /\ UNCHANGED <<ram, committed>>
        /\ flash'[flash_addr] = flash[flash_addr]
        /\ flash'[flash_addr_new] = [new EXCEPT !.rest = saved_data]
    BY <1>2, StepEffect DEF RestoreRest, Sound
  <2>2. /\ flash'[flash_addr_new].data = new.data /\ flash'[flash_addr_new].crc = new.crc
        /\ flash'[flash_addr_new].flags = new.flags
    <3> DEFINE t == [new EXCEPT !.rest = saved_data]
    <3>1. t.data = new.data /\ t.crc = new.crc /\ t.flags = new.flags
      BY SameFields
    <3> QED BY <2>1, <3>1
  <2>3. Booted(flash') = Booted(flash)
    BY <2>1, <2>2, BootedSame
  <2>4. Phase = "replaced" /\ Phase' = "replaced"
    BY <2>1 DEF Phase, BootSteps
  <2> QED BY <2>1, <2>3, <2>4 DEF SE!vars
<1>3. CASE SwapAddresses
  <2>1. pc = "swap" /\ pc' = "Done" /\ rc' = 0 /\ UNCHANGED <<flash, ram, committed>>
    BY <1>3 DEF SwapAddresses
  <2>2. Phase = "replaced" /\ Phase' = "replaced"
    BY <2>1 DEF Phase, BootSteps
  <2> QED BY <2>1, <2>2 DEF SE!vars
<1>4. CASE Done
  <2>1. /\ pc = "Done" /\ pc' = "main" /\ flash' = Protected /\ UNCHANGED ram
        /\ committed' = IF rc = 0 THEN ram ELSE committed
    BY <1>4 DEF Done
  <2>2. Booted(flash') = Booted(flash)
    BY <2>1, ProtectedSame, BootedSame
  <2>3. Phase = (IF rc = 0 THEN "replaced" ELSE "failed") /\ Phase' = "main"
    BY <2>1 DEF Phase, BootSteps
  <2> QED BY <2>1, <2>2, <2>3 DEF SE!Next, SE!Succeed, SE!Return
<1> QED BY <1>1, <1>2, <1>3, <1>4

LEMMA BootShown ==
    ASSUME TypeOK, CrashSafe, Sound, LoadsReadable',
           env_init \/ env_relocate_default \/ env_relocate_swap \/ MarkOther \/ CompleteOwn \/ Load
    PROVE  SE!Next \/ UNCHANGED SE!vars
<1> USE Addresses
<1>0. Booted(flash') = Booted(flash)
  BY SafeBoot
<1>1. CASE env_relocate_default
  <2>1. pc = "relocate" /\ pc' = "main" /\ Chosen(flash)[2] = 0
        /\ ram' = default_environment /\ committed' = default_environment
    BY <1>1 DEF env_relocate_default, Loads, CrashSafe, BootProgress
  <2>2. Phase = "off" /\ Phase' = "main"
    BY <2>1 DEF Phase, BootSteps
  <2> QED BY <1>0, <2>1, <2>2 DEF SE!Next, SE!Boot, Booted
<1>2. CASE Load
  <2>1. pc = "load" /\ pc' = "main" /\ ram' = old.data /\ committed' = old.data
    BY <1>2 DEF Load, Loads, old
  <2>2. Booted(flash) = old.data
    BY <2>1, BootedOwn DEF CrashSafe, BootProgress, OwnCounts, Readable, Settled
  <2>3. Phase = "off" /\ Phase' = "main"
    BY <2>1 DEF Phase, BootSteps
  <2> QED BY <1>0, <2>1, <2>2, <2>3 DEF SE!Next, SE!Boot
<1>3. CASE env_init \/ env_relocate_swap \/ MarkOther \/ CompleteOwn
  <2>1. /\ pc \in {"off"} \cup BootSteps /\ pc' \in {"off"} \cup BootSteps
        /\ UNCHANGED <<ram, committed>>
    <3>1. CASE env_init \/ env_relocate_swap
      BY <3>1 DEF env_init, env_relocate_swap, BootSteps
    <3>2. CASE MarkOther \/ CompleteOwn
      BY <3>2, RepairEffect DEF MarkOther, CompleteOwn, NoRepair, BootSteps
    <3> QED BY <1>3, <3>1, <3>2
  <2>2. Phase = "off" /\ Phase' = "off"
    BY <2>1 DEF Phase
  <2> QED BY <1>0, <2>1, <2>2 DEF SE!vars
<1> QED BY <1>1, <1>2, <1>3

LEMMA ShownStep ==
    ASSUME Sound, TypeOK, CrashSafe, [Next]_vars
    PROVE  [SE!Next]_SE!vars
<1>0. CrashSafe' /\ LoadsReadable'
  BY SafeStep DEF CrashSafe
<1>1. CASE saveenv
  <2>1. /\ pc = "main" /\ pc' = "protect" /\ UNCHANGED <<flash, ram, committed>>
    BY <1>1 DEF saveenv
  <2>2. Phase = "main" /\ Phase' = "saving"
    BY <2>1 DEF Phase, BootSteps
  <2> QED BY <2>1, <2>2 DEF SE!Next, SE!Begin
<1>2. CASE \E e \in Envs : setenv(e)
  <2>1. PICK e \in Envs : setenv(e)
    BY <1>2
  <2>2. Phase = "main" /\ Phase' = "main"
    BY <2>1 DEF setenv, Phase, BootSteps
  <2> QED BY <2>1, <2>2 DEF setenv, SE!Next, SE!Set
<1>3. CASE PowerFails
  <2>1. Phase' = "off" /\ UNCHANGED <<flash, ram, committed>>
    BY <1>3 DEF PowerFails, Phase
  <2> QED BY <2>1 DEF SE!Next, SE!PowerFails, SE!Interrupted, SE!vars
<1>4. CASE UNCHANGED vars
  <2>1. UNCHANGED <<pc, rc, flash, ram, committed>>
    BY <1>4 DEF vars
  <2> QED BY <2>1 DEF SE!vars, Phase
<1> QED BY <1>0, <1>1, <1>2, <1>3, <1>4, PrepareShown, ReplaceShown, ReplacedShown, BootShown DEF Next

\* saveenv is atomic: for the user of a board whose power may fail at any point of
\* saveenv and of the repairs of a boot, and whose flash operations may fail, there
\* is one environment, which is replaced as a whole and only by saveenv.
THEOREM SaveIsAtomic == Sound => (Spec => ImplementsSavedEnvironment)
<1> SUFFICES ASSUME Sound PROVE Spec => SE!Spec
  BY DEF ImplementsSavedEnvironment
<1>1. Init => SE!Init
  <2> SUFFICES ASSUME Init PROVE SE!Init
    OBVIOUS
  <2>1. \A c \in Copies : ~CrcOk(flash[c])
    BY EnvRedundAssumption DEF Init, CrcOk
  <2>2. Booted(flash) = default_environment
    BY <2>1 DEF Booted, Chosen, Copies
  <2> QED BY <2>2 DEF Init, SE!Init, Phase
<1>2. TypeOK /\ CrashSafe /\ [Next]_vars => [SE!Next]_SE!vars
  BY ShownStep
<1> QED BY <1>1, <1>2, AlwaysCrashSafe, TypeCorrect, PTL DEF Spec, SE!Spec

-----------------------------------------------------------------------------
(* Protection *)

\* flash_init protects both sectors; during the boot only a repair takes the
\* protection away, and gives it back.
ProtectedSinceBoot ==
    pc \in {"main"} \cup BootSteps => \A c \in Copies : flash[c].protected

LEMMA RepairProtects ==
    ASSUME flash \in [Copies -> Sector], NEW c \in Copies, NEW f, NEW next, Repair(c, f, next),
           \A d \in Copies : flash[d].protected
    PROVE  pc' = "off" \/ (pc' = next /\ \A d \in Copies : flash'[d].protected)
<1> DEFINE s == [flash[c] EXCEPT !.protected = FALSE]
           After(t) == [t EXCEPT !.protected = TRUE]
           P == PartlyFlagged(s, f)
           Q == {After(t) : t \in P}
<1>1. flash[c] \in Sector
  OBVIOUS
<1>2. After(Flagged(s, f)).protected /\ \A u \in Q : u.protected
  BY <1>1 DEF Sector, Flagged, PartlyFlagged
<1>3. \A u : /\ [flash EXCEPT ![c] = u][c] = u
             /\ [flash EXCEPT ![c] = u][Other(c)] = flash[Other(c)]
  BY Replaced
<1>4. \A d \in Copies : d = c \/ d = Other(c)
  BY DEF Copies, Other
<1>5. ASSUME NEW u, u.protected, flash' = [flash EXCEPT ![c] = u]
      PROVE  \A d \in Copies : flash'[d].protected
  BY <1>3, <1>4, <1>5
<1> HIDE DEF s, After, P, Q
<1>6. CASE CutOff(c, P \cup {s, Flagged(s, f)})
  BY <1>6 DEF CutOff
<1>7. CASE /\ \/ Succeeds(c, After(Flagged(s, f)))
              \/ Fails(c, After(Flagged(s, f)), Q)
           /\ pc' = next
  BY <1>2, <1>5, <1>7 DEF Succeeds, Fails
<1> QED BY <1>6, <1>7 DEF Repair, s, After, P, Q

LEMMA ProtectedStep ==
    ASSUME TypeOK, ProtectedSinceBoot, [Next]_vars
    PROVE  ProtectedSinceBoot'
<1>0. flash_addr \in Copies /\ flash_addr_new \in Copies /\ flash \in [Copies -> Sector]
  BY OtherCopy DEF TypeOK, flash_addr_new
<1>1. \A c \in Copies : Protected[c].protected
  <2> SUFFICES ASSUME NEW c \in Copies PROVE Protected[c].protected
    OBVIOUS
  <2>1. flash[c] \in Sector /\ Protected[c] = [flash[c] EXCEPT !.protected = TRUE]
    BY <1>0 DEF Protected
  <2> QED BY <2>1 DEF Sector
<1>2. CASE env_init \/ Done
  BY <1>1, <1>2 DEF env_init, Done, ProtectedSinceBoot
<1>3. CASE MarkOther \/ CompleteOwn
  <2>1. \A c \in Copies : flash[c].protected
    BY <1>3 DEF MarkOther, CompleteOwn, ProtectedSinceBoot, BootSteps
  <2>2. ASSUME NEW c \in Copies, NEW f, NEW next, Repair(c, f, next)
        PROVE  ProtectedSinceBoot'
    BY <1>0, <2>1, <2>2, RepairProtects DEF ProtectedSinceBoot, BootSteps
  <2>3. ASSUME NEW next, NoRepair(next)
        PROVE  ProtectedSinceBoot'
    BY <2>1, <2>3 DEF NoRepair, ProtectedSinceBoot
  <2> QED BY <1>0, <1>3, <2>2, <2>3 DEF MarkOther, CompleteOwn
<1>4. CASE env_relocate_default \/ env_relocate_swap \/ Load \/ \E e \in Envs : setenv(e)
  BY <1>4 DEF env_relocate_default, env_relocate_swap, Load, Loads, setenv, ProtectedSinceBoot, BootSteps
<1>5. CASE saveenv \/ PowerFails
  BY <1>5 DEF saveenv, PowerFails, ProtectedSinceBoot, BootSteps
<1>6. CASE \/ UnprotectOld \/ UnprotectNew \/ SaveRest \/ EraseNew \/ WriteData \/ WriteCrc
           \/ ObsoleteOld \/ ActivateNew \/ RestoreRest \/ SwapAddresses
  BY <1>6, SaveStepsPc DEF ProtectedSinceBoot, BootSteps, SaveSteps
<1>7. CASE UNCHANGED vars
  BY <1>7 DEF vars, ProtectedSinceBoot
<1> QED BY <1>2, <1>3, <1>4, <1>5, <1>6, <1>7 DEF Next

\* Whatever fails in saveenv before it protects the sectors again, or in the
\* repairs of a boot, and wherever power has failed before, both sectors are
\* protected when a command can be typed: every path of saveenv goes through Done,
\* where protecting succeeds.  Sound is not assumed.
THEOREM AlwaysProtected == Spec => []ProtectedAtPrompt
<1>1. Init => ProtectedSinceBoot
  BY DEF Init, ProtectedSinceBoot, BootSteps
<1>2. TypeOK /\ ProtectedSinceBoot /\ [Next]_vars => ProtectedSinceBoot'
  BY ProtectedStep
<1>3. ProtectedSinceBoot => ProtectedAtPrompt
  BY DEF ProtectedSinceBoot, ProtectedAtPrompt
<1> QED BY <1>1, <1>2, <1>3, TypeCorrect, PTL DEF Spec
=============================================================================
