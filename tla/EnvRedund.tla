------------------------------ MODULE EnvRedund ------------------------------
(***************************************************************************)
(* The environment kept in two copies in NOR flash: the branches of        *)
(* common/env_flash.c for CFG_ENV_ADDR_REDUND, and env_relocate of         *)
(* common/env_common.c.  Power may fail between any two flash operations   *)
(* and inside each of them, during saveenv and during the repair that the  *)
(* next boot makes; an operation may also report failure.                  *)
(*                                                                         *)
(* An environment is a value of Envs.  The CRC field of a copy is the      *)
(* environment it is the checksum of, so a copy passes the CRC test when   *)
(* data and crc are the same environment; Garbage, what an unfinished or   *)
(* failed operation leaves, never passes it.  The environment in RAM has a *)
(* right CRC here: module Environment is about the RAM copy.  Programming  *)
(* only clears bits, so a flag byte can be left half-way between its old   *)
(* and its new value.                                                      *)
(***************************************************************************)
EXTENDS Integers

CONSTANTS
    Envs,           \* environments
    default_environment,
    Garbage,        \* content that is no environment
    TornFlags,      \* flag bytes, other than 0, 1 and 255, that programming
                    \* may leave behind when it is cut off
    Failing,        \* the steps that may report failure
    UpData          \* CFG_ENV_SECT_SIZE > CFG_ENV_SIZE

ACTIVE_FLAG   == 1
OBSOLETE_FLAG == 0
ErasedFlag    == 255

Steps == {"protect", "protect_new", "malloc", "erase", "data", "crc",
          "obsolete", "active", "restore", "mark", "complete"}

ASSUME EnvRedundAssumption ==
    /\ default_environment \in Envs
    /\ Garbage \notin Envs
    /\ TornFlags \subseteq 2 .. 254
    /\ Failing \subseteq Steps
    /\ UpData \in BOOLEAN

Copies     == {1, 2}
Other(c)   == 3 - c
FlagBytes  == {OBSOLETE_FLAG, ACTIVE_FLAG, ErasedFlag} \cup TornFlags
Content    == Envs \cup {Garbage}
Sector     == [data : Content, crc : Content, flags : FlagBytes,
               rest : BOOLEAN, protected : BOOLEAN]

VARIABLES
    pc,             \* "off", a step of the boot, "main", or a step of saveenv
    flash,          \* the sector of each copy; rest: what shares the sector
                    \* with the environment is in place
    flash_addr,     \* the copy in use; flash_addr_new is the other one
    env_addr,       \* the copy env_init has chosen
    env_valid,
    ram,            \* *env_ptr
    rc,
    saved_data,     \* rest of the sector, as it was copied to RAM
    \* what the user can expect
    committed,      \* last environment that was booted or saved without error
    attempts        \* environments that saveenv has begun to save since then

vars == <<pc, flash, flash_addr, env_addr, env_valid, ram, rc, saved_data,
          committed, attempts>>

flash_addr_new == Other(flash_addr)

CrcOk(s) == s.data \in Envs /\ s.crc = s.data

SaveSteps == {"protect", "protect_new", "malloc", "erase", "data", "crc",
              "obsolete", "active", "restore", "swap", "Done"}
BootSteps == {"relocate", "mark", "complete", "load"}

\* Every variable ranges over the values its declaration allows; in particular
\* env_relocate never puts into RAM what a cut-off flash operation has left.
TypeOK ==
    /\ pc \in {"off", "main"} \cup BootSteps \cup SaveSteps
    /\ flash \in [Copies -> Sector]
    /\ flash_addr \in Copies
    /\ env_addr \in Copies
    /\ env_valid \in 0 .. 2
    /\ ram \in Envs
    /\ rc \in {0, 1}
    /\ saved_data \in BOOLEAN
    /\ committed \in Envs
    /\ attempts \subseteq Envs

-----------------------------------------------------------------------------
(* Flash operations.  An operation on copy c takes its sector to `whole`;  *)
(* one that is cut off leaves one of the sectors in `partial`.             *)

Blank(s) == [s EXCEPT !.data = Garbage, !.crc = Garbage,
                      !.flags = ErasedFlag, !.rest = FALSE]

PartlyBlank(s) == {[s EXCEPT !.data = Garbage, !.crc = x, !.flags = f, !.rest = FALSE] :
                       x \in {s.crc, Garbage}, f \in {s.flags, ErasedFlag}}

\* Flag bytes between old and new: bits are cleared, never set, and bit 0 is
\* cleared only on the way to OBSOLETE_FLAG.
Halfway(old, new) ==
    {f \in TornFlags \cup {ACTIVE_FLAG} :
        /\ new < f /\ f < old
        /\ new = ACTIVE_FLAG => f % 2 = 1
        /\ old % 2 = 0 => f % 2 = 0}

Flagged(s, new)       == [s EXCEPT !.flags = new]
PartlyFlagged(s, new) == {[s EXCEPT !.flags = f] : f \in Halfway(s.flags, new)}

Protected == [c \in Copies |-> [flash[c] EXCEPT !.protected = TRUE]]

\* The operation succeeds.
Succeeds(c, whole) == flash' = [flash EXCEPT ![c] = whole]

\* It reports failure: ERR_PROTECTED, a time-out, a verify error.
Fails(c, whole, partial) ==
    /\ pc \in Failing
    /\ \E s \in partial \cup {flash[c], whole} : flash' = [flash EXCEPT ![c] = s]

\* Power fails while it is under way.
CutOff(c, partial) ==
    /\ \E s \in partial : flash' = [flash EXCEPT ![c] = s]
    /\ pc' = "off"
    /\ UNCHANGED <<flash_addr, env_addr, env_valid, ram, rc, saved_data,
                   committed, attempts>>

-----------------------------------------------------------------------------
(* Boot *)

\* Mistake: a copy whose flag was not programmed yet is not provided for.
ChosenByActiveFlag(f) ==
    LET ok1 == CrcOk(f[1])    flag1 == f[1].flags
        ok2 == CrcOk(f[2])    flag2 == f[2].flags
    IN  IF ok1 /\ (~ok2 \/ flag1 = ACTIVE_FLAG) THEN <<1, 1>>
        ELSE IF ok2 /\ (~ok1 \/ flag2 = ACTIVE_FLAG) THEN <<2, 1>>
        ELSE <<1, 0>>

\* The copy env_init takes, and gd->env_valid; 0 where no branch applies.
Chosen(f) ==
    LET ok1 == CrcOk(f[1])    flag1 == f[1].flags
        ok2 == CrcOk(f[2])    flag2 == f[2].flags
    IN  IF ok1 /\ ~ok2 THEN <<1, 1>>
        ELSE IF ~ok1 /\ ok2 THEN <<2, 1>>
        ELSE IF ~ok1 /\ ~ok2 THEN <<1, 0>>
        ELSE IF flag1 = ACTIVE_FLAG /\ flag2 = OBSOLETE_FLAG THEN <<1, 1>>
        ELSE IF flag1 = OBSOLETE_FLAG /\ flag2 = ACTIVE_FLAG THEN <<2, 1>>
        ELSE IF flag1 = flag2 THEN <<1, 2>>
        ELSE IF flag1 = ErasedFlag THEN <<1, 2>>
        ELSE IF flag2 = ErasedFlag THEN <<2, 2>>
        ELSE <<1, 0>>

\* RAM is lost: flash_addr is what the image initialises it to.  Before
\* env_relocate, flash_init protects both sectors.
env_init ==
    /\ pc = "off"
    /\ flash' = Protected
    /\ env_addr' = Chosen(flash)[1]
    /\ env_valid' = Chosen(flash)[2]
    /\ flash_addr' = 1
    /\ pc' = "relocate"
    /\ UNCHANGED <<ram, rc, saved_data, committed, attempts>>

\* The environment comes up; it is now what the user relies on.
Loads(e) ==
    /\ ram' = e
    /\ committed' = e
    /\ attempts' = {}
    /\ pc' = "main"

env_relocate_default ==
    /\ pc = "relocate" /\ env_valid = 0
    /\ Loads(default_environment)
    /\ env_valid' = 1
    /\ UNCHANGED <<flash, flash_addr, env_addr, rc, saved_data>>

env_relocate_swap ==
    /\ pc = "relocate" /\ env_valid # 0
    /\ flash_addr' = env_addr
    /\ pc' = "mark"
    /\ UNCHANGED <<flash, env_addr, env_valid, ram, rc, saved_data, committed, attempts>>

\* The repairs.  Their result is not looked at; the sector is unprotected
\* before and protected after each.
Repair(c, flag, next) ==
    LET s == [flash[c] EXCEPT !.protected = FALSE]
        After(t) == [t EXCEPT !.protected = TRUE]
    IN  \/ /\ \/ Succeeds(c, After(Flagged(s, flag)))
              \/ Fails(c, After(Flagged(s, flag)),
                       {After(t) : t \in PartlyFlagged(s, flag)})
           /\ env_valid' = 2
           /\ pc' = next
           /\ UNCHANGED <<flash_addr, env_addr, ram, rc, saved_data, committed, attempts>>
        \/ CutOff(c, PartlyFlagged(s, flag) \cup {s, Flagged(s, flag)})

NoRepair(next) ==
    /\ pc' = next
    /\ UNCHANGED <<flash, flash_addr, env_addr, env_valid, ram, rc, saved_data,
                   committed, attempts>>

MarkOther ==
    /\ pc = "mark"
    /\ IF flash[flash_addr_new].flags # OBSOLETE_FLAG /\ CrcOk(flash[flash_addr_new])
       THEN Repair(flash_addr_new, OBSOLETE_FLAG, "complete")
       ELSE NoRepair("complete")

CompleteOwn ==
    /\ pc = "complete"
    /\ IF flash[flash_addr].flags # ACTIVE_FLAG /\ flash[flash_addr].flags % 2 = 1
       THEN Repair(flash_addr, ACTIVE_FLAG, "load")
       ELSE NoRepair("load")

Load ==
    /\ pc = "load"
    /\ Loads(flash[flash_addr].data)
    /\ UNCHANGED <<flash, flash_addr, env_addr, env_valid, rc, saved_data>>

-----------------------------------------------------------------------------
(* Commands *)

setenv(e) ==
    /\ pc = "main"
    /\ ram' = e
    /\ UNCHANGED <<pc, flash, flash_addr, env_addr, env_valid, rc, saved_data,
                   committed, attempts>>

saveenv ==
    /\ pc = "main"
    /\ attempts' = attempts \cup {ram}
    /\ rc' = 1
    /\ saved_data' = FALSE
    /\ pc' = "protect"
    /\ UNCHANGED <<flash, flash_addr, env_addr, env_valid, ram, committed>>

\* A step of saveenv that works on the flash sector c: the next one is `next`,
\* or Done with error code err.
Step(step, c, whole, partial, next, ok, err) ==
    /\ pc = step
    /\ \/ /\ Succeeds(c, whole)
          /\ rc' = ok /\ pc' = next
          /\ UNCHANGED <<flash_addr, env_addr, env_valid, ram, saved_data,
                         committed, attempts>>
       \/ /\ Fails(c, whole, partial)
          /\ rc' = err /\ pc' = "Done"
          /\ UNCHANGED <<flash_addr, env_addr, env_valid, ram, saved_data,
                         committed, attempts>>
       \/ CutOff(c, partial)

old == flash[flash_addr]
new == flash[flash_addr_new]

\* Mistakes the properties catch: an error returns without the clean-up at
\* Done; the old copy stays active; the rest of the sector is forgotten; the
\* copies are not exchanged.
ObsoleteOldForgotten == pc = "obsolete" /\ NoRepair("active")

EraseNewReturns ==
    /\ pc = "erase"
    /\ \/ Succeeds(flash_addr_new, Blank(new)) /\ pc' = "data"
       \/ Fails(flash_addr_new, Blank(new), {}) /\ pc' = "main"
    /\ UNCHANGED <<flash_addr, env_addr, env_valid, ram, rc, saved_data,
                   committed, attempts>>

RestoreRestForgotten == pc = "restore" /\ NoRepair("swap")

SwapAddressesNext ==
    /\ pc = "swap"
    /\ flash_addr' = flash_addr + 1
    /\ rc' = 0
    /\ pc' = "Done"
    /\ UNCHANGED <<flash, env_addr, env_valid, ram, saved_data, committed, attempts>>

UnprotectOld == Step("protect", flash_addr,
                     [old EXCEPT !.protected = FALSE], {}, "protect_new", rc, rc)

UnprotectNew == Step("protect_new", flash_addr_new,
                     [new EXCEPT !.protected = FALSE], {},
                     IF UpData THEN "malloc" ELSE "erase", rc, rc)

SaveRest ==
    /\ pc = "malloc"
    /\ \/ saved_data' = new.rest /\ pc' = "erase"
       \/ "malloc" \in Failing /\ pc' = "Done" /\ UNCHANGED saved_data
    /\ UNCHANGED <<flash, flash_addr, env_addr, env_valid, ram, rc, committed, attempts>>

EraseNew == Step("erase", flash_addr_new, Blank(new), PartlyBlank(new), "data", rc, rc)

WriteData == Step("data", flash_addr_new, [new EXCEPT !.data = ram], {},
                  "crc", 0, 1)

WriteCrc == Step("crc", flash_addr_new, [new EXCEPT !.crc = ram], {},
                 "obsolete", 0, 1)

ObsoleteOld == Step("obsolete", flash_addr,
                    Flagged(old, OBSOLETE_FLAG), PartlyFlagged(old, OBSOLETE_FLAG),
                    "active", 0, 1)

ActivateNew == Step("active", flash_addr_new,
                    Flagged(new, ACTIVE_FLAG), PartlyFlagged(new, ACTIVE_FLAG),
                    IF UpData THEN "restore" ELSE "swap", 0, 1)

\* rc is still the result of the last flash_write when restoring fails.
RestoreRest == Step("restore", flash_addr_new, [new EXCEPT !.rest = saved_data], {},
                    "swap", rc, rc)

SwapAddresses ==
    /\ pc = "swap"
    /\ flash_addr' = flash_addr_new
    /\ rc' = 0
    /\ pc' = "Done"
    /\ UNCHANGED <<flash, env_addr, env_valid, ram, saved_data, committed, attempts>>

Done ==
    /\ pc = "Done"
    /\ flash' = Protected
    /\ saved_data' = FALSE
    /\ IF rc = 0 THEN committed' = ram /\ attempts' = {}
                 ELSE UNCHANGED <<committed, attempts>>
    /\ pc' = "main"
    /\ UNCHANGED <<flash_addr, env_addr, env_valid, ram, rc>>

PowerFails ==
    /\ pc # "off"
    /\ pc' = "off"
    /\ UNCHANGED <<flash, flash_addr, env_addr, env_valid, ram, rc, saved_data,
                   committed, attempts>>

-----------------------------------------------------------------------------
\* A board as it leaves the programmer: both sectors are erased.
Init ==
    /\ pc = "off"
    /\ flash = [c \in Copies |-> [data |-> Garbage, crc |-> Garbage, flags |-> ErasedFlag,
                                  rest |-> TRUE, protected |-> TRUE]]
    /\ flash_addr = 1 /\ env_addr = 1 /\ env_valid = 0
    /\ ram = default_environment
    /\ rc = 1 /\ saved_data = FALSE
    /\ committed = default_environment /\ attempts = {}

Next ==
    \/ env_init \/ env_relocate_default \/ env_relocate_swap
    \/ MarkOther \/ CompleteOwn \/ Load
    \/ (\E e \in Envs : setenv(e)) \/ saveenv
    \/ UnprotectOld \/ UnprotectNew \/ SaveRest \/ EraseNew
    \/ WriteData \/ WriteCrc \/ ObsoleteOld \/ ActivateNew
    \/ RestoreRest \/ SwapAddresses \/ Done
    \/ PowerFails

Spec == Init /\ [][Next]_vars

-----------------------------------------------------------------------------
(* Why a power failure is survived, under the conditions below: the flags  *)
(* of two readable copies always tell which one counts, and what counts is *)
(* an environment the user can expect.                                     *)

\* Where the protection holds: saveenv's last write and the boot's write to
\* the other copy succeed, and ACTIVE_FLAG is programmed in one piece.
Sound == /\ Failing \cap {"restore", "mark"} = {}
         /\ \A f \in TornFlags : f % 2 = 0

Readable(c) == CrcOk(flash[c])

\* The flags of two readable copies tell which one counts.
Tells(f) ==
    CrcOk(f[1]) /\ CrcOk(f[2]) =>
        \E c \in Copies : \/ f[c].flags = ErasedFlag
                         \/ /\ f[c].flags = ACTIVE_FLAG
                            /\ f[Other(c)].flags = OBSOLETE_FLAG

Settled == Tells(flash)

Booted(f) == IF Chosen(f)[2] = 0 THEN default_environment ELSE f[Chosen(f)[1]].data

NextBootGood == Booted(flash) \in {committed} \cup attempts

\* What a boot loads has passed the CRC test; holds without Sound.
LoadsReadable ==
    /\ pc = "relocate" /\ env_valid # 0 => Readable(env_addr)
    /\ pc \in {"mark", "complete", "load"} => Readable(flash_addr)

\* The copy in use is readable, and the other one does not count.
OwnCounts == /\ Readable(flash_addr)
             /\ Readable(flash_addr_new) => new.flags = OBSOLETE_FLAG

BootProgress ==
    /\ pc = "relocate" => <<env_addr, env_valid>> = Chosen(flash)
    /\ pc = "mark" => Chosen(flash)[1] = flash_addr /\ Chosen(flash)[2] # 0
    /\ pc \in {"complete", "load"} => OwnCounts

\* Until the copies are exchanged, the one in use holds what is committed.
OwnCommitted ==
    pc \in {"main"} \cup SaveSteps /\ ~(pc = "Done" /\ rc = 0) =>
        IF Readable(flash_addr) THEN old.data = committed
                                ELSE committed = default_environment

NewBlank   == new.crc = Garbage /\ new.flags = ErasedFlag
NewWritten == Readable(flash_addr_new) /\ new.data = ram

SaveProgress ==
    /\ pc \in SaveSteps => ram \in attempts
    /\ pc \in {"protect", "protect_new", "malloc", "erase"} => rc = 1
    /\ pc = "data" => NewBlank
    /\ pc = "crc" => NewBlank /\ new.data = ram
    /\ pc \in {"obsolete", "active"} => NewWritten /\ new.flags = ErasedFlag
    /\ pc \in {"active", "restore", "swap"} => old.flags = OBSOLETE_FLAG
    /\ pc \in {"restore", "swap"} => NewWritten /\ new.flags = ACTIVE_FLAG
    /\ pc = "swap" /\ UpData => new.rest = saved_data
    /\ pc = "Done" /\ rc = 0 =>
          /\ Readable(flash_addr) /\ old.data = ram
          /\ old.flags = ACTIVE_FLAG /\ new.flags = OBSOLETE_FLAG
          /\ UpData => old.rest = saved_data

\* The inductive invariant behind BootLoadsLastSave.  At every point where
\* power may fail, env_init would choose a copy with an environment the user
\* can expect; and each step of saveenv and of the repair finds the flags as
\* the step before has left them.
CrashSafe == /\ LoadsReadable /\ Settled /\ NextBootGood
             /\ BootProgress /\ OwnCommitted /\ SaveProgress

-----------------------------------------------------------------------------
(* Properties *)

\* The second copy is there "so that there is a valid backup copy in case
\* there is a power failure during a saveenv operation" (README, on
\* CFG_ENV_ADDR_REDUND): whenever power fails, the next boot comes up with
\* the environment last booted or saved, or with one that saveenv has begun
\* to save since.  In particular it never falls back to the default environment.
BootLoadsLastSave ==
    [][(pc \in BootSteps /\ pc' = "main") => ram' \in {committed} \cup attempts]_vars

\* When saveenv reports success, the copy in use holds the environment, passes
\* env_init's test, is the one the next boot takes, and what shares its
\* sector is as it was.
SaveIsComplete ==
    pc = "Done" /\ rc = 0 =>
        /\ CrcOk(flash[flash_addr]) /\ flash[flash_addr].data = ram
        /\ Chosen(flash) = <<flash_addr, 1>>
        /\ UpData => flash[flash_addr].rest = saved_data

\* Where saveenv is, seen from outside: its environment counts from the write of
\* the CRC on, or from the next one on when the old copy's flag is still erased.
Phase ==
    IF pc \in {"off"} \cup BootSteps THEN "off"
    ELSE IF pc = "main" THEN "main"
    ELSE IF pc = "Done" THEN IF rc = 0 THEN "replaced" ELSE "failed"
    ELSE IF \/ pc \in {"active", "restore", "swap"}
            \/ pc = "obsolete" /\ Booted(flash) = ram
         THEN "replaced" ELSE "saving"

SE == INSTANCE SavedEnvironment
        WITH phase <- Phase, store <- Booted(flash), last <- committed

\* The two copies together are one environment that saveenv replaces in one
\* step: power failures and errors at any step of saveenv, and of the repairs
\* that the boots after them make, never show anything in between, and no repair
\* changes what the next boot loads.
ImplementsSavedEnvironment == SE!Spec

\* Whatever path saveenv or the boot has taken, both sectors are protected
\* when a command can be typed ("try to re-protect").  That try itself, whose
\* result the code ignores, always succeeds here.
ProtectedAtPrompt == pc = "main" => \A c \in Copies : flash[c].protected
=============================================================================
