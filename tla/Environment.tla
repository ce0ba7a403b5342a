----------------------------- MODULE Environment -----------------------------
(***************************************************************************)
(* The environment in RAM and its single copy in flash, as the ap93 board  *)
(* builds it: setenv of common/cmd_nvedit.c, the branches of               *)
(* common/env_flash.c without CFG_ENV_ADDR_REDUND, env_relocate of         *)
(* common/env_common.c, the values board_init_r and setenv derive from it, *)
(* and console_init_r, which enters the console devices at every boot.     *)
(* The environment shares its flash sector with U-Boot itself.             *)
(*                                                                         *)
(* The data bytes are the function from variables to values they encode;   *)
(* a CRC is the data it was computed over.  A value has a size, the length *)
(* of its whole entry with the terminating zero; variable names are of one *)
(* length.  Left out: deleting baudrate (setenv then reads argv[2], a null *)
(* pointer), and the variable ethact, which the network code keeps.        *)
(***************************************************************************)
EXTENDS Integers, FiniteSetsExt

CONSTANTS
    Vars,               \* names of variables that are used
    Values,             \* their values
    NoValue,            \* the variable is not defined
    Size,               \* value -> length of an entry with that value
    ENV_SIZE,
    Supported,          \* the values that are in baudrate_table, or name a device
    serial,             \* the first device of the list
    default_environment,
    EqualsInName,       \* names of the form "var=..." are used as well
    Garbage             \* what an unfinished flash operation leaves

Data == [Vars -> Values \cup {NoValue}]

ASSUME EnvironmentAssumption ==
    /\ NoValue \notin Values
    /\ Size \in [Values -> Nat \ {0}]
    /\ ENV_SIZE \in Nat
    /\ Supported \subseteq Values
    /\ serial \in Supported
    /\ default_environment \in Data
    /\ Garbage \notin Data
    /\ EqualsInName \in BOOLEAN

OneTime  == Vars \cap {"serial#", "ethaddr"}
Console  == Vars \cap {"stdin", "stdout", "stderr"}
Mirrored == Vars \cap {"ethaddr", "ipaddr", "loadaddr", "bootfile"}

VARIABLES
    pc,             \* "off", a step of the boot, "main" or a step of saveenv
    data,           \* env_ptr->data
    crc,            \* env_ptr->crc
    mirror,         \* bd->bi_enetaddr, bd->bi_ip_addr, load_addr, BootFile
    enetaddr,       \* address of the first Ethernet device, or NoValue: the one
                    \* in its EEPROM (none at all after "setenv ethaddr")
    baudrate,       \* gd->baudrate, or NoValue: CONFIG_BAUDRATE
    stdio,          \* stdio_devices[]
    flash,          \* the sector
    env_buffer,     \* saveenv's copy of the sector
    \* what the user can expect
    stored,         \* environment the next boot should load; Garbage after a
                    \* flash operation went wrong, or a saveenv after an overflow
    fault,          \* one has gone wrong, or power has failed before the sector
                    \* was written back
    overflowed,     \* setenv has deleted an entry whose new value does not fit,
                    \* and changed no other since
    late            \* variables that were not defined when setenv was called for
                    \* them, since the last boot

ramVars == <<data, crc, mirror, enetaddr, baudrate, stdio, overflowed>>
vars    == <<pc, ramVars, flash, env_buffer, stored, fault, late>>

Sector == [data : Data \cup {Garbage}, crc : Data \cup {Garbage}, rest : BOOLEAN,
           protected : BOOLEAN]

\* Every variable ranges over the values its declaration allows; in particular
\* what runs in RAM is always an environment, never what an unfinished saveenv
\* has left in flash (env_init's and env_relocate's test of the CRC).
TypeOK ==
    /\ pc \in {"off", "relocate", "stdin", "stdout", "stderr", "main", "unprotect", "erase", "write", "protect"}
    /\ data \in Data /\ crc \in Data
    /\ mirror \in [Mirrored -> Values \cup {NoValue}]
    /\ enetaddr \in Values \cup {NoValue}
    /\ baudrate \in Values \cup {NoValue}
    /\ stdio \in [Console -> Values \cup {NoValue}]
    /\ flash \in Sector /\ env_buffer \in Sector
    /\ stored \in Data \cup {Garbage}
    /\ fault \in BOOLEAN /\ overflowed \in BOOLEAN
    /\ late \subseteq Vars

-----------------------------------------------------------------------------
(* setenv *)

Defined(d) == {v \in Vars : d[v] # NoValue}
Used(d)    == MapThenSumSet(LAMBDA v : Size[d[v]], Defined(d))

\* "name" + "=" + "val" + "\0\0" does not fit behind the other entries.
Overflow(d, x) == Used(d) + Size[x] + 1 > ENV_SIZE

\* An existing definition that may not be touched, or whose new value is not
\* accepted.  The tests compare the whole argument, so they see no variable
\* in an argument that contains '='.
Refused(v, exact, x, assigned) ==
    /\ data[v] # NoValue /\ exact
    /\ \/ v \in OneTime
       \/ v \in Console /\ (x = NoValue \/ ~assigned)
       \/ v = "baudrate" /\ x \notin Supported

\* Mistake: a deletion does not update the CRC.
CrcAfterAppend(set, full, x) == IF full \/ x = NoValue THEN crc ELSE set

\* env_crc_update comes last, and at the end of a deletion; not after an overflow.
CrcAfter(set, full, x) == IF full THEN crc ELSE set

\* Mistake: a new value for an existing definition is not copied.
CopiedOnce(v, exact, x, full) ==
    IF x # NoValue /\ ~full /\ exact /\ v \in Mirrored /\ data[v] = NoValue
    THEN [mirror EXCEPT ![v] = x] ELSE mirror

\* A definition that has been appended is copied to where it is used.
Copied(v, exact, x, full) ==
    IF x # NoValue /\ ~full /\ exact /\ v \in Mirrored THEN [mirror EXCEPT ![v] = x] ELSE mirror

\* setenv v x; x is NoValue for "setenv v".  exact: argv[1] is the name; else
\* it is "v=...", which envmatch takes for v too.  assigned: console_assign
\* finds the device.
setenv(v, exact, x, assigned) ==
    LET existed == data[v] # NoValue
        deleted == [data EXCEPT ![v] = NoValue]
        full    == x # NoValue /\ Overflow(deleted, x)
        set     == [data EXCEPT ![v] = x]
    IN  IF Refused(v, exact, x, assigned)
        THEN UNCHANGED ramVars
        ELSE /\ data' = IF full THEN deleted ELSE set
             /\ crc' = CrcAfter(set, full, x)
             /\ overflowed' = (full /\ (overflowed \/ existed))
             /\ stdio' = IF existed /\ exact /\ v \in Console THEN [stdio EXCEPT ![v] = x]
                                                              ELSE stdio
             /\ baudrate' = IF existed /\ exact /\ v = "baudrate" THEN x ELSE baudrate
             /\ enetaddr' = IF exact /\ v = "ethaddr" THEN x ELSE enetaddr
             /\ mirror' = Copied(v, exact, x, full)

do_setenv ==
    /\ pc = "main"
    /\ \E v \in Vars, exact \in {TRUE, ~EqualsInName}, x \in Values \cup {NoValue},
          assigned \in BOOLEAN :
           /\ assigned = (x \in Supported)
           /\ v = "baudrate" => x # NoValue
           /\ setenv(v, exact, x, assigned)
           /\ late' = IF data[v] = NoValue THEN late \cup {v} ELSE late
    /\ UNCHANGED <<pc, flash, env_buffer, stored, fault>>

-----------------------------------------------------------------------------
(* saveenv *)

\* Mistake: only the environment is written back.
saveenvAlone ==
    /\ pc = "main"
    /\ env_buffer' = [flash EXCEPT !.data = data, !.crc = crc, !.rest = FALSE]
    /\ pc' = "unprotect"
    /\ UNCHANGED <<ramVars, flash, stored, fault, late>>

\* The sector is copied, and the environment laid over it.
saveenv ==
    /\ pc = "main"
    /\ env_buffer' = [flash EXCEPT !.data = data, !.crc = crc]
    /\ pc' = "unprotect"
    /\ UNCHANGED <<ramVars, flash, stored, fault, late>>

Spoilt == [data |-> Garbage, crc |-> Garbage, rest |-> FALSE, protected |-> FALSE]

\* saveenv returns; its buffer was on the stack.
Returns == pc' = "main" /\ env_buffer' = Spoilt

Unprotect ==
    /\ pc = "unprotect"
    /\ \/ flash' = [flash EXCEPT !.protected = FALSE] /\ pc' = "erase" /\ UNCHANGED env_buffer
       \/ flash' = flash /\ Returns
    /\ UNCHANGED <<ramVars, stored, fault, late>>

\* The environment is the last part of the sector to be written.
Torn   == [data |-> Garbage, crc |-> env_buffer.crc, rest |-> env_buffer.rest, protected |-> FALSE]

\* An error returns with the sector unprotected.
Erase ==
    /\ pc = "erase"
    /\ \/ flash' = Spoilt /\ pc' = "write" /\ UNCHANGED <<fault, env_buffer>>
       \/ flash' \in {flash, Spoilt} /\ Returns /\ fault' = TRUE
    /\ stored' = IF flash' = Spoilt THEN Garbage ELSE stored
    /\ UNCHANGED <<ramVars, late>>

\* rcode is 0 when the buffer has been written; the data is then stored, if
\* its CRC is not that of before an overflow.
Write ==
    /\ pc = "write"
    /\ \/ /\ flash' = [env_buffer EXCEPT !.protected = FALSE]
          /\ stored' = (IF overflowed THEN Garbage ELSE data) /\ UNCHANGED fault
       \/ flash' \in {Spoilt, Torn} /\ fault' = TRUE /\ UNCHANGED stored
    /\ pc' = "protect"
    /\ UNCHANGED <<ramVars, env_buffer, late>>

\* Without power nothing is left in RAM.
RamLost ==
    /\ pc' = "off"
    /\ data' = default_environment /\ crc' = default_environment
    /\ mirror' = [v \in Mirrored |-> NoValue]
    /\ enetaddr' = NoValue /\ baudrate' = NoValue
    /\ stdio' = [v \in Console |-> NoValue]
    /\ env_buffer' = Spoilt
    /\ overflowed' = FALSE /\ late' = {}

\* Power fails while the sector is erased or written.
CutOff ==
    /\ \/ pc = "erase" /\ flash' = Spoilt
       \/ pc = "write" /\ flash' = Torn
    /\ stored' = Garbage /\ fault' = TRUE
    /\ RamLost

Reprotect ==
    /\ pc = "protect"
    /\ flash' = [flash EXCEPT !.protected = TRUE]
    /\ Returns
    /\ UNCHANGED <<ramVars, stored, fault, late>>

PowerFails ==
    /\ pc # "off"
    /\ RamLost
    /\ fault' = (fault \/ pc = "write")
    /\ UNCHANGED <<flash, stored>>

-----------------------------------------------------------------------------
(* Boot.  A board whose sector was not restored does not come up again.    *)

CrcOk == flash.data \in Data /\ flash.crc = flash.data

env_init ==
    /\ pc = "off" /\ flash.rest
    /\ pc' = "relocate"
    /\ UNCHANGED <<ramVars, flash, env_buffer, stored, fault, late>>

Loaded == IF CrcOk THEN flash.data ELSE default_environment

\* Mistake: the CRC is not tested.
env_relocateUnchecked ==
    /\ pc = "relocate"
    /\ data' = flash.data /\ crc' = flash.crc
    /\ mirror' = [v \in Mirrored |-> Loaded[v]]
    /\ baudrate' = IF "baudrate" \in Vars THEN Loaded["baudrate"] ELSE NoValue
    /\ stdio' = [v \in Console |-> serial]
    /\ stored' = flash.data
    /\ pc' = "stdin"
    /\ UNCHANGED <<enetaddr, overflowed, late, flash, env_buffer, fault>>

\* env_relocate, and what board_init_f and board_init_r take from the environment.
env_relocate ==
    /\ pc = "relocate"
    /\ data' = Loaded /\ crc' = Loaded
    /\ mirror' = [v \in Mirrored |-> Loaded[v]]
    /\ enetaddr' = NoValue
    /\ baudrate' = IF "baudrate" \in Vars THEN Loaded["baudrate"] ELSE NoValue
    /\ stdio' = [v \in Console |-> serial]
    /\ stored' = Loaded
    /\ overflowed' = FALSE /\ late' = {}
    /\ pc' = "stdin"
    /\ UNCHANGED <<flash, env_buffer, fault>>

\* console_init_r enters the first device under its three names.
console_init_r ==
    /\ pc \in {"stdin", "stdout", "stderr"}
    /\ IF pc \in Vars THEN setenv(pc, TRUE, serial, TRUE) ELSE UNCHANGED ramVars
    /\ pc' = CASE pc = "stdin"  -> "stdout"
              [] pc = "stdout" -> "stderr"
              [] pc = "stderr" -> "main"
    /\ UNCHANGED <<flash, env_buffer, stored, fault, late>>

\* The environment was saved once, at the factory.
Init ==
    /\ pc = "off"
    /\ data = default_environment /\ crc = default_environment
    /\ mirror = [v \in Mirrored |-> NoValue]
    /\ enetaddr = NoValue /\ baudrate = NoValue
    /\ stdio = [v \in Console |-> NoValue]
    /\ env_buffer = Spoilt
    /\ overflowed = FALSE /\ late = {}
    /\ flash = [data |-> default_environment, crc |-> default_environment,
                rest |-> TRUE, protected |-> TRUE]
    /\ stored = default_environment /\ fault = FALSE

Next == do_setenv \/ saveenv \/ Unprotect \/ Erase \/ Write \/ Reprotect
        \/ CutOff \/ PowerFails \/ env_init \/ env_relocate \/ console_init_r

Spec == Init /\ [][Next]_vars

-----------------------------------------------------------------------------
(* Properties *)

\* A boot loads the environment the last successful saveenv has stored: the
\* CRC field is "CRC32 over data bytes" (include/environment.h) whenever
\* saveenv writes it.  Not so directly after a setenv that has deleted an entry
\* because its new value does not fit: that one returns with the old CRC.
SavedIsLoaded ==
    [][pc = "relocate" /\ pc' = "stdin" /\ stored # Garbage => data' = stored]_vars

\* "Some variables should be updated when the corresponding entry in the
\* enviornment is changed" (cmd_nvedit.c): what is in use is what printenv shows,
\* for the copies in bd_t, load_addr and BootFile always; for the baud rate and
\* the console devices unless the variable was not defined before (setenv then
\* applies it at the next boot only); for the Ethernet device unless it has its
\* address from the EEPROM, as after every boot.
InUse ==
    pc = "main" =>
      \A v \in Vars : data[v] # NoValue =>
        /\ v \in Mirrored => mirror[v] = data[v]
        /\ v = "baudrate" /\ v \notin late => baudrate = data[v]
        /\ v \in Console \ late => stdio[v] = data[v]
        /\ v = "ethaddr" => enetaddr \in {NoValue, data[v]}

\* As long as no flash operation goes wrong and power does not fail between
\* erasing and writing, no sequence of commands and resets loses U-Boot's own
\* part of the sector.
RestKept == ~fault /\ pc # "write" => flash.rest
=============================================================================
