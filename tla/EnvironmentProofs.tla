-------------------------- MODULE EnvironmentProofs --------------------------
(***************************************************************************)
(* The environment in RAM and in the sector it shares with U-Boot, for any *)
(* variables, values, sizes and default environment.                       *)
(***************************************************************************)
EXTENDS Environment, TLAPS

-----------------------------------------------------------------------------
(* Type correctness *)

\* What setenv leaves in RAM, the console devices included.
LEMMA SetenvType ==
    ASSUME TypeOK, NEW v \in Vars, NEW exact \in BOOLEAN, NEW x \in Values \cup {NoValue},
           NEW assigned \in BOOLEAN, setenv(v, exact, x, assigned)
    PROVE  /\ data' \in Data /\ crc' \in Data
           /\ mirror' \in [Mirrored -> Values \cup {NoValue}]
           /\ enetaddr' \in Values \cup {NoValue}
           /\ baudrate' \in Values \cup {NoValue}
           /\ stdio' \in [Console -> Values \cup {NoValue}]
           /\ overflowed' \in BOOLEAN
<1>1. CASE Refused(v, exact, x, assigned)
  BY <1>1 DEF setenv, TypeOK, ramVars
<1>2. CASE ~Refused(v, exact, x, assigned)
  <2>1. [data EXCEPT ![v] = NoValue] \in Data /\ [data EXCEPT ![v] = x] \in Data
    BY DEF TypeOK, Data
  <2>2. data' \in Data /\ crc' \in Data
    BY <1>2, <2>1 DEF setenv, TypeOK, CrcAfter
  <2>3. mirror' \in [Mirrored -> Values \cup {NoValue}]
    BY <1>2 DEF setenv, TypeOK, Copied
  <2>4. stdio' \in [Console -> Values \cup {NoValue}]
    BY <1>2 DEF setenv, TypeOK
  <2>5. enetaddr' \in Values \cup {NoValue} /\ baudrate' \in Values \cup {NoValue}
    BY <1>2 DEF setenv, TypeOK
  <2>6. overflowed' \in BOOLEAN
    BY <1>2 DEF setenv
  <2> QED BY <2>2, <2>3, <2>4, <2>5, <2>6
<1> QED BY <1>1, <1>2

LEMMA SectorTypes ==
    ASSUME TypeOK
    PROVE  /\ Spoilt \in Sector /\ Torn \in Sector
           /\ \A s \in Sector, b \in BOOLEAN : [s EXCEPT !.protected = b] \in Sector
           /\ [flash EXCEPT !.data = data, !.crc = crc] \in Sector
BY DEF TypeOK, Sector, Spoilt, Torn

LEMMA LoadedType ==
    ASSUME TypeOK
    PROVE  Loaded \in Data
BY EnvironmentAssumption DEF Loaded, CrcOk

LEMMA TypeInit ==
    ASSUME Init
    PROVE  TypeOK
<1>1. flash \in Sector /\ env_buffer \in Sector
  BY EnvironmentAssumption DEF Init, Sector, Spoilt
<1> QED BY <1>1, EnvironmentAssumption DEF Init, TypeOK

LEMMA SetenvCalled ==
    ASSUME do_setenv
    PROVE  \E v \in Vars, exact \in {TRUE, ~EqualsInName}, x \in Values \cup {NoValue},
              assigned \in BOOLEAN : setenv(v, exact, x, assigned)
<1>1. PICK v \in Vars, exact \in {TRUE, ~EqualsInName}, x \in Values \cup {NoValue},
           assigned \in BOOLEAN :
             /\ assigned = (x \in Supported)
             /\ v = "baudrate" => x # NoValue
             /\ setenv(v, exact, x, assigned)
             /\ late' = IF data[v] = NoValue THEN late \cup {v} ELSE late
  BY DEF do_setenv
<1> QED BY <1>1, Zenon

LEMMA TypeStep ==
    ASSUME TypeOK, [Next]_vars
    PROVE  TypeOK'
<1>1. CASE do_setenv
  <2>1. PICK v \in Vars, exact \in {TRUE, ~EqualsInName}, x \in Values \cup {NoValue},
             assigned \in BOOLEAN : setenv(v, exact, x, assigned)
    BY <1>1, SetenvCalled
  <2>2. exact \in BOOLEAN
    BY EnvironmentAssumption
  <2>3. UNCHANGED <<pc, flash, env_buffer, stored, fault>>
    BY <1>1 DEF do_setenv
  <2>4. late \subseteq Vars /\ \E w \in Vars : late' \in {late, late \cup {w}}
    BY <1>1 DEF do_setenv, TypeOK
  <2>5. late' \subseteq Vars
    BY <2>4
  <2>6. /\ data' \in Data /\ crc' \in Data
        /\ mirror' \in [Mirrored -> Values \cup {NoValue}]
        /\ enetaddr' \in Values \cup {NoValue}
        /\ baudrate' \in Values \cup {NoValue}
        /\ stdio' \in [Console -> Values \cup {NoValue}]
        /\ overflowed' \in BOOLEAN
    BY <2>1, <2>2, SetenvType
  <2> QED BY <2>3, <2>5, <2>6 DEF TypeOK
<1>2. CASE saveenv
  BY <1>2, SectorTypes DEF saveenv, TypeOK, ramVars
<1>3. CASE Unprotect
  BY <1>3, SectorTypes DEF Unprotect, Returns, TypeOK, ramVars
<1>4. CASE Erase
  BY <1>4, SectorTypes DEF Erase, Returns, TypeOK, ramVars
<1>5. CASE Write
  BY <1>5, SectorTypes DEF Write, TypeOK, ramVars
<1>6. CASE Reprotect
  BY <1>6, SectorTypes DEF Reprotect, Returns, TypeOK, ramVars
<1>7. CASE CutOff
  BY <1>7, SectorTypes, EnvironmentAssumption DEF CutOff, RamLost, TypeOK
<1>8. CASE PowerFails
  BY <1>8, SectorTypes, EnvironmentAssumption DEF PowerFails, RamLost, TypeOK
<1>9. CASE env_init
  BY <1>9 DEF env_init, TypeOK, ramVars
<1>10. CASE env_relocate
  <2>1. \A v \in Vars : Loaded[v] \in Values \cup {NoValue}
    BY LoadedType DEF Data
  <2>2. /\ mirror' \in [Mirrored -> Values \cup {NoValue}]
        /\ stdio' \in [Console -> Values \cup {NoValue}]
        /\ baudrate' \in Values \cup {NoValue}
    BY <1>10, <2>1, EnvironmentAssumption DEF env_relocate, Mirrored
  <2> QED BY <1>10, <2>2, LoadedType DEF env_relocate, TypeOK
<1>11. CASE console_init_r
  <2>1. pc' \in {"stdout", "stderr", "main"}
    BY <1>11 DEF console_init_r
  <2>2. CASE pc \in Vars
    <3>1. setenv(pc, TRUE, serial, TRUE)
      BY <1>11, <2>2 DEF console_init_r
    <3>2. serial \in Values \cup {NoValue}
      BY EnvironmentAssumption
    <3> QED BY <1>11, <2>1, <2>2, <3>1, <3>2, SetenvType DEF console_init_r, TypeOK
  <2>3. CASE pc \notin Vars
    BY <1>11, <2>1, <2>3 DEF console_init_r, TypeOK, ramVars
  <2> QED BY <2>2, <2>3
<1>12. CASE UNCHANGED vars
  BY <1>12 DEF vars, ramVars, TypeOK
<1> QED BY <1>1, <1>2, <1>3, <1>4, <1>5, <1>6, <1>7, <1>8, <1>9, <1>10, <1>11, <1>12
        DEF Next

\* Whatever is set, saved, cut off and loaded again, RAM holds an environment,
\* never what an unfinished saveenv has left in flash: env_relocate's test of
\* the CRC.
THEOREM TypeCorrect == Spec => []TypeOK
<1>1. Init => TypeOK
  BY TypeInit
<1>2. TypeOK /\ [Next]_vars => TypeOK'
  BY TypeStep
<1> QED BY <1>1, <1>2, PTL DEF Spec

-----------------------------------------------------------------------------
(* U-Boot's part of the sector *)

\* Until saveenv writes the sector back, its buffer holds the rest of it.
RestBuffered ==
    ~fault /\ pc \in {"unprotect", "erase", "write"} => env_buffer.rest

RestInv == TypeOK /\ RestKept /\ RestBuffered

LEMMA RestStep ==
    ASSUME RestInv, [Next]_vars
    PROVE  RestKept' /\ RestBuffered'
<1> USE DEF RestInv, RestKept, RestBuffered, ramVars
<1>1. CASE do_setenv
  BY <1>1 DEF do_setenv
<1>2. CASE saveenv
  <2>1. env_buffer'.rest = flash.rest
    BY <1>2 DEF saveenv, TypeOK, Sector
  <2> QED BY <1>2, <2>1 DEF saveenv
<1>3. CASE Unprotect
  <2>1. flash'.rest = flash.rest
    BY <1>3 DEF Unprotect, TypeOK, Sector
  <2> QED BY <1>3, <2>1 DEF Unprotect, Returns
<1>4. CASE Erase
  BY <1>4 DEF Erase, Returns
<1>5. CASE Write
  <2>1. [env_buffer EXCEPT !.protected = FALSE].rest = env_buffer.rest
    BY DEF TypeOK, Sector
  <2> QED BY <1>5, <2>1 DEF Write
<1>6. CASE Reprotect
  <2>1. flash'.rest = flash.rest
    BY <1>6 DEF Reprotect, TypeOK, Sector
  <2> QED BY <1>6, <2>1 DEF Reprotect, Returns
<1>7. CASE CutOff
  BY <1>7 DEF CutOff, RamLost
<1>8. CASE PowerFails
  BY <1>8 DEF PowerFails, RamLost, TypeOK
<1>9. CASE env_init
  BY <1>9 DEF env_init
<1>10. CASE env_relocate
  BY <1>10 DEF env_relocate
<1>11. CASE console_init_r
  BY <1>11 DEF console_init_r
<1>12. CASE UNCHANGED vars
  BY <1>12 DEF vars
<1> QED BY <1>1, <1>2, <1>3, <1>4, <1>5, <1>6, <1>7, <1>8, <1>9, <1>10, <1>11, <1>12
        DEF Next

\* saveenv erases and rewrites the sector U-Boot itself is in: without a failing
\* flash operation or a power failure in between, no sequence of commands, resets
\* and saveenvs that return early loses U-Boot.
THEOREM AlwaysRestKept == Spec => []RestKept
<1>1. ASSUME Init PROVE RestInv
  <2>1. pc = "off" /\ flash.rest
    BY <1>1 DEF Init
  <2> QED BY <1>1, <2>1, TypeInit DEF RestInv, RestKept, RestBuffered
<1>2. RestInv /\ [Next]_vars => RestInv'
  BY RestStep, TypeStep DEF RestInv
<1>3. RestInv => RestKept
  BY DEF RestInv
<1> QED BY <1>1, <1>2, <1>3, PTL DEF Spec

-----------------------------------------------------------------------------
(* Values in use *)

\* From env_relocate on, not only at the prompt: the entries console_init_r makes
\* and a saveenv in progress are included.
Running == {"stdin", "stdout", "stderr", "main", "unprotect", "erase", "write", "protect"}

\* The console variables that console_init_r has not entered yet.
Awaited == CASE pc = "stdin" -> {"stdin", "stdout", "stderr"}
             [] pc = "stdout" -> {"stdout", "stderr"}
             [] pc = "stderr" -> {"stderr"}
             [] OTHER -> {}

Follows(v) ==
    data[v] # NoValue =>
      /\ v \in Mirrored => mirror[v] = data[v]
      /\ v = "baudrate" /\ v \notin late => baudrate = data[v]
      /\ v \in Console /\ v \notin late /\ v \notin Awaited => stdio[v] = data[v]
      /\ v = "ethaddr" => enetaddr \in {NoValue, data[v]}

InUseRunning ==
    pc \in Running => /\ \A v \in Vars : Follows(v)
                      /\ \A v \in Console \cap Awaited : stdio[v] = serial
                      /\ Awaited # {} => late = {}

InUseInv == TypeOK /\ InUseRunning

\* A variable and its value in use stay as they are ...
Kept(w) ==
    /\ data'[w] = data[w]
    /\ w \in Mirrored => mirror'[w] = mirror[w]
    /\ w \in Console => stdio'[w] = stdio[w]
    /\ w = "baudrate" => baudrate' = baudrate
    /\ w = "ethaddr" => enetaddr' = enetaddr

\* ... or the definition is deleted, or a new one appended and copied; the console
\* device and the baud rate change before that, and only if there was a definition.
Taken(v, x) ==
    /\ data'[v] \in {NoValue, x}
    /\ v \in Mirrored /\ data'[v] # NoValue => mirror'[v] = x
    /\ v \in Console => stdio'[v] = IF data[v] # NoValue THEN x ELSE stdio[v]
    /\ v = "baudrate" /\ data[v] # NoValue => baudrate' = x
    /\ v = "ethaddr" => enetaddr' = x

LEMMA SetenvEffect ==
    ASSUME TypeOK, NEW v \in Vars, NEW x \in Values \cup {NoValue}, NEW assigned \in BOOLEAN,
           setenv(v, TRUE, x, assigned), NEW w \in Vars
    PROVE  /\ Kept(w) \/ (w = v /\ Taken(v, x))
           /\ w = v /\ ~Refused(v, TRUE, x, assigned) => Taken(v, x)
<1>1. CASE Refused(v, TRUE, x, assigned)
  BY <1>1 DEF setenv, ramVars, Kept
<1>2. CASE ~Refused(v, TRUE, x, assigned)
  <2> DEFINE deleted == [data EXCEPT ![v] = NoValue]
             full    == x # NoValue /\ Overflow(deleted, x)
  <2>1. /\ data' = IF full THEN deleted ELSE [data EXCEPT ![v] = x]
        /\ mirror' = Copied(v, TRUE, x, full)
        /\ stdio' = IF data[v] # NoValue /\ v \in Console THEN [stdio EXCEPT ![v] = x] ELSE stdio
        /\ baudrate' = IF data[v] # NoValue /\ v = "baudrate" THEN x ELSE baudrate
        /\ enetaddr' = IF v = "ethaddr" THEN x ELSE enetaddr
    BY <1>2 DEF setenv
  <2>2. full \in BOOLEAN
    OBVIOUS
  <2> HIDE DEF full
  <2>3. CASE w = v
    <3>1. data'[v] = IF full THEN NoValue ELSE x
      BY <2>1, <2>2 DEF TypeOK, Data
    <3>2. v \in Mirrored /\ data'[v] # NoValue => mirror'[v] = x
      BY <2>1, <2>2, <3>1 DEF TypeOK, Copied
    <3>3. v \in Console => stdio'[v] = IF data[v] # NoValue THEN x ELSE stdio[v]
      BY <2>1 DEF TypeOK
    <3>4. (v = "baudrate" /\ data[v] # NoValue => baudrate' = x) /\ (v = "ethaddr" => enetaddr' = x)
      BY <2>1
    <3>5. Taken(v, x)
      BY <2>2, <3>1, <3>2, <3>3, <3>4 DEF Taken
    <3> QED BY <1>2, <2>3, <3>5
  <2>4. CASE w # v
    <3>1. data'[w] = data[w]
      BY <2>1, <2>4 DEF TypeOK, Data
    <3>2. w \in Mirrored => mirror'[w] = mirror[w]
      BY <2>1, <2>4 DEF TypeOK, Copied
    <3>3. w \in Console => stdio'[w] = stdio[w]
      BY <2>1, <2>4 DEF TypeOK
    <3>4. (w = "baudrate" => baudrate' = baudrate) /\ (w = "ethaddr" => enetaddr' = enetaddr)
      BY <2>1, <2>4
    <3>5. Kept(w)
      BY <3>1, <3>2, <3>3, <3>4, Zenon DEF Kept
    <3> QED BY <2>4, <3>5
  <2> QED BY <2>3, <2>4
<1> QED BY <1>1, <1>2

\* A command of the user.
LEMMA UserInUse ==
    ASSUME ~EqualsInName, InUseInv, do_setenv
    PROVE  InUseRunning'
<1>1. PICK v \in Vars, x \in Values \cup {NoValue}, assigned \in BOOLEAN :
        /\ setenv(v, TRUE, x, assigned)
        /\ late' = IF data[v] = NoValue THEN late \cup {v} ELSE late
  BY DEF do_setenv
<1>2. pc = "main" /\ pc' = "main"
  BY DEF do_setenv
<1>3. Awaited = {} /\ Awaited' = {}
  BY <1>2 DEF Awaited
<1>4. ASSUME NEW w \in Vars PROVE Follows(w)'
  <2>1. Follows(w)
    BY <1>2 DEF InUseInv, InUseRunning, Running
  <2>2. CASE Kept(w)
    <3>1. w \notin late' => w \notin late
      BY <1>1
    <3>2. Awaited = {} /\ Awaited' = {}
      BY <1>3
    <3> QED BY <2>1, <2>2, <3>1, <3>2 DEF Follows, Kept
  <2>3. CASE w = v /\ Taken(v, x)
    <3>1. v \notin late' => data[v] # NoValue
      BY <1>1
    <3>2. data'[v] # NoValue => data'[v] = x
      BY <2>3 DEF Taken
    <3> QED BY <2>3, <3>1, <3>2 DEF Follows, Taken
  <2>4. TypeOK /\ setenv(v, TRUE, x, assigned)
    BY <1>1 DEF InUseInv
  <2>5. Kept(w) \/ (w = v /\ Taken(v, x))
    BY <2>4, SetenvEffect
  <2> QED BY <2>2, <2>3, <2>5
<1> QED BY <1>3, <1>4 DEF InUseRunning

\* An entry that console_init_r makes.
LEMMA ConsoleInUse ==
    ASSUME InUseInv, console_init_r
    PROVE  InUseRunning'
<1>1. /\ pc \in {"stdin", "stdout", "stderr"} /\ late' = late
      /\ pc \in Running /\ serial \in Values /\ serial # NoValue
  BY EnvironmentAssumption DEF console_init_r, Running
<1>2. /\ pc \in Awaited /\ Awaited' = Awaited \ {pc}
      /\ Awaited \subseteq {"stdin", "stdout", "stderr"} /\ late = {}
  <2>1. pc \in Awaited
    BY <1>1 DEF Awaited
  <2>2. late = {}
    BY <1>1, <2>1 DEF InUseInv, InUseRunning
  <2>3. Awaited' = Awaited \ {pc} /\ Awaited \subseteq {"stdin", "stdout", "stderr"}
    BY <1>1 DEF Awaited, console_init_r
  <2> QED BY <2>1, <2>2, <2>3
<1>3. (\A w \in Vars : Follows(w)) /\ \A w \in Console \cap Awaited : stdio[w] = serial
  BY <1>1 DEF InUseInv, InUseRunning
<1>4. CASE pc \notin Vars
  <2>1. UNCHANGED ramVars
    BY <1>4 DEF console_init_r
  <2>2. pc \notin Console
    BY <1>4 DEF Console
  <2>3. ASSUME NEW w \in Vars PROVE Follows(w)'
    BY <1>1, <1>2, <1>3, <2>1, <2>2 DEF Follows, ramVars
  <2>4. \A w \in Console \cap Awaited' : stdio'[w] = serial
    BY <1>2, <1>3, <2>1 DEF ramVars
  <2> QED BY <1>1, <1>2, <2>3, <2>4 DEF InUseRunning
<1>5. CASE pc \in Vars
  <2>1. setenv(pc, TRUE, serial, TRUE) /\ pc \in Console
    BY <1>1, <1>5 DEF console_init_r, Console
  <2>2. ~Refused(pc, TRUE, serial, TRUE)
    BY <1>1 DEF Refused, OneTime
  <2>3. ASSUME NEW w \in Vars
        PROVE  /\ w # pc => Kept(w)
               /\ w = pc => Taken(pc, serial)
    <3>1. TypeOK /\ serial \in Values \cup {NoValue} /\ TRUE \in BOOLEAN
      BY <1>1 DEF InUseInv
    <3> QED BY <1>5, <2>1, <2>2, <3>1, SetenvEffect
  <2>4. ASSUME NEW w \in Vars PROVE Follows(w)'
    <3>1. CASE w # pc
      BY <1>1, <1>2, <1>3, <2>3, <3>1 DEF Follows, Kept
    <3>2. CASE w = pc
      <4>1. pc \notin Mirrored /\ pc # "baudrate" /\ pc # "ethaddr"
        BY <1>1 DEF Mirrored
      <4>2. stdio'[pc] = serial
        BY <1>2, <1>3, <2>1, <2>3, <1>5 DEF Taken
      <4> QED BY <2>3, <3>2, <4>1, <4>2 DEF Follows, Taken
    <3> QED BY <3>1, <3>2
  <2>5. ASSUME NEW w \in Console \cap Awaited' PROVE stdio'[w] = serial
    <3>1. w \in Vars /\ w # pc /\ w \in Awaited /\ w \in Console
      BY <1>2 DEF Console
    <3> QED BY <1>3, <2>3, <3>1 DEF Kept
  <2> QED BY <1>1, <1>2, <2>4, <2>5 DEF InUseRunning
<1> QED BY <1>4, <1>5

LEMMA InUseStep ==
    ASSUME ~EqualsInName, InUseInv, [Next]_vars
    PROVE  InUseRunning'
<1>1. CASE do_setenv
  BY <1>1, UserInUse
<1>2. CASE console_init_r
  BY <1>2, ConsoleInUse
<1>3. CASE UNCHANGED <<ramVars, late>> /\ pc \in Running \ Console /\ pc' \in Running /\ Awaited' = Awaited
  BY <1>3 DEF InUseInv, InUseRunning, Follows, ramVars
<1>4. CASE saveenv \/ Unprotect \/ Erase \/ Write \/ Reprotect
  <2>1. UNCHANGED <<ramVars, late>>
    BY <1>4 DEF saveenv, Unprotect, Erase, Write, Reprotect
  <2>2. /\ pc \in {"main", "unprotect", "erase", "write", "protect"}
        /\ pc' \in {"main", "unprotect", "erase", "write", "protect"}
    BY <1>4 DEF saveenv, Unprotect, Erase, Write, Reprotect, Returns
  <2>3. Awaited = {} /\ Awaited' = {}
    BY <2>2 DEF Awaited
  <2> QED BY <1>3, <2>1, <2>2, <2>3 DEF Running, Console
<1>5. CASE CutOff \/ PowerFails \/ env_init
  <2>1. pc' \in {"off", "relocate"}
    BY <1>5 DEF CutOff, PowerFails, env_init, RamLost
  <2> QED BY <2>1 DEF InUseRunning, Running
<1>6. CASE env_relocate
  <2>1. /\ data' = Loaded /\ mirror' = [v \in Mirrored |-> Loaded[v]]
        /\ enetaddr' = NoValue /\ late' = {} /\ stdio' = [v \in Console |-> serial]
        /\ baudrate' = IF "baudrate" \in Vars THEN Loaded["baudrate"] ELSE NoValue
        /\ pc' = "stdin"
    BY <1>6 DEF env_relocate
  <2>2. Awaited' = {"stdin", "stdout", "stderr"}
    BY <2>1 DEF Awaited
  <2>3. ASSUME NEW v \in Vars PROVE Follows(v)'
    BY <2>1, <2>2 DEF Follows, Console
  <2> QED BY <2>1, <2>2, <2>3 DEF InUseRunning
<1>7. CASE UNCHANGED vars
  <2>1. UNCHANGED <<pc, data, mirror, enetaddr, baudrate, stdio, late>>
    BY <1>7 DEF vars, ramVars
  <2>2. Awaited' = Awaited
    BY <2>1 DEF Awaited
  <2>3. \A v \in Vars : Follows(v) => Follows(v)'
    BY <2>1, <2>2 DEF Follows
  <2> QED BY <2>1, <2>2, <2>3 DEF InUseInv, InUseRunning
<1> QED BY <1>1, <1>2, <1>4, <1>5, <1>6, <1>7 DEF Next

\* Unless a name "var=..." is used, what is in use is what printenv shows, whatever
\* was set, deleted or refused, and however full the environment is: the addresses,
\* the load address and the boot file; the baud rate and the console devices that
\* were not defined anew; the Ethernet device's address, if not its EEPROM's.
THEOREM AlwaysInUse ==
    ASSUME ~EqualsInName
    PROVE  Spec => []InUse
<1>1. Init => InUseInv
  BY TypeInit DEF Init, InUseInv, InUseRunning, Running
<1>2. InUseInv /\ [Next]_vars => InUseInv'
  BY InUseStep, TypeStep DEF InUseInv
<1>3. ASSUME InUseInv, pc = "main" PROVE InUse
  <2>1. Awaited = {} /\ pc \in Running
    BY <1>3 DEF Awaited, Running
  <2>2. \A v \in Vars : Follows(v)
    BY <1>3, <2>1 DEF InUseInv, InUseRunning
  <2> QED BY <2>1, <2>2 DEF InUse, Follows
<1>4. InUseInv => InUse
  BY <1>3 DEF InUse
<1> QED BY <1>1, <1>2, <1>4, PTL DEF Spec

-----------------------------------------------------------------------------
(* What is saved is loaded *)

\* The CRC in RAM, in saveenv's buffer and in flash is that of the data, unless
\* setenv has just deleted an entry because of an overflow, and as long as no flash
\* operation has gone wrong.
CrcInv ==
    /\ TypeOK
    /\ crc = data \/ overflowed
    /\ pc \in {"unprotect", "erase", "write"} =>
         env_buffer.data = data /\ (env_buffer.crc = data \/ overflowed)
    /\ pc = "write" => stored = Garbage
    /\ stored # Garbage => Loaded = stored

LEMMA SetenvCrc ==
    ASSUME TypeOK, crc = data \/ overflowed,
           NEW v \in Vars, NEW exact \in BOOLEAN, NEW x \in Values \cup {NoValue},
           NEW assigned \in BOOLEAN, setenv(v, exact, x, assigned)
    PROVE  crc' = data' \/ overflowed'
<1>1. CASE Refused(v, exact, x, assigned)
  BY <1>1 DEF setenv, ramVars
<1>2. CASE ~Refused(v, exact, x, assigned)
  <2> DEFINE deleted == [data EXCEPT ![v] = NoValue]
             full    == x # NoValue /\ Overflow(deleted, x)
  <2>1. /\ data' = IF full THEN deleted ELSE [data EXCEPT ![v] = x]
        /\ crc' = IF full THEN crc ELSE [data EXCEPT ![v] = x]
        /\ overflowed' = (full /\ (overflowed \/ data[v] # NoValue))
    BY <1>2 DEF setenv, CrcAfter
  <2>2. data[v] = NoValue => deleted = data
    BY DEF TypeOK, Data
  <2> HIDE DEF full, deleted
  <2> QED BY <2>1, <2>2
<1> QED BY <1>1, <1>2

\* What can be found in flash does not depend on the protection.
LEMMA FlashKept ==
    ASSUME TypeOK, NEW b \in BOOLEAN, flash' = flash \/ flash' = [flash EXCEPT !.protected = b]
    PROVE  flash'.data = flash.data /\ flash'.crc = flash.crc
BY DEF TypeOK, Sector

LEMMA CrcStep ==
    ASSUME CrcInv, [Next]_vars
    PROVE  CrcInv'
<1> USE DEF CrcInv
<1>0. TypeOK'
  BY TypeStep
<1>1. CASE do_setenv
  <2>1. PICK v \in Vars, exact \in {TRUE, ~EqualsInName}, x \in Values \cup {NoValue},
             assigned \in BOOLEAN : setenv(v, exact, x, assigned)
    BY <1>1, SetenvCalled
  <2>2. exact \in BOOLEAN
    BY EnvironmentAssumption
  <2>3. crc' = data' \/ overflowed'
    BY <2>1, <2>2, SetenvCrc
  <2> QED BY <1>0, <1>1, <2>3 DEF do_setenv, CrcOk, Loaded
<1>2. CASE saveenv
  <2>1. env_buffer'.data = data /\ env_buffer'.crc = crc
    BY <1>2 DEF saveenv, TypeOK, Sector
  <2> QED BY <1>0, <1>2, <2>1 DEF saveenv, ramVars, CrcOk, Loaded
<1>3. CASE Unprotect
  <2>1. flash'.data = flash.data /\ flash'.crc = flash.crc
    BY <1>3, FlashKept DEF Unprotect
  <2> QED BY <1>0, <1>3, <2>1 DEF Unprotect, Returns, ramVars, CrcOk, Loaded
<1>4. CASE Erase
  <2>1. CASE flash' = Spoilt
    <3>1. stored' = Garbage /\ flash'.data = Garbage
      BY <1>4, <2>1 DEF Erase, Spoilt
    <3> QED BY <1>0, <1>4, <3>1, EnvironmentAssumption DEF Erase, Returns, ramVars, CrcOk
  <2>2. CASE flash' # Spoilt
    <3>1. flash' = flash /\ stored' = stored /\ pc' = "main"
      BY <1>4, <2>2 DEF Erase, Returns
    <3> QED BY <1>0, <1>4, <3>1 DEF Erase, Returns, ramVars, CrcOk, Loaded
  <2> QED BY <2>1, <2>2
<1>5. CASE Write
  <2>1. CASE flash' = [env_buffer EXCEPT !.protected = FALSE] /\ stored' = IF overflowed THEN Garbage ELSE data
    <3>1. flash'.data = data /\ (flash'.crc = data \/ overflowed)
      BY <1>5, <2>1 DEF Write, TypeOK, Sector
    <3>2. stored' # Garbage => Loaded' = data /\ stored' = data
      BY <2>1, <3>1 DEF Loaded, CrcOk, TypeOK
    <3> QED BY <1>0, <1>5, <3>2 DEF Write, ramVars
  <2>2. CASE flash' \in {Spoilt, Torn} /\ UNCHANGED stored
    <3>1. stored' = Garbage
      BY <1>5, <2>2 DEF Write
    <3> QED BY <1>0, <1>5, <3>1 DEF Write, ramVars
  <2> QED BY <1>5, <2>1, <2>2 DEF Write
<1>6. CASE Reprotect
  <2>1. flash'.data = flash.data /\ flash'.crc = flash.crc
    BY <1>6, FlashKept DEF Reprotect
  <2> QED BY <1>0, <1>6, <2>1 DEF Reprotect, Returns, ramVars, CrcOk, Loaded
<1>7. CASE CutOff
  <2>1. flash'.data = Garbage /\ stored' = Garbage
    BY <1>7 DEF CutOff, Spoilt, Torn
  <2> QED BY <1>0, <1>7, <2>1, EnvironmentAssumption DEF CutOff, RamLost, CrcOk
<1>8. CASE PowerFails
  BY <1>0, <1>8 DEF PowerFails, RamLost, CrcOk, Loaded
<1>9. CASE env_init
  BY <1>0, <1>9 DEF env_init, ramVars, CrcOk, Loaded
<1>10. CASE env_relocate
  <2>1. CrcOk' = CrcOk /\ Loaded' = Loaded
    BY <1>10 DEF env_relocate, CrcOk, Loaded
  <2> QED BY <1>0, <1>10, <2>1 DEF env_relocate
<1>11. CASE console_init_r
  <2>1. pc' \in {"stdout", "stderr", "main"}
    BY <1>11 DEF console_init_r
  <2>2. crc' = data' \/ overflowed'
    <3>1. CASE pc \in Vars
      <4>1. setenv(pc, TRUE, serial, TRUE) /\ serial \in Values \cup {NoValue}
        BY <1>11, <3>1, EnvironmentAssumption DEF console_init_r
      <4> QED BY <3>1, <4>1, SetenvCrc
    <3>2. CASE pc \notin Vars
      BY <1>11, <3>2 DEF console_init_r, ramVars
    <3> QED BY <3>1, <3>2
  <2> QED BY <1>0, <1>11, <2>1, <2>2 DEF console_init_r, CrcOk, Loaded
<1>12. CASE UNCHANGED vars
  BY <1>0, <1>12 DEF vars, ramVars, CrcOk, Loaded
<1> QED BY <1>1, <1>2, <1>3, <1>4, <1>5, <1>6, <1>7, <1>8, <1>9, <1>10, <1>11, <1>12
        DEF Next

\* A boot loads what the last successful saveenv has stored, whatever was set, deleted
\* or refused before and however often power has failed, for entries of any length and
\* an environment of any size; after an overflow that has deleted an entry
\* (cmd_nvedit.c), once setenv has changed another one.
THEOREM SavedLoaded == Spec => SavedIsLoaded
<1>1. ASSUME Init PROVE CrcInv
  <2>1. /\ pc = "off" /\ data = default_environment /\ crc = default_environment
        /\ flash.data = default_environment /\ flash.crc = default_environment
        /\ stored = default_environment
    BY <1>1 DEF Init
  <2> QED BY <1>1, <2>1, TypeInit, EnvironmentAssumption DEF CrcInv, CrcOk, Loaded
<1>2. CrcInv /\ [Next]_vars => CrcInv'
  BY CrcStep
<1>3. CrcInv /\ [Next]_vars
        => [pc = "relocate" /\ pc' = "stdin" /\ stored # Garbage => data' = stored]_vars
  <2> SUFFICES ASSUME CrcInv, Next, pc = "relocate", pc' = "stdin", stored # Garbage
               PROVE  data' = stored
    OBVIOUS
  <2>1. env_relocate
    BY DEF Next, do_setenv, saveenv, Unprotect, Erase, Write, Reprotect, CutOff, PowerFails,
           env_init, console_init_r, Returns, RamLost
  <2> QED BY <2>1 DEF env_relocate, CrcInv
<1> QED BY <1>1, <1>2, <1>3, PTL DEF Spec, SavedIsLoaded
=============================================================================
