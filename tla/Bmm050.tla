------------------------------- MODULE Bmm050 -------------------------------
(***************************************************************************)
(* The driver of the magnetometer BMM050: power and functional state,      *)
(* settings, presets, trim values and the advanced self test.  Calls are   *)
(* built from calls; each is one step here, for only bmc_thread makes them *)
(* and the chip does nothing on its own that they depend on, save ending a *)
(* forced measurement, which is a step of its own.                         *)
(*                                                                         *)
(* A failed write may have reached the chip; a failed read leaves in the   *)
(* caller's variable what was in it.  With its power control bit off the   *)
(* chip loses its registers and ignores writes to all others.              *)
(***************************************************************************)
EXTENDS RegisterField, FiniteSets

CONSTANTS
    MagContents,    \* what the registers may hold after power was off
    MagArguments,   \* the arguments of the setters
    MaxTransfers,   \* bound: which transfer of a call may fail
    MaxMagCalls,    \* bound: the number of calls
    MaxMagMisses    \* bound: the number of transfers that fail

PowerReg == \h4B
MagRegisters == {PowerReg, \h4C, \h4E, \h51, \h52}

ASSUME MagAssumption ==
    /\ MagContents \subseteq Byte
    /\ MagContents # {}
    /\ MagArguments \subseteq 0..255
    /\ MaxTransfers \in Nat
    /\ MaxMagCalls \in Nat
    /\ MaxMagMisses \in Nat

MagField(reg, pos, len) == [reg |-> reg, pos |-> pos, len |-> len]
POWER == MagField(PowerReg, 0, 1)
SOFT_RST_1 == MagField(PowerReg, 1, 1)
SOFT_RST_7 == MagField(PowerReg, 7, 1)
OPERATION_MODE == MagField(\h4C, 1, 2)
MagFields ==
    [spi3 |-> MagField(PowerReg, 2, 1),
     selftest |-> MagField(\h4C, 0, 1),
     data_rate |-> MagField(\h4C, 3, 3),
     advanced_selftest |-> MagField(\h4C, 6, 2),
     control_measurement_x |-> MagField(\h4E, 3, 1),
     control_measurement_y |-> MagField(\h4E, 4, 1),
     rep_XY |-> MagField(\h51, 0, 8),
     rep_Z |-> MagField(\h52, 0, 8)]

NORMAL_MODE == 0
FORCED_MODE == 1
SUSPEND_MODE == 2
SLEEP_MODE == 3

\* data rate and repetitions of the presets
LOWPOWER == 1
REGULAR == 2
HIGHACCURACY == 3
ENHANCED == 4
Presets ==
    [p \in LOWPOWER..ENHANCED |->
        CASE p = LOWPOWER -> [data_rate |-> 0, rep_XY |-> 1, rep_Z |-> 2]
          [] p = REGULAR -> [data_rate |-> 0, rep_XY |-> 4, rep_Z |-> 14]
          [] p = HIGHACCURACY -> [data_rate |-> 5, rep_XY |-> 23, rep_Z |-> 82]
          [] p = ENHANCED -> [data_rate |-> 0, rep_XY |-> 7, rep_Z |-> 26]]

\* the trim values, in the order they are read
Trims == <<"x1", "y1", "x2", "y2", "xy1", "xy2", "z1", "z2", "z3", "z4",
           "xyz1">>

VARIABLES
    magAttached,   \* p_bmm050 points to the driver's data
    magRegs,       \* the chip
    trim,          \* for each trim value, the one of the chip it was made from
    magKnown,      \* history: the fields that calls have set, and to what
    wanted,        \* history: the functional state that was set, or -1
    magOutcome,    \* history: what the last call said and what failed in it
    magCalls, magMisses   \* counters for the bounds

magVars == <<magAttached, magRegs, trim, magKnown, wanted, magOutcome,
             magCalls, magMisses>>

-----------------------------------------------------------------------------
(* A call under way: the registers, the transfers made and failed, which   *)
(* one fails and whether it has reached the chip, and what the registers   *)
(* hold should they be lost                                                *)

Begin(miss, content) ==
    [regs |-> magRegs, n |-> 0, failed |-> 0, miss |-> miss,
     content |-> content]

Fails(s) == s.n + 1 = s.miss.at

Transfer(s) ==
    [s EXCEPT !.n = @ + 1, !.failed = IF Fails(s) THEN @ + 1 ELSE @]

ReadByte(s, reg, stale) == IF Fails(s) THEN stale ELSE s.regs[reg]

\* the chip: what a write does to its registers
Powered(regs) == 0 \in regs[PowerReg]
Store(s, reg, byte) ==
    IF reg # PowerReg
    THEN IF Powered(s.regs) THEN [s.regs EXCEPT ![reg] = byte] ELSE s.regs
    ELSE LET reset == {1, 7} \subseteq byte
         IN  [r \in MagRegisters |->
                IF r = PowerReg THEN IF reset THEN byte \ {1, 7} ELSE byte
                ELSE IF reset \/ 0 \notin byte THEN s.content ELSE s.regs[r]]

WriteByte(s, reg, byte) ==
    IF Fails(s) /\ ~s.miss.reached THEN Transfer(s)
    ELSE [Transfer(s) EXCEPT !.regs = Store(s, reg, byte)]

\* read, change, write back; stale is what the variable held before
UpdateField(s, f, value, stale) ==
    WriteByte(Transfer(s), f.reg,
              SetBitslice(ReadByte(s, f.reg, stale), f, value))

-----------------------------------------------------------------------------
(* The calls that other calls are built from *)

set_power_mode(s, on) == UpdateField(s, POWER, IF on THEN {0} ELSE {}, {})

\* mutant: the power control bit is not looked at
StayAsleep(s) == s

\* get_power_mode leaves OFF in the variable when it fails
WakeUp(s) ==
    IF ReadByte(s, PowerReg, {}) \cap {0} = {}
    THEN set_power_mode(Transfer(s), TRUE)
    ELSE Transfer(s)

\* the variable that is to get the operation mode holds the power mode
set_functional_state(s, mode) ==
    IF mode = SUSPEND_MODE THEN set_power_mode(s, FALSE)
    ELSE UpdateField(WakeUp(s), OPERATION_MODE, Bits(mode),
                     ReadByte(s, PowerReg, {}) \cap {0})

\* rep_XY and rep_Z are written without being read; the advanced self test is
\* not written if it could not be read
set_mag_field(s, n, value) ==
    LET f == MagFields[n]
    IN  IF n \in {"rep_XY", "rep_Z"} THEN WriteByte(s, f.reg, value)
        ELSE IF n = "advanced_selftest" /\ Fails(s) THEN Transfer(s)
        ELSE UpdateField(s, f, value, {})

set_presetmode(s, preset) ==
    LET p == Presets[preset]
        s1 == set_mag_field(s, "data_rate", Bits(p.data_rate))
        s2 == set_mag_field(s1, "rep_XY", Bits(p.rep_XY))
    IN  set_mag_field(s2, "rep_Z", Bits(p.rep_Z))

-----------------------------------------------------------------------------
(* How a call ends *)

Finish(s, status) ==
    /\ magRegs' = s.regs
    /\ magOutcome' = [status |-> status, misses |-> s.failed]
    /\ magMisses' = magMisses + s.failed
    /\ magCalls' = magCalls + 1

\* what the fields are known to hold after a call that sets some of them; a
\* failed one may have spoilt its registers
Learn(s, regs, set) ==
    magKnown' =
        IF ~Powered(s.regs) \/ (s.failed > 0 /\ PowerReg \in regs) THEN {}
        ELSE IF s.failed > 0
             THEN {k \in magKnown : MagFields[k[1]].reg \notin regs}
             ELSE {k \in magKnown : k[1] \notin {f[1] : f \in set}} \cup set

\* the functional state after a call; one that fails may have spoilt it
Want(s, regs, mode) ==
    wanted' = IF s.failed > 0 /\ {PowerReg, \h4C} \cap regs # {} THEN -1
              ELSE mode

Miss == [at : 0..(IF magMisses < MaxMagMisses THEN MaxTransfers ELSE 0),
         reached : BOOLEAN]

MayCall == magAttached /\ magCalls < MaxMagCalls

\* the chip itself ends the self test: nothing is known of its bit
SetMagField ==
    /\ MayCall
    /\ \E n \in DOMAIN MagFields, argument \in MagArguments, miss \in Miss,
          content \in MagContents :
         LET value == Bits(argument)
             s == set_mag_field(Begin(miss, content), n, value)
             regs == {MagFields[n].reg}
         IN  /\ n = "advanced_selftest" => argument \in {0, 2, 3}
             /\ Finish(s, -s.failed)
             /\ Learn(s, regs, IF n = "selftest" THEN {}
                               ELSE {<<n, Truncated(MagFields[n], value)>>})
             /\ Want(s, regs, wanted)
    /\ UNCHANGED <<magAttached, trim>>

SetPreset ==
    /\ MayCall
    /\ \E preset \in LOWPOWER..ENHANCED, miss \in Miss, content \in MagContents :
         LET s == set_presetmode(Begin(miss, content), preset)
         IN  /\ Finish(s, -s.failed)
             /\ Learn(s, {\h4C, \h51, \h52},
                      {<<n, Bits(Presets[preset][n])>> :
                          n \in {"data_rate", "rep_XY", "rep_Z"}})
             /\ Want(s, {\h4C}, wanted)
    /\ UNCHANGED <<magAttached, trim>>

SetFunctionalState ==
    /\ MayCall
    /\ \E mode \in NORMAL_MODE..SLEEP_MODE, miss \in Miss,
          content \in MagContents :
         LET s == set_functional_state(Begin(miss, content), mode)
         IN  /\ Finish(s, -s.failed)
             /\ Learn(s, {PowerReg, \h4C}, {})
             /\ Want(s, {PowerReg}, mode)
    /\ UNCHANGED <<magAttached, trim>>

SetMagPower ==
    /\ MayCall
    /\ \E on \in BOOLEAN, miss \in Miss, content \in MagContents :
         LET s == set_power_mode(Begin(miss, content), on)
         IN  /\ Finish(s, -s.failed)
             /\ Learn(s, {PowerReg}, {})
             /\ Want(s, {PowerReg},
                     IF ~on THEN SUSPEND_MODE
                     ELSE IF wanted = SUSPEND_MODE THEN -1 ELSE wanted)
    /\ UNCHANGED <<magAttached, trim>>

\* the second read leaves the first's byte if it fails; the byte of the first
\* starts as ON
SoftReset ==
    /\ MayCall
    /\ \E miss \in Miss, content \in MagContents :
         LET s0 == Begin(miss, content)
             byte == SetBitslice(ReadByte(s0, PowerReg, {0}), SOFT_RST_7, {0})
             s == UpdateField(UpdateField(s0, SOFT_RST_7, {0}, {0}),
                              SOFT_RST_1, {0}, byte)
         IN  /\ Finish(s, -s.failed)
             /\ magKnown' = {}
             /\ wanted' = -1
    /\ UNCHANGED <<magAttached, trim>>

\* an argument out of range, or an unknown advanced self test
RejectMag ==
    /\ MayCall
    /\ \E status \in {-2, -1} : Finish(Begin([at |-> 0], {}), status)
    /\ UNCHANGED <<magAttached, trim, magKnown, wanted>>

\* a getter reads one register, and returns it if that succeeds
GetMag ==
    /\ MayCall
    /\ \E miss \in Miss :
         LET s == Transfer(Begin(miss, {})) IN Finish(s, -s.failed)
    /\ UNCHANGED <<magAttached, trim, magKnown, wanted>>

\* the preset is told from the data rate and the repetitions
get_presetmode(s) == Transfer(Transfer(Transfer(s)))

GetPreset ==
    /\ MayCall
    /\ \E miss \in Miss :
         LET s == get_presetmode(Begin(miss, {})) IN Finish(s, -s.failed)
    /\ UNCHANGED <<magAttached, trim, magKnown, wanted>>

\* one measurement of the self test, and the two channels it switches
Shot(s, sign) ==
    Transfer(set_functional_state(
        set_mag_field(s, "advanced_selftest", Bits(sign)), FORCED_MODE))

Channels(s, enable) ==
    set_mag_field(set_mag_field(s, "control_measurement_x", Bits(enable)),
                  "control_measurement_y", Bits(enable))

\* the self test leaves rep_Z and the operation mode changed
PerformAdvancedSelftest ==
    /\ MayCall
    /\ \E miss \in Miss, content \in MagContents :
         LET s1 == set_functional_state(Begin(miss, content), SLEEP_MODE)
             s2 == Channels(set_mag_field(s1, "rep_Z", Bits(2)), 1)
             s3 == Shot(Shot(s2, 3), 2)
             s == Channels(set_mag_field(s3, "advanced_selftest", {}), 0)
         IN  /\ Finish(s, -s.failed)
             /\ Learn(s, MagRegisters,
                      {<<"rep_Z", Bits(2)>>, <<"advanced_selftest", {}>>,
                       <<"control_measurement_x", {}>>,
                       <<"control_measurement_y", {}>>})
             /\ Want(s, MagRegisters, FORCED_MODE)
    /\ UNCHANGED <<magAttached, trim>>

-----------------------------------------------------------------------------
(* bmm050_init *)

\* where the trim values come from when transfer number at fails: the values
\* of two bytes go through one buffer, which keeps the bytes of the value before
TrimsRead(at) ==
    [t \in 1..11 |->
        IF t # at THEN Trims[t]
        ELSE IF t < 7 THEN trim[t] ELSE IF t = 7 THEN "none" ELSE Trims[t - 1]]

\* mutant: only the result of setting the preset is returned
StatusOfPreset(s, before) == before - s.failed

\* com_rslt += the result of every call
InitStatus(s, before) == -s.failed

Bmm050Init ==
    /\ ~magAttached
    /\ \E miss \in Miss, content \in MagContents :
         LET s1 == set_power_mode(Begin(miss, content), TRUE)
             s2 == Transfer(s1)
             s3 == [s2 EXCEPT !.n = @ + 11,
                              !.failed = IF miss.at \in 4..14 THEN 1 ELSE @]
             s == set_presetmode(s3, REGULAR)
         IN  /\ Finish(s, InitStatus(s, s3.failed))
             /\ trim' = TrimsRead(miss.at - 3)
             /\ Learn(s, MagRegisters,
                      {<<n, Bits(Presets[REGULAR][n])>> :
                          n \in {"data_rate", "rep_XY", "rep_Z"}})
             /\ Want(s, MagRegisters, wanted)
    /\ magAttached' = TRUE

\* every call before bmm050_init
MagNotAttached ==
    /\ ~magAttached
    /\ magOutcome' = [status |-> -127, misses |-> 0]
    /\ UNCHANGED <<magAttached, magRegs, trim, magKnown, wanted, magCalls,
                   magMisses>>

\* a forced measurement ends: the chip goes to sleep
MeasurementEnds ==
    /\ Powered(magRegs)
    /\ GetBitslice(magRegs[\h4C], OPERATION_MODE) = Bits(FORCED_MODE)
    /\ magRegs' = [magRegs EXCEPT
          ![\h4C] = SetBitslice(@, OPERATION_MODE, Bits(SLEEP_MODE))]
    /\ UNCHANGED <<magAttached, trim, magKnown, wanted, magOutcome, magCalls,
                   magMisses>>

-----------------------------------------------------------------------------
MagInit ==
    /\ magAttached = FALSE
    /\ \E content \in MagContents :
         magRegs = [r \in MagRegisters |-> IF r = PowerReg THEN {} ELSE content]
    /\ trim = [t \in 1..11 |-> "none"]
    /\ magKnown = {}
    /\ wanted = -1
    /\ magOutcome = [status |-> 0, misses |-> 0]
    /\ magCalls = 0
    /\ magMisses = 0

MagNext ==
    \/ Bmm050Init \/ MagNotAttached \/ MeasurementEnds
    \/ SetMagField \/ SetPreset \/ SetFunctionalState \/ SetMagPower
    \/ SoftReset \/ RejectMag \/ GetMag \/ GetPreset
    \/ PerformAdvancedSelftest

MagSpec == MagInit /\ [][MagNext]_magVars

-----------------------------------------------------------------------------
MagGet(n) == GetBitslice(magRegs[MagFields[n].reg], MagFields[n])

\* A setting, also one that a preset or the self test makes, reads back as it
\* was last set with success, through settings of the fields it shares a
\* register with, changes of the functional state and failing calls about
\* other registers, until the power goes off.
MagKept == \A k \in magKnown : MagGet(k[1]) = k[2]

\* After a functional state was set with success the chip is powered and in
\* that state, or off if it was to be suspended, until a call changes it; a
\* forced measurement ends in sleep.
MagInState ==
    wanted # -1 =>
        IF wanted = SUSPEND_MODE THEN ~Powered(magRegs)
        ELSE /\ Powered(magRegs)
             /\ GetBitslice(magRegs[\h4C], OPERATION_MODE) \in
                   {Bits(wanted)} \cup
                   (IF wanted = FORCED_MODE THEN {Bits(SLEEP_MODE)} ELSE {})

\* The trim values of a driver whose initialisation reports success are the
\* chip's, each from its own registers.
TrimWhole ==
    [][~magAttached /\ magAttached' /\ magOutcome'.status = 0
          => \A t \in 1..11 : trim'[t] = Trims[t]]_magVars
=============================================================================
