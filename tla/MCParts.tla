------------------------------ MODULE MCParts ------------------------------
(***************************************************************************)
(* The parts of the board that work by themselves, side by side: the       *)
(* drivers of the sensors on the I2C bus, the microphone and the pace of   *)
(* net_thread's loop.  A behaviour is one of the part that subject names,  *)
(* while the others stand still.                                           *)
(*                                                                         *)
(* SamplePeriod: a tick counter that wraps after 8 ticks, so that it wraps *)
(* within every few rounds.                                                *)
(***************************************************************************)
EXTENDS Bma2x2, Bma2x2Data, Bmm050, Bmm050Data, I2cBus, Ms5637, Ens210,
        Microphone, SamplePeriod

VARIABLE subject

Table == INSTANCE Bma2x2Fields WITH ChipId <- \hFA

\* the constants of Bma2x2
TableFields == Table!AccelTable
TableTriggers == Table!AccelTriggers
TableStatus == Table!AccelStatus
TableRegisters == {TableFields[n].reg : n \in DOMAIN TableFields}
ChangedBy(t) ==
    CASE t = Table!update_image -> TableRegisters
      [] t \in {Table!cal_trigger, Table!offset_rst} -> \h38..\h3A
      [] OTHER -> {}
Uniform == {{}, Bit}

\* the measurements: the ends of a range, a negative number whose lower byte
\* is not 0, the marks of an overflow
TwoAccelerations == {-2047, 999}
TwoTemperatures == {-10, 30}
TwoXY == {FLIP_OVERFLOW_ADCVAL, -33}
TwoZ == {HALL_OVERFLOW_ADCVAL, -129}

\* the trim values: usable, one of them zero, and a divisor of Z that is zero
\* for the resistance 6001
TrimsOf(xyz1, z1, z2) == [xyz1 |-> xyz1, z1 |-> z1, z2 |-> z2]
SomeTrims == {TrimsOf(6000, 24747, 500), TrimsOf(0, 24747, 500),
              TrimsOf(6000, 0, 500), TrimsOf(6000, 24747, 0),
              TrimsOf(6000, 32768, -6001)}

\* the addresses of the sensors
TwoThreads == {"bmc_thread", "ms_thread"}
Address == [t \in TwoThreads |-> IF t = "bmc_thread" THEN \h10 ELSE \h76]

-----------------------------------------------------------------------------
partVars == <<subject, accelVars, dataVars, magVars, magDataVars, busVars,
                msVars, ensVars, micVars, vars>>

\* what stands still starts in one state
PartsInit ==
    /\ subject \in 1..9
    /\ AccelInit /\ (subject # 1 => registers[ModeReg] = {})
    /\ DataInit /\ (subject # 2 => measured = CHOOSE m \in Measurements : TRUE)
    /\ MagInit /\ (subject # 3 => magRegs[\h4C] = {})
    /\ MagDataInit
    /\ subject # 4 => /\ trims = TrimsOf(6000, 24747, 500)
                      /\ magnetic = CHOOSE m \in MagMeasurements : TRUE
    /\ BusInit
    /\ MsInit /\ (subject # 6 => present)
    /\ EnsInit
    /\ MicInit
    /\ Init /\ (subject # 9 => clock = 0)

Only(k) ==
    /\ subject = k
    /\ UNCHANGED subject
    /\ IF k = 1 THEN TRUE ELSE UNCHANGED accelVars
    /\ IF k = 2 THEN TRUE ELSE UNCHANGED dataVars
    /\ IF k = 3 THEN TRUE ELSE UNCHANGED magVars
    /\ IF k = 4 THEN TRUE ELSE UNCHANGED magDataVars
    /\ IF k = 5 THEN TRUE ELSE UNCHANGED busVars
    /\ IF k = 6 THEN TRUE ELSE UNCHANGED msVars
    /\ IF k = 7 THEN TRUE ELSE UNCHANGED ensVars
    /\ IF k = 8 THEN TRUE ELSE UNCHANGED micVars
    /\ IF k = 9 THEN TRUE ELSE UNCHANGED vars

PartsNext ==
    \/ Only(1) /\ AccelNext
    \/ Only(2) /\ DataNext
    \/ Only(3) /\ MagNext
    \/ Only(4) /\ MagDataNext
    \/ Only(5) /\ BusNext
    \/ Only(6) /\ MsNext
    \/ Only(7) /\ EnsNext
    \/ Only(8) /\ MicNext
    \/ Only(9) /\ Next

PartsSpec ==
    /\ PartsInit /\ [][PartsNext]_partVars
    /\ \A t \in Threads : WF_busVars(subject = 5 /\ BusStep(t))
    /\ WF_micVars(subject = 8 /\ AdcStep)
=============================================================================
