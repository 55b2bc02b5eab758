------------------------------- MODULE Ens210 -------------------------------
(***************************************************************************)
(* The temperature and humidity sensor ENS210 and the thread that samples  *)
(* it: a measurement is started, waited for and read; each value carries a *)
(* mark that it is valid and a checksum.  Any transfer may fail, and a     *)
(* start that fails may have reached the chip.                             *)
(***************************************************************************)
EXTENDS Integers

CONSTANTS
    ConversionTimes,   \* what a measurement may take, in ms
    MaxEnsSamples,     \* bound: the number of samples
    MaxEnsFaults       \* bound: the transfers that fail or are corrupt

ASSUME EnsAssumption ==
    /\ ConversionTimes \subseteq Nat
    /\ MaxEnsSamples \in Nat
    /\ MaxEnsFaults \in Nat

T_H_CONVERSION_TIME_MS == 130
EnsTickMs == 10
Quantities == {"temperature", "humidity"}

VARIABLES
    ensStep,      \* where the thread is
    val,          \* the chip: for each quantity, the sample its value is of
    valid,        \* the chip: the data valid marks
    lowPower,     \* the chip: it saves power between measurements
    last,         \* for each quantity, the sample its last value is of
    awake,        \* history: a restoring of low power failed
    ensSamples, ensFaults   \* counters for the bounds

ensVars == <<ensStep, val, valid, lowPower, last, awake, ensSamples, ensFaults>>

-----------------------------------------------------------------------------
EnsFault == ensFaults < MaxEnsFaults /\ ensFaults' = ensFaults + 1
EnsOk == UNCHANGED ensFaults

\* ENS210_SensStart_Set: the marks are cleared, the measurement runs
SensStart ==
    /\ ensStep = "idle"
    /\ ensSamples < MaxEnsSamples
    /\ ensSamples' = ensSamples + 1
    /\ \/ EnsOk /\ ensStep' = "wait" /\ valid' = {}
       \/ EnsFault /\ ensStep' = "idle" /\ valid' \in {valid, {}}
    /\ UNCHANGED <<val, lowPower, last, awake>>

\* the sleep ends with its last tick, the first of which may come at once
EnsTicks(ms) == (ms + EnsTickMs - 1) \div EnsTickMs

Wait ==
    /\ ensStep = "wait"
    /\ ensStep' = "read"
    /\ \E takes \in ConversionTimes,
          elapsed \in {(EnsTicks(T_H_CONVERSION_TIME_MS) - 1) * EnsTickMs,
                       EnsTicks(T_H_CONVERSION_TIME_MS) * EnsTickMs} :
         \E done \in IF elapsed >= takes THEN {Quantities} ELSE {{}, {"temperature"}} :
            /\ val' = [q \in Quantities |-> IF q \in done THEN ensSamples
                                            ELSE val[q]]
            /\ valid' = done
    /\ UNCHANGED <<lowPower, last, awake, ensSamples, ensFaults>>

\* mutant: the mark is not looked at
CrcOnly(q, crcOk) == q \in crcOk

\* ENS210_IsCrcOk and ENS210_IsDataValid
Usable(q, crcOk) == q \in crcOk /\ q \in valid

\* ENS210_THVal_Get; bytes that arrive corrupt fail the checksum
THValGet ==
    /\ ensStep = "read"
    /\ ensStep' = "idle"
    /\ \/ EnsFault /\ UNCHANGED last
       \/ \E crcOk \in SUBSET Quantities :
            /\ IF crcOk = Quantities THEN EnsOk ELSE EnsFault
            /\ last' = [q \in Quantities |->
                           IF Usable(q, crcOk) THEN val[q] ELSE last[q]]
    /\ UNCHANGED <<val, valid, lowPower, awake, ensSamples>>

-----------------------------------------------------------------------------
(* The other calls *)

\* the getters, and the setters of what no sample depends on
OtherCall ==
    /\ ensStep = "idle"
    /\ EnsFault
    /\ UNCHANGED <<ensStep, val, valid, lowPower, last, awake, ensSamples>>

\* ENS210_SysCtrl_Set: a write that fails may have reached the chip
SysCtrlSet(low) ==
    \/ EnsOk /\ lowPower' = low
    \/ EnsFault /\ lowPower' \in {lowPower, low}

\* mutant: an error returns at once
GiveUp(failed) == IF failed THEN "idle" ELSE "restore"

\* goto return_status
OnError(failed) == "restore"

\* ENS210_Ids_Get, as far as low power is disabled
IdsWake ==
    /\ ensStep = "idle"
    /\ SysCtrlSet(FALSE)
    /\ ensStep' = IF ensFaults' = ensFaults THEN "ids" ELSE OnError(TRUE)
    /\ UNCHANGED <<val, valid, last, awake, ensSamples>>

IdsRead ==
    /\ ensStep = "ids"
    /\ \/ EnsOk /\ ensStep' = "restore first"
       \/ EnsFault /\ ensStep' = OnError(TRUE)
    /\ UNCHANGED <<val, valid, lowPower, last, awake, ensSamples>>

\* low power is enabled; if that fails it is tried once more
IdsRestore ==
    /\ ensStep \in {"restore first", "restore"}
    /\ SysCtrlSet(TRUE)
    /\ IF ensFaults' = ensFaults THEN ensStep' = "idle" /\ awake' = FALSE
       ELSE IF ensStep = "restore first"
            THEN ensStep' = "restore" /\ UNCHANGED awake
            ELSE ensStep' = "idle" /\ awake' = TRUE
    /\ UNCHANGED <<val, valid, last, ensSamples>>

-----------------------------------------------------------------------------
EnsInit ==
    /\ ensStep = "idle"
    /\ val = [q \in Quantities |-> 0]
    /\ valid = {}
    /\ lowPower = TRUE
    /\ last = [q \in Quantities |-> 0]
    /\ awake = FALSE
    /\ ensSamples = 0
    /\ ensFaults = 0

EnsNext ==
    \/ SensStart \/ Wait \/ THValGet \/ OtherCall
    \/ IdsWake \/ IdsRead \/ IdsRestore

EnsSpec == EnsInit /\ [][EnsNext]_ensVars

-----------------------------------------------------------------------------
\* A value that is taken is of the sample that was just started: when the
\* measurement is not over in time, or its bytes are corrupt, none is taken.
ValueFresh ==
    [][\A q \in Quantities : last'[q] # last[q] => last'[q] = ensSamples]_ensVars

\* Reading the identity leaves the chip in low power, also when a transfer
\* fails, unless enabling low power is what fails twice.
LowPowerRestored == ensStep = "idle" /\ ~awake => lowPower
=============================================================================
