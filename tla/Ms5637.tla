------------------------------- MODULE Ms5637 -------------------------------
(***************************************************************************)
(* The pressure sensor MS5637: its coefficients are read once, each sample *)
(* then takes two conversions that the driver waits for.  Any transfer may *)
(* fail for good, or after it was tried again; a coefficient may arrive    *)
(* corrupt.  What is computed is left out: a sample is what it was         *)
(* computed from.                                                          *)
(***************************************************************************)
EXTENDS Integers

CONSTANTS
    Osr,              \* the resolution: ms5637_resolution_osr
    ConversionTime,   \* what a conversion takes, in ms
    MaxSamples,       \* bound: the number of samples
    MaxFaults         \* bound: the transfers that fail or are corrupt

ASSUME PressureAssumption ==
    /\ Osr \in 0..5
    /\ ConversionTime \in Nat
    /\ MaxSamples \in Nat
    /\ MaxFaults \in Nat

COEFFICIENT_NUMBERS == 7
TickMs == 10

VARIABLES
    present,       \* the sensor is on the bus
    msStep,        \* where the thread of the sensor is
    coeff_read,    \* ms5637_coeff_read
    eeprom_coeff,  \* for each coefficient: "none", "chip" or "corrupt"
    adc,           \* the chip: the conversion that can be read, or "zero"
    adc_temperature,
    sample,        \* the last sample: its status and what it was made from
    faultless,     \* history: nothing failed in this sample
    samples, faults   \* counters for the bounds

msVars == <<present, msStep, coeff_read, eeprom_coeff, adc, adc_temperature,
            sample, faultless, samples, faults>>

-----------------------------------------------------------------------------
\* WaitMsec: the sleep ends with its last tick, the first of which may come
\* at once
Ticks(ms) == (ms + TickMs - 1) \div TickMs
Slept(ms) == {(Ticks(ms) - 1) * TickMs + part : part \in {0, TickMs}}

\* mutant: the value that the comment in the table calls the original one
ConversionOriginal(osr) == <<1, 2, 3, 5, 9, 17>>[osr + 1]

\* conversion_time / 1000
conversion_time(osr) == <<1, 2, 3, 5, 9, 40>>[osr + 1]

Fault == faults < MaxFaults

\* a transfer succeeds at once, or fails in spite of its retries
Ok == present /\ UNCHANGED <<faults, faultless>>
Failed ==
    /\ \/ ~present /\ UNCHANGED faults
       \/ Fault /\ faults' = faults + 1
    /\ faultless' = FALSE

EndSample(status, made) ==
    /\ sample' = [status |-> status, made |-> made]
    /\ msStep' = "idle"

\* ms_thread: init, is_connected, reset
Probe ==
    /\ msStep = "probe"
    /\ msStep' = "reset"
    /\ UNCHANGED <<present, coeff_read, eeprom_coeff, adc, adc_temperature,
                   sample, faultless, samples, faults>>

Reset ==
    /\ msStep = "reset"
    /\ \/ Ok /\ msStep' = "idle"
       \/ Failed /\ msStep' = "suspended"
    /\ UNCHANGED <<present, coeff_read, eeprom_coeff, adc, adc_temperature,
                   sample, samples>>

-----------------------------------------------------------------------------
(* ms5637_read_temperature_and_pressure *)

BeginSample ==
    /\ msStep = "idle"
    /\ samples < MaxSamples
    /\ samples' = samples + 1
    /\ msStep' = IF coeff_read THEN "temperature" ELSE "eeprom"
    /\ faultless' = TRUE
    /\ UNCHANGED <<present, coeff_read, eeprom_coeff, adc, adc_temperature,
                   sample, faults>>

\* mutant: the coefficients count as read when they are there
CrcIgnored == TRUE

\* the checksum tells whether they are the chip's
CrcCheck ==
    \A i \in 1..COEFFICIENT_NUMBERS : eeprom_coeff'[i] = "chip"

\* the coefficients before the one that fails are read; a zero counts as a
\* failure
read_eeprom ==
    /\ msStep = "eeprom"
    /\ \/ /\ Ok
          /\ eeprom_coeff' = [i \in 1..COEFFICIENT_NUMBERS |-> "chip"]
       \/ /\ present /\ Fault
          /\ faults' = faults + 1
          /\ faultless' = FALSE
          /\ \E bad \in 1..COEFFICIENT_NUMBERS :
               eeprom_coeff' = [i \in 1..COEFFICIENT_NUMBERS |->
                                   IF i = bad THEN "corrupt" ELSE "chip"]
    /\ coeff_read' = CrcCheck
    /\ IF CrcCheck THEN msStep' = "temperature" /\ UNCHANGED sample
       ELSE EndSample("crc_error", {})
    /\ UNCHANGED <<present, adc, adc_temperature, samples>>

read_eeprom_fails ==
    /\ msStep = "eeprom"
    /\ Failed
    /\ \E last \in 0..(COEFFICIENT_NUMBERS - 1) :
         eeprom_coeff' = [i \in 1..COEFFICIENT_NUMBERS |->
                             IF i <= last THEN "chip" ELSE eeprom_coeff[i]]
    /\ EndSample("transfer_error", {})
    /\ UNCHANGED <<present, coeff_read, adc, adc_temperature, samples>>

\* the command, the wait, the command to read and the read; a read that is
\* tried again finds zero
Converted(kind, elapsed) == IF elapsed >= ConversionTime THEN kind ELSE "zero"

conversion_and_read_adc(kind) ==
    \E elapsed \in Slept(conversion_time(Osr)) :
       \/ Ok /\ adc' = Converted(kind, elapsed)
       \/ /\ present /\ Fault
          /\ faults' = faults + 1
          /\ faultless' = FALSE
          /\ adc' = "zero"

ReadTemperature ==
    /\ msStep = "temperature"
    /\ conversion_and_read_adc("temperature")
    /\ adc_temperature' = adc'
    /\ msStep' = "pressure"
    /\ UNCHANGED <<present, coeff_read, eeprom_coeff, sample, samples>>

\* mutant: a conversion that reads as zero is taken
ZeroTaken(adcs) == TRUE

BothRead(adcs) == "zero" \notin adcs

ReadPressure ==
    /\ msStep = "pressure"
    /\ conversion_and_read_adc("pressure")
    /\ LET adcs == {adc_temperature, adc'}
       IN  IF BothRead(adcs) THEN EndSample("ok", adcs)
           ELSE EndSample("transfer_error", {})
    /\ UNCHANGED <<present, coeff_read, eeprom_coeff, adc_temperature, samples>>

ConversionFails ==
    /\ msStep \in {"temperature", "pressure"}
    /\ Failed
    /\ EndSample("transfer_error", {})
    /\ UNCHANGED <<present, coeff_read, eeprom_coeff, adc, adc_temperature,
                   samples>>

-----------------------------------------------------------------------------
MsInit ==
    /\ present \in BOOLEAN
    /\ msStep = "probe"
    /\ coeff_read = FALSE
    /\ eeprom_coeff = [i \in 1..COEFFICIENT_NUMBERS |-> "none"]
    /\ adc = "zero"
    /\ adc_temperature = "zero"
    /\ sample = [status |-> "none", made |-> {}]
    /\ faultless = TRUE
    /\ samples = 0
    /\ faults = 0

MsNext ==
    \/ Probe \/ Reset \/ BeginSample
    \/ read_eeprom \/ read_eeprom_fails
    \/ ReadTemperature \/ ReadPressure \/ ConversionFails

MsSpec == MsInit /\ [][MsNext]_msVars

-----------------------------------------------------------------------------
\* A sample that is reported comes from coefficients that are all the chip's
\* and from one finished conversion of each kind.
PressureSound ==
    sample.status = "ok" =>
        /\ sample.made = {"temperature", "pressure"}
        /\ \A i \in 1..COEFFICIENT_NUMBERS : eeprom_coeff[i] = "chip"

\* A sample in which nothing fails is reported: the driver waits long enough,
\* although a sleep is up to a tick shorter than what was asked for.
PressureAnswers ==
    msStep = "idle" /\ samples > 0 /\ faultless => sample.status = "ok"
=============================================================================
