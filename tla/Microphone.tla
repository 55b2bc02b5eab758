----------------------------- MODULE Microphone -----------------------------
(***************************************************************************)
(* The microphone: the callback of the ADC collects samples, adc_thread    *)
(* transforms a full buffer in place.  The buffer passes between them by   *)
(* the flag sample alone, with no lock: the callback is an interrupt and   *)
(* comes between any two steps of the thread.  The thread's handshake with *)
(* net_thread is in SensorCollect.  A sample is its number.                *)
(***************************************************************************)
EXTENDS Integers, Sequences

CONSTANTS
    FFT_SIZE,
    AVG_CNT,
    MaxMicSamples   \* bound: the number of samples

ASSUME MicAssumption ==
    /\ FFT_SIZE \in Nat \ {0}
    /\ {AVG_CNT, MaxMicSamples} \subseteq Nat

VARIABLES
    data,          \* the number of the last sample
    sampleCount,   \* sample_count
    soundLevel,    \* sound_level: the last sample of the batch it is from
    sampling,      \* sample: the callback may fill the buffer
    sampleBuf,     \* sample_buf, in which 0 is not a sample
    fftCount,      \* fft_sample_count
    micFlags,      \* the flags of adc_thread in g_sensor_event_flags
    adcAt,         \* where adc_thread is
    actual,        \* its actual_flags
    value,         \* mic.value
    Output,        \* what it has transformed
    spectra,       \* the windows that fft_avg and fft_max are made of
    due            \* history: the windows that are full and not in them yet

micVars == <<data, sampleCount, soundLevel, sampling, sampleBuf, fftCount,
             micFlags, adcAt, actual, value, Output, spectra, due>>
threadVars == <<adcAt, actual, value, Output, spectra>>
callbackVars == <<data, sampleCount, soundLevel, fftCount>>

-----------------------------------------------------------------------------
\* g_adc_framework_user_callback: a batch is AVG_CNT + 2 samples
Batch(flags) ==
    IF sampleCount > AVG_CNT
    THEN /\ sampleCount' = 0
         /\ soundLevel' = data'
         /\ flags = {"batch"}
    ELSE /\ sampleCount' = sampleCount + 1
         /\ UNCHANGED soundLevel
         /\ flags = {}

\* the next place of the buffer, when the thread has no use for it
Window(flags) ==
    LET full == fftCount + 1 >= FFT_SIZE IN
    IF sampling
    THEN /\ sampleBuf' = [sampleBuf EXCEPT ![fftCount + 1] = data']
         /\ fftCount' = IF full THEN 0 ELSE fftCount + 1
         /\ sampling' = ~full
         /\ flags = IF full THEN {"fft"} ELSE {}
         /\ due' = IF full THEN due \union {sampleBuf'} ELSE due
    ELSE UNCHANGED <<sampleBuf, fftCount, sampling, due>> /\ flags = {}

Sample ==
    /\ data < MaxMicSamples
    /\ data' = data + 1
    /\ \E batch \in SUBSET {"batch"}, fft \in SUBSET {"fft"} :
          /\ Batch(batch)
          /\ Window(fft)
          /\ micFlags' = micFlags \union batch \union fft
    /\ UNCHANGED threadVars

\* net_thread asks for the aggregate, a T command has set thresholds
OtherFlag ==
    \E flag \in {"request", "threshold"} \ micFlags :
        /\ micFlags' = micFlags \union {flag}
        /\ UNCHANGED <<callbackVars, sampling, sampleBuf, threadVars, due>>

-----------------------------------------------------------------------------
GetFlags ==
    /\ adcAt = "get"
    /\ micFlags # {}
    /\ actual' = micFlags
    /\ micFlags' = {}
    /\ adcAt' = "batch"
    /\ UNCHANGED <<callbackVars, sampling, sampleBuf, value, Output, spectra, due>>

\* update_agg(&mic, sound_level): the level may be of a later batch by now
CountLevel ==
    /\ adcAt = "batch"
    /\ value' = IF "batch" \in actual THEN soundLevel ELSE value
    /\ adcAt' = IF "fft" \in actual THEN "fft" ELSE "transfer"
    /\ Output' = <<>>
    /\ UNCHANGED <<callbackVars, sampling, sampleBuf, micFlags, actual, spectra, due>>

\* mutant: the callback may go on when the transform has begun
AtOnce(n) == n = 1

\* sample = 1 follows arm_rfft_fast_f32
Finished(n) == n = FFT_SIZE

\* arm_rfft_fast_f32, which uses sample_buf for its work
Transform ==
    LET next == Len(Output) + 1 IN
    /\ adcAt = "fft"
    /\ Output' = Append(Output, sampleBuf[next])
    /\ sampleBuf' = [sampleBuf EXCEPT ![next] = 0]
    /\ sampling' = (sampling \/ Finished(next))
    /\ adcAt' = IF next = FFT_SIZE THEN "average" ELSE "fft"
    /\ UNCHANGED <<callbackVars, micFlags, actual, value, spectra, due>>

\* the sums and the maxima of the spectra, fft_cnt++
Average ==
    /\ adcAt = "average"
    /\ spectra' = spectra \union {Output}
    /\ due' = due \ {Output}
    /\ adcAt' = "transfer"
    /\ UNCHANGED <<callbackVars, sampling, sampleBuf, micFlags, actual, value, Output>>

\* maxima and averages are published and start anew; thresholds are copied
AnswerNet ==
    /\ adcAt = "transfer"
    /\ spectra' = IF "request" \in actual THEN {} ELSE spectra
    /\ adcAt' = "get"
    /\ UNCHANGED <<callbackVars, sampling, sampleBuf, micFlags, actual, value, Output, due>>

-----------------------------------------------------------------------------
MicInit ==
    /\ data = 0 /\ sampleCount = 0 /\ soundLevel = 0
    /\ sampling = TRUE
    /\ sampleBuf = [i \in 1..FFT_SIZE |-> 0]
    /\ fftCount = 0
    /\ micFlags = {} /\ actual = {}
    /\ adcAt = "get"
    /\ value = 0
    /\ Output = <<>>
    /\ spectra = {} /\ due = {}

AdcStep == GetFlags \/ CountLevel \/ Transform \/ Average \/ AnswerNet

MicNext == Sample \/ OtherFlag \/ AdcStep

\* adc_thread has a share of the processor; publishing returns
MicSpec == MicInit /\ [][MicNext]_micVars /\ WF_micVars(AdcStep)

-----------------------------------------------------------------------------
\* Of the hand-over of sample_buf: every window that the callback has filled
\* gets into the averages, each sample as it was measured, however late the
\* thread is and whatever other flags it finds with that of the window.
WindowsAveraged == due # {} ~> due = {}
=============================================================================
