--------------------------- MODULE SensorCollect ---------------------------
(***************************************************************************)
(* The collection protocol between net_thread, the sensor threads and the  *)
(* callback of the cloud agent: one event flag group, g_sensor_event_flags,*)
(* and the shared aggregates, the entries of the array sensors[].          *)
(*                                                                         *)
(* The aggregates that a thread copies, transfers and resets together are  *)
(* one here: x, y, z, temp1 and the three of the magnetic field, mic,      *)
(* temp2 and humidity, temp3 and pressure.  The entry voice_fft belongs to *)
(* none of them: a T command may address it, but adc_thread never copies   *)
(* its threshold, nor transfers its aggregate.                             *)
(*                                                                         *)
(* Scheduling is ThreadX's: net_thread (priority 14) preempts the sensor   *)
(* threads (priority 20, time sliced), so a sensor thread takes a step     *)
(* only while net_thread is blocked; interrupts and m1_callback, which     *)
(* runs in the agent's own thread, take steps at any time.                 *)
(*                                                                         *)
(* A running total and a running count are each represented by the set of  *)
(* the samples they include, so an aggregate is torn exactly when the two  *)
(* sets differ.  The samples of a sensor are numbered 1, 2, ... from reset.*)
(***************************************************************************)
EXTENDS Integers, FiniteSets

CONSTANTS
    Sensors,      \* the sensor threads: ADC, BMC, ENS, MS
    VoiceFft,     \* the entry voice_fft
    Thresholds,   \* the threshold values a T command may carry
    Off,          \* the threshold 0.0f, which disables threshold uploads
    Commands,     \* the kinds of command the cloud sends, a subset of Kinds
    MaxSamples,   \* bound: no sample is requested once this many are taken
    MaxCommands   \* bound: the number of commands the cloud sends

\* "S", "T": a message on the device topic.  "U": an update command on the
\* device topic (type 1), "Ug": one on the group topic (type 2).
Kinds == {"S", "T", "U", "Ug"}

ASSUME ConstantsAssumption ==
    /\ IsFiniteSet(Sensors)
    /\ Sensors # {}
    /\ VoiceFft \notin Sensors
    /\ Off \in Thresholds
    /\ Commands \subseteq Kinds
    /\ MaxSamples \in Nat
    /\ MaxCommands \in Nat

\* the array sensors[]
Entries == Sensors \cup {VoiceFft}

VARIABLES
    g_sensor_event_flags,   \* per sensor: request, complete, threshold, sample
    netPc,                  \* where net_thread is in its main loop
    g_update_firmware,      \* an update has been commanded
    sensors,                \* the shared aggregates (the array sensors[])
    threadPc,               \* where each sensor thread is in its loop
    actual_flags,           \* the flags a sensor thread has yet to serve
    agg,                    \* each sensor thread's own aggregate
    callback,               \* the progress of m1_callback within a command
    commands,               \* the number of commands received
    taken,                  \* history: samples aggregated since reset
    delivered,              \* history: samples handed to m1_publish_event
    waitAborted             \* history: a collection wait has been aborted

netVars    == <<netPc, g_update_firmware>>
threadVars == <<threadPc, actual_flags, agg, taken>>
cloudVars  == <<callback, commands>>
history    == <<delivered, waitAborted>>
vars == <<g_sensor_event_flags, netVars, sensors, threadVars, cloudVars,
          history>>

-----------------------------------------------------------------------------
Flags == {"request", "complete", "threshold", "sample"}

\* agg_t: the fields that are copied one at a time by another thread
Aggregate == [total : SUBSET Nat, count : SUBSET Nat,
              absolute_threshold : {0, 1}, threshold : Thresholds]

EmptyAggregate == [total |-> {}, count |-> {},
                   absolute_threshold |-> 0, threshold |-> Off]

NetPcs == {"check", "update", "sleep", "request", "get", "wait", "snapshot",
           "publish", "reset"}

ThreadPcs == {"init", "get", "sample", "absolute_threshold", "threshold",
              "total", "count", "complete", "reset_agg", "dead"}

Idle == [pc |-> "idle"]

CallbackStates ==
    {Idle} \cup [pc : {"abort"}]
           \cup [pc : {"write", "set"}, sensor : Entries,
                 threshold : Thresholds]

\* mutant: the collection waits with TX_OR_CLEAR
AnyComplete == \E s \in Sensors : "complete" \in g_sensor_event_flags[s]

AllComplete == \A s \in Sensors : "complete" \in g_sensor_event_flags[s]

\* net_thread gives up the processor here, and only here
NetBlocked == \/ netPc \in {"update", "sleep", "publish"}
              \/ netPc = "wait" /\ ~AllComplete

\* The state at line 747: connected, sensor threads just resumed.
Init ==
    /\ g_sensor_event_flags = [s \in Sensors |-> {}]
    /\ netPc = "check"
    /\ g_update_firmware = FALSE
    /\ sensors = [e \in Entries |-> EmptyAggregate]
    /\ threadPc = [s \in Sensors |-> "init"]
    /\ actual_flags = [s \in Sensors |-> {}]
    /\ agg = [s \in Sensors |-> EmptyAggregate]
    /\ callback = Idle
    /\ commands = 0
    /\ taken = [s \in Sensors |-> 0]
    /\ delivered = [s \in Sensors |-> {}]
    /\ waitAborted = FALSE

-----------------------------------------------------------------------------
(* net_thread: the main loop of net_thread_entry *)

NetCheck ==
    /\ netPc = "check"
    /\ netPc' = IF g_update_firmware THEN "update" ELSE "sleep"
    /\ UNCHANGED <<g_sensor_event_flags, g_update_firmware, sensors,
                   threadVars, cloudVars, history>>

\* update_firmware and what follows it: reset into the new image, or, after
\* any error, forget the command and go on
NetUpdate ==
    /\ netPc = "update"
    /\ \/ netPc' = "reset" /\ UNCHANGED g_update_firmware
       \/ netPc' = "sleep" /\ g_update_firmware' = FALSE
    /\ UNCHANGED <<g_sensor_event_flags, sensors, threadVars, cloudVars,
                   history>>

NetWakeUp ==
    /\ netPc = "sleep"
    /\ netPc' = "request"
    /\ UNCHANGED <<g_sensor_event_flags, g_update_firmware, sensors,
                   threadVars, cloudVars, history>>

NetRequest ==
    /\ netPc = "request"
    /\ g_sensor_event_flags' =
         [s \in Sensors |-> g_sensor_event_flags[s] \cup {"request"}]
    /\ netPc' = "get"
    /\ UNCHANGED <<g_update_firmware, sensors, threadVars, cloudVars, history>>

\* mutant: the flags are not cleared (TX_AND)
NetCollectedKeepFlags ==
    /\ netPc \in {"get", "wait"}
    /\ AllComplete
    /\ netPc' = "snapshot"
    /\ UNCHANGED <<g_sensor_event_flags, g_update_firmware, sensors,
                   threadVars, cloudVars, history>>

\* tx_event_flags_get(..., TX_AND_CLEAR, ..., 100) finds all four flags ...
NetCollected ==
    /\ netPc \in {"get", "wait"}
    /\ AllComplete
    /\ g_sensor_event_flags' =
         [s \in Sensors |-> g_sensor_event_flags[s] \ {"complete"}]
    /\ netPc' = "snapshot"
    /\ UNCHANGED <<g_update_firmware, sensors, threadVars, cloudVars, history>>

\* ... or suspends net_thread ...
NetWait ==
    /\ netPc = "get"
    /\ ~AllComplete
    /\ netPc' = "wait"
    /\ UNCHANGED <<g_sensor_event_flags, g_update_firmware, sensors,
                   threadVars, cloudVars, history>>

\* mutant: what has arrived is published instead of resetting the board
NetTimeoutPublish ==
    /\ netPc = "wait"
    /\ ~AllComplete
    /\ netPc' = "snapshot"
    /\ UNCHANGED <<g_sensor_event_flags, g_update_firmware, sensors,
                   threadVars, cloudVars, history>>

\* mutant: the request is repeated instead of resetting the board
NetTimeoutRetry ==
    /\ netPc = "wait"
    /\ ~AllComplete
    /\ netPc' = "request"
    /\ UNCHANGED <<g_sensor_event_flags, g_update_firmware, sensors,
                   threadVars, cloudVars, history>>

\* ... or returns TX_NO_EVENTS after 100 ticks, and the board is reset
NetTimeout ==
    /\ netPc = "wait"
    /\ ~AllComplete
    /\ netPc' = "reset"
    /\ UNCHANGED <<g_sensor_event_flags, g_update_firmware, sensors,
                   threadVars, cloudVars, history>>

\* The event is composed from the shared aggregates with a count and handed
\* to m1_publish_event, where net_thread may block.
NetPublish ==
    /\ netPc = "snapshot"
    /\ delivered' =
         [s \in Sensors |-> delivered[s] \cup sensors[s].count]
    /\ netPc' = "publish"
    /\ UNCHANGED <<g_sensor_event_flags, g_update_firmware, sensors,
                   threadVars, cloudVars, waitAborted>>

NetPublished ==
    /\ netPc = "publish"
    /\ netPc' = "check"
    /\ UNCHANGED <<g_sensor_event_flags, g_update_firmware, sensors,
                   threadVars, cloudVars, history>>

\* A write to SCB->AIRCR restarts the program; the cloud keeps its count.
Reboot ==
    /\ netPc = "reset"
    /\ g_sensor_event_flags' = [s \in Sensors |-> {}]
    /\ netPc' = "check"
    /\ g_update_firmware' = FALSE
    /\ sensors' = [e \in Entries |-> EmptyAggregate]
    /\ threadPc' = [s \in Sensors |-> "init"]
    /\ actual_flags' = [s \in Sensors |-> {}]
    /\ agg' = [s \in Sensors |-> EmptyAggregate]
    /\ callback' = Idle
    /\ taken' = [s \in Sensors |-> 0]
    /\ delivered' = [s \in Sensors |-> {}]
    /\ waitAborted' = FALSE
    /\ UNCHANGED commands

Net == \/ NetCheck \/ NetUpdate \/ NetWakeUp \/ NetRequest \/ NetCollected
       \/ NetWait \/ NetTimeout \/ NetPublish \/ NetPublished \/ Reboot

-----------------------------------------------------------------------------
(* The sensor threads: the loops of adc_, bmc_, ens_ and ms_thread_entry   *)

\* where a thread goes that still has the flags F to serve
NextPc(F) == IF "sample" \in F THEN "sample"
             ELSE IF "threshold" \in F THEN "absolute_threshold"
             ELSE IF "request" \in F THEN "total"
             ELSE "get"

Goto(s, F) == /\ threadPc' = [threadPc EXCEPT ![s] = NextPc(F)]
              /\ actual_flags' = [actual_flags EXCEPT ![s] = F]

Advance(s, pc) == threadPc' = [threadPc EXCEPT ![s] = pc]

\* The device is set up, or the thread suspends itself or returns for good.
SensorInit(s) ==
    /\ NetBlocked
    /\ threadPc[s] = "init"
    /\ \/ Advance(s, "get")
       \/ Advance(s, "dead")
    /\ UNCHANGED <<g_sensor_event_flags, netVars, sensors, actual_flags, agg,
                   taken, cloudVars, history>>

\* mutant: the thread also takes its own complete flag
SensorGetAll(s) ==
    /\ NetBlocked
    /\ threadPc[s] = "get"
    /\ g_sensor_event_flags[s] # {}
    /\ Goto(s, g_sensor_event_flags[s])
    /\ g_sensor_event_flags' = [g_sensor_event_flags EXCEPT ![s] = {}]
    /\ UNCHANGED <<netVars, sensors, agg, taken, cloudVars, history>>

SensorGet(s) ==
    LET found == g_sensor_event_flags[s] \ {"complete"} IN
    /\ NetBlocked
    /\ threadPc[s] = "get"
    /\ found # {}
    /\ Goto(s, found)
    /\ g_sensor_event_flags' = [g_sensor_event_flags EXCEPT ![s] = @ \ found]
    /\ UNCHANGED <<netVars, sensors, agg, taken, cloudVars, history>>

update_agg(a, n) == [a EXCEPT !.total = @ \cup {n}, !.count = @ \cup {n}]

\* the sample is aggregated, unless the device could not be read
SensorSample(s) ==
    /\ NetBlocked
    /\ threadPc[s] = "sample"
    /\ Goto(s, actual_flags[s] \ {"sample"})
    /\ \/ /\ agg' = [agg EXCEPT ![s] = update_agg(@, taken[s] + 1)]
          /\ taken' = [taken EXCEPT ![s] = @ + 1]
       \/ UNCHANGED <<agg, taken>>
    /\ UNCHANGED <<g_sensor_event_flags, netVars, sensors, cloudVars, history>>

\* the driver's blocking call for a transfer never returns
SensorHang(s) ==
    /\ NetBlocked
    /\ threadPc[s] = "sample"
    /\ Advance(s, "dead")
    /\ UNCHANGED <<g_sensor_event_flags, netVars, sensors, actual_flags, agg,
                   taken, cloudVars, history>>

\* update_threshold copies the two fields one after the other.
SensorAbsoluteThreshold(s) ==
    /\ NetBlocked
    /\ threadPc[s] = "absolute_threshold"
    /\ agg' = [agg EXCEPT ![s].absolute_threshold =
                                 sensors[s].absolute_threshold]
    /\ Advance(s, "threshold")
    /\ UNCHANGED <<g_sensor_event_flags, netVars, sensors, actual_flags, taken,
                   cloudVars, history>>

\* mutant: the flag is cleared after the copy instead of before it
SensorThresholdClearsLate(s) ==
    /\ NetBlocked
    /\ threadPc[s] = "threshold"
    /\ agg' = [agg EXCEPT ![s].threshold = sensors[s].threshold]
    /\ Goto(s, actual_flags[s] \ {"threshold"})
    /\ g_sensor_event_flags' =
         [g_sensor_event_flags EXCEPT ![s] = @ \ {"threshold"}]
    /\ UNCHANGED <<netVars, sensors, taken, cloudVars, history>>

SensorThreshold(s) ==
    /\ NetBlocked
    /\ threadPc[s] = "threshold"
    /\ agg' = [agg EXCEPT ![s].threshold = sensors[s].threshold]
    /\ Goto(s, actual_flags[s] \ {"threshold"})
    /\ UNCHANGED <<g_sensor_event_flags, netVars, sensors, taken, cloudVars,
                   history>>

\* transfer_agg, field by field, then the flag, then reset_agg
SensorTotal(s) ==
    /\ NetBlocked
    /\ threadPc[s] = "total"
    /\ sensors' = [sensors EXCEPT ![s].total = agg[s].total]
    /\ Advance(s, "count")
    /\ UNCHANGED <<g_sensor_event_flags, netVars, actual_flags, agg, taken,
                   cloudVars, history>>

\* mutant: transfer_agg omits the count
SensorCountOmitted(s) ==
    /\ NetBlocked
    /\ threadPc[s] = "count"
    /\ Advance(s, "complete")
    /\ UNCHANGED <<g_sensor_event_flags, netVars, sensors, actual_flags, agg,
                   taken, cloudVars, history>>

SensorCount(s) ==
    /\ NetBlocked
    /\ threadPc[s] = "count"
    /\ sensors' = [sensors EXCEPT ![s].count = agg[s].count]
    /\ Advance(s, "complete")
    /\ UNCHANGED <<g_sensor_event_flags, netVars, actual_flags, agg, taken,
                   cloudVars, history>>

SensorComplete(s) ==
    /\ NetBlocked
    /\ threadPc[s] = "complete"
    /\ g_sensor_event_flags' =
         [g_sensor_event_flags EXCEPT ![s] = @ \cup {"complete"}]
    /\ Advance(s, "reset_agg")
    /\ UNCHANGED <<netVars, sensors, actual_flags, agg, taken, cloudVars,
                   history>>

reset_agg(a) == [a EXCEPT !.total = {}, !.count = {}]

\* mutant: reset_agg is forgotten
SensorResetOmitted(s) ==
    /\ NetBlocked
    /\ threadPc[s] = "reset_agg"
    /\ Goto(s, {})
    /\ UNCHANGED <<g_sensor_event_flags, netVars, sensors, agg, taken,
                   cloudVars, history>>

SensorReset(s) ==
    /\ NetBlocked
    /\ threadPc[s] = "reset_agg"
    /\ agg' = [agg EXCEPT ![s] = reset_agg(@)]
    /\ Goto(s, {})
    /\ UNCHANGED <<g_sensor_event_flags, netVars, sensors, taken, cloudVars,
                   history>>

\* every step of a sensor thread that does not depend on its device
SensorWork(s) ==
    \/ SensorGet(s) \/ SensorAbsoluteThreshold(s) \/ SensorThreshold(s)
    \/ SensorTotal(s) \/ SensorCount(s) \/ SensorComplete(s) \/ SensorReset(s)

SensorDevice(s) == SensorInit(s) \/ SensorSample(s) \/ SensorHang(s)

Sensor(s) == SensorWork(s) \/ SensorDevice(s)

\* sensor_scheduler and the batch end of the ADC callback, both interrupts
SampleRequest(s) ==
    /\ netPc # "reset"
    /\ taken[s] < MaxSamples
    /\ g_sensor_event_flags' =
         [g_sensor_event_flags EXCEPT ![s] = @ \cup {"sample"}]
    /\ UNCHANGED <<netVars, sensors, threadVars, cloudVars, history>>

-----------------------------------------------------------------------------
(* m1_callback *)

\* tx_thread_wait_abort(&net_thread): ends a sleep or a flag wait; has no
\* effect on a thread that is not suspended, and here none on the waits
\* inside update_firmware and m1_publish_event.
WaitAbort ==
    LET waiting == netPc = "wait" /\ ~AllComplete IN
    /\ netPc' = CASE netPc = "sleep" -> "request"
                  [] waiting -> "snapshot"
                  [] OTHER -> netPc
    /\ waitAborted' = (waitAborted \/ waiting)

Receive(kind) ==
    /\ netPc # "reset"
    /\ callback = Idle
    /\ kind \in Commands
    /\ commands < MaxCommands
    /\ commands' = commands + 1

\* sample_period itself is not part of this module: see SamplePeriod
CommandS ==
    /\ Receive("S")
    /\ WaitAbort
    /\ UNCHANGED <<g_sensor_event_flags, g_update_firmware, sensors,
                   threadVars, callback, delivered>>

\* absolute_threshold, then threshold, then the flags of all sensors
CommandT(e, absolute, value) ==
    /\ Receive("T")
    /\ sensors' = [sensors EXCEPT ![e].absolute_threshold = absolute]
    /\ callback' = [pc |-> "write", sensor |-> e, threshold |-> value]
    /\ UNCHANGED <<g_sensor_event_flags, netVars, threadVars, history>>

WriteThreshold ==
    /\ netPc # "reset"
    /\ callback.pc = "write"
    /\ sensors' = [sensors EXCEPT ![callback.sensor].threshold =
                                         callback.threshold]
    /\ callback' = [callback EXCEPT !.pc = "set"]
    /\ UNCHANGED <<g_sensor_event_flags, netVars, threadVars, commands,
                   history>>

\* mutant: only the sensors other than the addressed one are told
SetThresholdFlagsOfOthers ==
    /\ netPc # "reset"
    /\ callback.pc = "set"
    /\ g_sensor_event_flags' =
         [s \in Sensors |-> IF s = callback.sensor THEN g_sensor_event_flags[s]
                            ELSE g_sensor_event_flags[s] \cup {"threshold"}]
    /\ callback' = Idle
    /\ UNCHANGED <<netVars, sensors, threadVars, commands, history>>

SetThresholdFlags ==
    /\ netPc # "reset"
    /\ callback.pc = "set"
    /\ g_sensor_event_flags' =
         [s \in Sensors |-> g_sensor_event_flags[s] \cup {"threshold"}]
    /\ callback' = Idle
    /\ UNCHANGED <<netVars, sensors, threadVars, commands, history>>

\* an update to another version than the running one
CommandU ==
    /\ Receive("U")
    /\ g_update_firmware' = TRUE
    /\ callback' = [pc |-> "abort"]
    /\ UNCHANGED <<g_sensor_event_flags, netPc, sensors, threadVars, history>>

AbortForUpdate ==
    /\ netPc # "reset"
    /\ callback.pc = "abort"
    /\ WaitAbort
    /\ callback' = Idle
    /\ UNCHANGED <<g_sensor_event_flags, g_update_firmware, sensors,
                   threadVars, commands, delivered>>

CommandUg ==
    /\ Receive("Ug")
    /\ g_update_firmware' = TRUE
    /\ UNCHANGED <<g_sensor_event_flags, netPc, sensors, threadVars, callback,
                   history>>

CallbackStep == WriteThreshold \/ SetThresholdFlags \/ AbortForUpdate

Cloud ==
    \/ CommandS \/ CommandU \/ CommandUg
    \/ \E e \in Entries, absolute \in {0, 1}, value \in Thresholds :
          CommandT(e, absolute, value)
    \/ CallbackStep

-----------------------------------------------------------------------------
Next == \/ Net
        \/ \E s \in Sensors : Sensor(s)
        \/ \E s \in Sensors : SampleRequest(s)
        \/ Cloud

Spec == Init /\ [][Next]_vars

\* Every thread that can run does: ThreadX never leaves a ready thread of the
\* highest ready priority waiting, and slices among equals.  A device may
\* take for ever (SensorDevice has no fairness), a timer does not.
Fairness == /\ WF_vars(Net)
            /\ \A s \in Sensors : WF_vars(SensorWork(s))
            /\ WF_vars(CallbackStep)

FairSpec == Spec /\ Fairness

-----------------------------------------------------------------------------
(* Properties *)

\* Every variable has its type.
TypeOK ==
    /\ g_sensor_event_flags \in [Sensors -> SUBSET Flags]
    /\ netPc \in NetPcs
    /\ g_update_firmware \in BOOLEAN
    /\ sensors \in [Entries -> Aggregate]
    /\ threadPc \in [Sensors -> ThreadPcs]
    /\ actual_flags \in [Sensors -> SUBSET (Flags \ {"complete"})]
    /\ agg \in [Sensors -> Aggregate]
    /\ callback \in CallbackStates
    /\ commands \in Nat
    /\ taken \in [Sensors -> Nat]
    /\ delivered \in [Sensors -> SUBSET Nat]
    /\ waitAborted \in BOOLEAN

\* the samples of the aggregate that s is building: until reset_agg, the ones
\* of the aggregate just transferred are no longer among them
Open(s) == IF threadPc[s] = "reset_agg" THEN {} ELSE agg[s].count

\* s has answered for the event that net_thread composes next
Answered(s) == \/ "complete" \in g_sensor_event_flags[s]
               \/ netPc = "snapshot"

Batch(s) == IF Answered(s) THEN sensors[s].count ELSE {}

\* s has a request to answer
Serving(s) == \/ "request" \in g_sensor_event_flags[s]
              \/ "request" \in actual_flags[s] /\ threadPc[s] # "reset_agg"

HandshakeOf(s) ==
    /\ netPc \in {"get", "wait"} =>
          (Serving(s) <=> "complete" \notin g_sensor_event_flags[s])
    /\ netPc \notin {"get", "wait", "reset"} =>
          ~Serving(s) /\ "complete" \notin g_sensor_event_flags[s]

\* Between two collections no thread is answering and no answer is left over;
\* during one, every sensor either has a request to answer or has answered it:
\* the request and complete flags of lines 783 and 784 never count a round
\* twice.  It holds as long as no command has aborted a collection wait.
Handshake == ~waitAborted => \A s \in Sensors : HandshakeOf(s)

ExactlyOnceOf(s) ==
    /\ delivered[s] \cup Batch(s) \cup Open(s) = 1..taken[s]
    /\ delivered[s] \cap Batch(s) = {}
    /\ delivered[s] \cap Open(s) = {}
    /\ Batch(s) \cap Open(s) = {}

\* No sample is lost and none is counted twice, whatever is preempted where:
\* the samples of each sensor are split between the published aggregates, the
\* one that waits to be published and the one being built.  This is the
\* purpose of the request and complete flags (net_thread_entry lines 782-807
\* and the transfer branch of each sensor thread); same proviso.
ExactlyOnce == ~waitAborted => \A s \in Sensors : ExactlyOnceOf(s)

\* A published aggregate is whole: its total and its count are over the same
\* samples, although they are copied one at a time by a thread that
\* net_thread preempts; same proviso.
SnapshotWhole ==
    ~waitAborted /\ netPc = "snapshot" =>
        \A s \in Sensors : sensors[s].total = sensors[s].count

StableStep ==
    (\E s \in Sensors : \/ sensors'[s].total # sensors[s].total
                        \/ sensors'[s].count # sensors[s].count)
        => netPc \in {"wait", "reset"} \/ waitAborted

\* net_thread composes an event without a lock (lines 796-803), so the shared
\* aggregates may change only while it waits for them; same proviso.
SharedStable == [][StableStep]_vars

ToCopy(s, pcs) ==
    \/ "threshold" \in g_sensor_event_flags[s]
    \/ "threshold" \in actual_flags[s] /\ threadPc[s] \in pcs

Writing(s, pcs) == callback.pc \in pcs /\ callback.sensor = s

PendingOf(s) ==
    /\ agg[s].absolute_threshold # sensors[s].absolute_threshold =>
           \/ ToCopy(s, {"dead", "sample", "absolute_threshold"})
           \/ Writing(s, {"write", "set"})
    /\ agg[s].threshold # sensors[s].threshold =>
           \/ ToCopy(s, {"dead", "sample", "absolute_threshold", "threshold"})
           \/ Writing(s, {"set"})

\* A threshold on its way to a sensor thread is never forgotten: while the
\* thread's copy of a field differs from the shared one, the thread is still
\* to copy it, or has a flag that will make it do so, or the callback is
\* still to set that flag (line 243, after the writes of lines 238 and 239).
ThresholdPending == \A s \in Sensors : PendingOf(s)

\* Every sample in an aggregate is published in the end, unless the board is
\* reset or a command aborts a collection.
SampleDelivered ==
    \A s \in Sensors : \A n \in 1..(MaxSamples + 1) :
        n \in agg[s].count ~> \/ n \in delivered[s]
                              \/ netPc = "reset"
                              \/ waitAborted

\* A sensor thread that has stopped, because its device cannot be set up or a
\* transfer does not come back (lines 514-515 of the source), gets the
\* board reset, however many commands (their number is bounded) come first.
DeadSensorReset ==
    \A s \in Sensors : threadPc[s] = "dead" ~> netPc = "reset"

\* A threshold reaches its sensor thread, or the thread stops and the board is
\* reset.  Not so the threshold of voice_fft, which is accepted and flagged
\* (lines 231-246) and stays where it is: update_threshold is called for mic
\* only (adc_thread_entry lines 142-144).
ThresholdApplied ==
    \A s \in Sensors :
        agg[s].threshold # sensors[s].threshold
            ~> agg[s].threshold = sensors[s].threshold \/ netPc = "reset"

\* The protocol implements AggregateDelivery: each event holds one closed
\* aggregate of every sensor thread, and each sample is in exactly one of them,
\* until a command forces an event by ending the wait of line 784 early.
Delivery == INSTANCE AggregateDelivery WITH
    open   <- [s \in Sensors |-> Open(s)],
    closed <- {s \in Sensors : Answered(s)},
    batch  <- [s \in Sensors |-> Batch(s)],
    forced <- waitAborted

DeliverySpec == Delivery!Spec

\* What lines 513-516 of the source promise: events are published after the
\* sensor aggregates have been received, so an aggregate that is published
\* (line 797: one with a count) is whole and has not been published before.
PublishedAfterReceived ==
    netPc = "snapshot" =>
        \A s \in Sensors :
            sensors[s].count # {} =>
                /\ sensors[s].total = sensors[s].count
                /\ sensors[s].count \cap delivered[s] = {}
=============================================================================
