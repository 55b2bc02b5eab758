------------------------ MODULE SensorCollect_proofs ------------------------
(***************************************************************************)
(* Proofs about SensorCollect, for any sensors, thresholds and commands    *)
(* and without bounds on samples and commands other than the constants.    *)
(***************************************************************************)
EXTENDS SensorCollect, TLAPS

USE ConstantsAssumption DEF Entries

LEMMA NextPcType ==
    ASSUME NEW F
    PROVE  NextPc(F) \in {"get", "sample", "absolute_threshold", "total"}
BY DEF NextPc

LEMMA CallbackType ==
    ASSUME TypeOK, callback.pc \in {"write", "set"}
    PROVE  callback.sensor \in Entries /\ callback.threshold \in Thresholds
BY DEF TypeOK, CallbackStates, Idle

LEMMA SharedType ==
    ASSUME NEW s \in Sensors, TypeOK
    PROVE  sensors[s] \in Aggregate /\ agg[s] \in Aggregate
BY DEF TypeOK

LEMMA FieldUpdate ==
    ASSUME NEW D, NEW A \in [D -> Aggregate], NEW s \in D,
           NEW T \in SUBSET Nat, NEW C \in SUBSET Nat, NEW b \in {0, 1},
           NEW v \in Thresholds
    PROVE  /\ [A EXCEPT ![s].total = T] \in [D -> Aggregate]
           /\ [A EXCEPT ![s].count = C] \in [D -> Aggregate]
           /\ [A EXCEPT ![s].absolute_threshold = b] \in [D -> Aggregate]
           /\ [A EXCEPT ![s].threshold = v] \in [D -> Aggregate]
<1>1. [A[s] EXCEPT !.total = T] \in Aggregate
      BY DEF Aggregate
<1>2. [A[s] EXCEPT !.count = C] \in Aggregate
      BY DEF Aggregate
<1>3. [A[s] EXCEPT !.absolute_threshold = b] \in Aggregate
      BY DEF Aggregate
<1>4. [A[s] EXCEPT !.threshold = v] \in Aggregate
      BY DEF Aggregate
<1> QED BY <1>1, <1>2, <1>3, <1>4

LEMMA SamplesUpdate ==
    ASSUME NEW a \in Aggregate, NEW n \in Nat
    PROVE  update_agg(a, n) \in Aggregate /\ reset_agg(a) \in Aggregate
BY DEF Aggregate, update_agg, reset_agg

LEMMA InitType == Init => TypeOK
<1> SUFFICES ASSUME Init PROVE TypeOK
    OBVIOUS
<1>1. EmptyAggregate \in Aggregate
      BY DEF EmptyAggregate, Aggregate
<1>2. Idle \in CallbackStates
      BY DEF CallbackStates
<1>3. "check" \in NetPcs /\ "init" \in ThreadPcs
      BY DEF NetPcs, ThreadPcs
<1> QED BY <1>1, <1>2, <1>3 DEF Init, TypeOK

LEMMA NetType == TypeOK /\ Net => TypeOK'
<1> SUFFICES ASSUME TypeOK, Net PROVE TypeOK'
    OBVIOUS
<1> USE DEF netVars, threadVars, cloudVars, history
<1>1. CASE NetCheck
      BY <1>1 DEF NetCheck, TypeOK, NetPcs
<1>2. CASE NetUpdate
      BY <1>2 DEF NetUpdate, TypeOK, NetPcs
<1>3. CASE NetWakeUp
      BY <1>3 DEF NetWakeUp, TypeOK, NetPcs
<1>4. CASE NetRequest
      BY <1>4 DEF NetRequest, TypeOK, NetPcs, Flags
<1>5. CASE NetCollected
      BY <1>5 DEF NetCollected, TypeOK, NetPcs
<1>6. CASE NetWait
      BY <1>6 DEF NetWait, TypeOK, NetPcs
<1>7. CASE NetTimeout
      BY <1>7 DEF NetTimeout, TypeOK, NetPcs
<1>8. CASE NetPublish
      BY <1>8 DEF NetPublish, TypeOK, NetPcs, Aggregate
<1>9. CASE NetPublished
      BY <1>9 DEF NetPublished, TypeOK, NetPcs
<1>10. CASE Reboot
      BY <1>10 DEF Reboot, TypeOK, NetPcs, ThreadPcs, Aggregate,
                   EmptyAggregate, CallbackStates, Idle
<1> QED BY <1>1, <1>2, <1>3, <1>4, <1>5, <1>6, <1>7, <1>8, <1>9, <1>10 DEF Net

LEMMA SensorType ==
    ASSUME NEW s \in Sensors, TypeOK, Sensor(s)
    PROVE  TypeOK'
<1> USE DEF netVars, threadVars, cloudVars, history, Goto, Advance
<1>1. CASE SensorInit(s)
      BY <1>1 DEF SensorInit, TypeOK, ThreadPcs
<1>2. CASE SensorGet(s)
      BY <1>2, NextPcType DEF SensorGet, TypeOK, ThreadPcs
<1>3. CASE SensorSample(s)
  <2>1. agg[s] \in Aggregate /\ taken[s] + 1 \in Nat
        BY DEF TypeOK
  <2>2. agg' \in [Sensors -> Aggregate]
    <3>1. update_agg(agg[s], taken[s] + 1) \in Aggregate
          BY <2>1, SamplesUpdate
    <3>2. \/ agg' = [agg EXCEPT ![s] = update_agg(agg[s], taken[s] + 1)]
          \/ agg' = agg
          BY <1>3 DEF SensorSample
    <3> QED BY <3>1, <3>2 DEF TypeOK
  <2>3. taken' \in [Sensors -> Nat]
    <3>1. \/ taken' = [taken EXCEPT ![s] = taken[s] + 1]
          \/ taken' = taken
          BY <1>3 DEF SensorSample
    <3> QED BY <2>1, <3>1 DEF TypeOK
  <2>4. /\ threadPc' \in [Sensors -> ThreadPcs]
        /\ actual_flags' \in [Sensors -> SUBSET (Flags \ {"complete"})]
        BY <1>3, NextPcType DEF SensorSample, TypeOK, ThreadPcs
  <2> QED BY <1>3, <2>2, <2>3, <2>4 DEF SensorSample, TypeOK
<1>4. CASE SensorHang(s)
      BY <1>4 DEF SensorHang, TypeOK, ThreadPcs
<1>5. CASE SensorAbsoluteThreshold(s)
  <2>1. agg' \in [Sensors -> Aggregate]
    <3>1. /\ sensors[s].absolute_threshold \in {0, 1}
          /\ agg[s].threshold \in Thresholds /\ {} \in SUBSET Nat
          /\ agg \in [Sensors -> Aggregate]
          BY SharedType DEF TypeOK, Aggregate
    <3> QED BY <1>5, <3>1, FieldUpdate DEF SensorAbsoluteThreshold
  <2> QED BY <1>5, <2>1 DEF SensorAbsoluteThreshold, TypeOK, ThreadPcs
<1>6. CASE SensorThreshold(s)
  <2>1. agg' \in [Sensors -> Aggregate]
    <3>1. /\ sensors[s].threshold \in Thresholds
          /\ agg \in [Sensors -> Aggregate]
          BY SharedType DEF TypeOK, Aggregate
    <3>2. agg' = [agg EXCEPT ![s].threshold = sensors[s].threshold]
          BY <1>6 DEF SensorThreshold
    <3>3. [agg[s] EXCEPT !.threshold = sensors[s].threshold] \in Aggregate
          BY <3>1, SharedType DEF Aggregate
    <3> QED BY <3>1, <3>2, <3>3
  <2> QED BY <1>6, <2>1, NextPcType DEF SensorThreshold, TypeOK, ThreadPcs
<1>7. CASE SensorTotal(s)
  <2>1. /\ agg[s].total \in SUBSET Nat /\ agg[s].count \in SUBSET Nat
        /\ s \in Entries /\ sensors \in [Entries -> Aggregate]
        /\ {} \in SUBSET Nat /\ 0 \in {0, 1} /\ agg[s].threshold \in Thresholds
        BY SharedType DEF TypeOK, Aggregate
  <2>2. sensors' \in [Entries -> Aggregate]
        BY <1>7, <2>1, FieldUpdate DEF SensorTotal
  <2> QED BY <1>7, <2>2 DEF SensorTotal, TypeOK, ThreadPcs
<1>8. CASE SensorCount(s)
  <2>1. /\ agg[s].total \in SUBSET Nat /\ agg[s].count \in SUBSET Nat
        /\ s \in Entries /\ sensors \in [Entries -> Aggregate]
        /\ {} \in SUBSET Nat /\ 0 \in {0, 1} /\ agg[s].threshold \in Thresholds
        BY SharedType DEF TypeOK, Aggregate
  <2>2. sensors' \in [Entries -> Aggregate]
        BY <1>8, <2>1, FieldUpdate DEF SensorCount
  <2> QED BY <1>8, <2>2 DEF SensorCount, TypeOK, ThreadPcs
<1>9. CASE SensorComplete(s)
      BY <1>9 DEF SensorComplete, TypeOK, ThreadPcs, Flags
<1>10. CASE SensorReset(s)
  <2>1. agg' \in [Sensors -> Aggregate]
        BY <1>10, SamplesUpdate DEF SensorReset, TypeOK
  <2> QED BY <1>10, <2>1, NextPcType DEF SensorReset, TypeOK, ThreadPcs
<1> QED BY <1>1, <1>2, <1>3, <1>4, <1>5, <1>6, <1>7, <1>8, <1>9, <1>10
        DEF Sensor, SensorWork, SensorDevice

LEMMA CloudType == TypeOK /\ Cloud => TypeOK'
<1> SUFFICES ASSUME TypeOK, Cloud PROVE TypeOK'
    OBVIOUS
<1> USE DEF netVars, threadVars, cloudVars, history, Receive, WaitAbort
<1>1. CASE CommandS
      BY <1>1 DEF CommandS, TypeOK, NetPcs
<1>2. ASSUME NEW s \in Entries, NEW absolute \in {0, 1},
             NEW value \in Thresholds, CommandT(s, absolute, value)
      PROVE  TypeOK'
  <2>1. sensors' \in [Entries -> Aggregate]
        BY <1>2, FieldUpdate DEF CommandT, TypeOK
  <2> QED BY <1>2, <2>1 DEF CommandT, TypeOK, CallbackStates
<1>3. CASE WriteThreshold
  <2>1. sensors' \in [Entries -> Aggregate]
        BY <1>3, CallbackType, FieldUpdate DEF WriteThreshold, TypeOK
  <2>2. callback' \in CallbackStates
        BY <1>3 DEF WriteThreshold, TypeOK, CallbackStates, Idle
  <2> QED BY <1>3, <2>1, <2>2 DEF WriteThreshold, TypeOK
<1>4. CASE SetThresholdFlags
      BY <1>4 DEF SetThresholdFlags, TypeOK, Flags, CallbackStates
<1>5. CASE CommandU
      BY <1>5 DEF CommandU, TypeOK, CallbackStates
<1>6. CASE AbortForUpdate
      BY <1>6 DEF AbortForUpdate, TypeOK, NetPcs, CallbackStates
<1>7. CASE CommandUg
      BY <1>7 DEF CommandUg, TypeOK
<1> QED BY <1>1, <1>2, <1>3, <1>4, <1>5, <1>6, <1>7 DEF Cloud, CallbackStep

\* Every variable keeps its type in every behaviour of the collection
\* protocol, for every set of sensors and thresholds.
THEOREM Typing == Spec => []TypeOK
<1>1. TypeOK /\ [Next]_vars => TypeOK'
  <2> SUFFICES ASSUME TypeOK, [Next]_vars PROVE TypeOK'
      OBVIOUS
  <2>1. CASE Net
        BY <2>1, NetType
  <2>2. ASSUME NEW s \in Sensors, Sensor(s) PROVE TypeOK'
        BY <2>2, SensorType
  <2>3. ASSUME NEW s \in Sensors, SampleRequest(s) PROVE TypeOK'
        BY <2>3 DEF SampleRequest, TypeOK, Flags, netVars, threadVars,
                    cloudVars, history
  <2>4. CASE Cloud
        BY <2>4, CloudType
  <2>5. CASE UNCHANGED vars
        BY <2>5 DEF vars, netVars, threadVars, cloudVars, history, TypeOK
  <2> QED BY <2>1, <2>2, <2>3, <2>4, <2>5 DEF Next
<1> QED BY InitType, <1>1, PTL DEF Spec

-----------------------------------------------------------------------------
(* The inductive invariant of the hand-over                                *)

\* What a sensor thread's position says of the flags it holds and of how much
\* of its aggregate it has copied; true whatever the cloud sends.
Local(s) ==
    /\ threadPc[s] \in {"init", "get"} => actual_flags[s] = {}
    /\ threadPc[s] = "sample" => "sample" \in actual_flags[s]
    /\ threadPc[s] \in {"absolute_threshold", "threshold"} =>
           "threshold" \in actual_flags[s] /\ "sample" \notin actual_flags[s]
    /\ threadPc[s] \in {"total", "count", "complete", "reset_agg"} =>
           actual_flags[s] = {"request"}
    /\ agg[s].total = agg[s].count
    /\ threadPc[s] \in {"count", "complete"} =>
           sensors[s].total = agg[s].total
    /\ threadPc[s] = "complete" => sensors[s].count = agg[s].count

\* The request is in one place only.
OneRequest(s) ==
    ~ /\ "request" \in g_sensor_event_flags[s]
      /\ "request" \in actual_flags[s]
      /\ threadPc[s] # "reset_agg"

WholeOf(s) == Answered(s) => sensors[s].total = sensors[s].count

Round(s) == /\ OneRequest(s)
            /\ HandshakeOf(s)
            /\ WholeOf(s)
            /\ ExactlyOnceOf(s)

CollectInv == /\ TypeOK
              /\ \A s \in Sensors : Local(s)
              /\ ~waitAborted => \A s \in Sensors : Round(s)

LEMMA InitCollect == Init => CollectInv
<1> SUFFICES ASSUME Init PROVE CollectInv
    OBVIOUS
<1>1. TypeOK
      BY InitType
<1>2. ASSUME NEW s \in Sensors PROVE Local(s) /\ Round(s)
  <2>1. /\ g_sensor_event_flags[s] = {} /\ actual_flags[s] = {}
        /\ threadPc[s] = "init" /\ netPc = "check"
        /\ agg[s].total = {} /\ agg[s].count = {}
        /\ sensors[s].total = {} /\ sensors[s].count = {}
        /\ taken[s] = 0 /\ delivered[s] = {}
        BY DEF Init, EmptyAggregate
  <2>2. Batch(s) = {} /\ Open(s) = {} /\ ~Serving(s)
        BY <2>1 DEF Batch, Answered, Open, Serving
  <2>3. 1..0 = {}
        OBVIOUS
  <2> QED BY <2>1, <2>2, <2>3
          DEF Local, Round, OneRequest, HandshakeOf, WholeOf, ExactlyOnceOf
<1> QED BY <1>1, <1>2 DEF CollectInv

\* A step that leaves a sensor's request, complete flag, thread and samples
\* alone, and net_thread where it is, leaves what is said of the sensor alone.
LEMMA Frame ==
    ASSUME NEW r \in Sensors, TypeOK, TypeOK',
           ("request" \in g_sensor_event_flags'[r])
               <=> ("request" \in g_sensor_event_flags[r]),
           ("complete" \in g_sensor_event_flags'[r])
               <=> ("complete" \in g_sensor_event_flags[r]),
           threadPc'[r] = threadPc[r], actual_flags'[r] = actual_flags[r],
           agg'[r] = agg[r],
           sensors'[r].total = sensors[r].total,
           sensors'[r].count = sensors[r].count,
           taken'[r] = taken[r], delivered'[r] = delivered[r],
           netPc' = netPc
    PROVE  (Local(r) => Local(r)') /\ (Round(r) => Round(r)')
<1>1. Local(r) => Local(r)'
      BY DEF Local
<1>2. /\ Serving(r)' <=> Serving(r)
      /\ Answered(r)' <=> Answered(r)
      BY DEF Serving, Answered
<1>3. Batch(r)' = Batch(r) /\ Open(r)' = Open(r)
      BY <1>2 DEF Batch, Open
<1>4. Round(r) => Round(r)'
      BY <1>2, <1>3 DEF Round, OneRequest, HandshakeOf, WholeOf, ExactlyOnceOf
<1> QED BY <1>1, <1>4

LEMMA NetCollect == CollectInv /\ Net => CollectInv'
<1> SUFFICES ASSUME CollectInv, Net PROVE CollectInv'
    OBVIOUS
<1> USE DEF netVars, threadVars, cloudVars, history
<1>0. TypeOK /\ TypeOK'
      BY NetType DEF CollectInv
<1>1. CASE Reboot
  <2>1. ASSUME NEW s \in Sensors PROVE Local(s)' /\ Round(s)'
    <3>1. /\ g_sensor_event_flags'[s] = {} /\ actual_flags'[s] = {}
          /\ threadPc'[s] = "init" /\ netPc' = "check"
          /\ agg'[s].total = {} /\ agg'[s].count = {}
          /\ sensors'[s].total = {} /\ sensors'[s].count = {}
          /\ taken'[s] = 0 /\ delivered'[s] = {}
          BY <1>1 DEF Reboot, EmptyAggregate
    <3>2. Batch(s)' = {} /\ Open(s)' = {} /\ ~Serving(s)'
          BY <3>1 DEF Batch, Answered, Open, Serving
    <3>3. 1..0 = {}
          OBVIOUS
    <3> QED BY <3>1, <3>2, <3>3
            DEF Local, Round, OneRequest, HandshakeOf, WholeOf, ExactlyOnceOf
  <2> QED BY <1>0, <2>1 DEF CollectInv
<1>2. CASE ~Reboot
  <2>1. UNCHANGED <<sensors, threadVars, waitAborted>>
        BY <1>2 DEF Net, NetCheck, NetUpdate, NetWakeUp, NetRequest,
           NetCollected, NetWait, NetTimeout, NetPublish, NetPublished
  <2>2. ASSUME NEW s \in Sensors PROVE Local(s)'
        BY <2>1 DEF CollectInv, Local
  <2>3. ASSUME NEW s \in Sensors, ~waitAborted PROVE Round(s)'
    <3> USE <2>1, <2>3
    <3>1. Round(s) /\ Open(s)' = Open(s)
          BY DEF CollectInv, Open
    <3>2. CASE NetRequest
          BY <3>1, <3>2, <1>0
          DEF NetRequest, Round, OneRequest, HandshakeOf, WholeOf, Serving,
              ExactlyOnceOf, Answered, Batch, TypeOK
    <3>3. CASE NetCollected
      <4>1. Batch(s)' = Batch(s) /\ Answered(s) /\ Answered(s)'
            BY <3>3 DEF NetCollected, Batch, Answered, AllComplete
      <4>2. OneRequest(s)' /\ HandshakeOf(s)'
            BY <3>1, <3>3, <1>0 DEF NetCollected, AllComplete, Round,
               OneRequest, HandshakeOf, Serving, TypeOK
      <4> QED BY <3>1, <3>3, <4>1, <4>2
              DEF Round, WholeOf, ExactlyOnceOf, NetCollected
    <3>4. CASE NetPublish
      <4>1. /\ Batch(s) = sensors[s].count /\ Batch(s)' = {}
            /\ delivered'[s] = delivered[s] \cup Batch(s)
            BY <3>1, <3>4
            DEF NetPublish, Batch, Answered, Round, HandshakeOf
      <4>2. OneRequest(s)' /\ HandshakeOf(s)' /\ WholeOf(s)'
            BY <3>1, <3>4 DEF NetPublish, Round, OneRequest, HandshakeOf,
               Serving, WholeOf, Answered
      <4>3. ExactlyOnceOf(s)'
            BY <3>1, <4>1 DEF Round, ExactlyOnceOf
      <4> QED BY <4>2, <4>3 DEF Round
    <3>5. CASE ~(NetRequest \/ NetCollected \/ NetPublish)
      <4>1. /\ UNCHANGED <<g_sensor_event_flags, delivered>>
            /\ netPc # "snapshot" /\ netPc' # "snapshot"
            /\ netPc' \in {"get", "wait"} => netPc \in {"get", "wait"}
            /\ netPc \in {"get", "wait"} =>
                   netPc' \in {"get", "wait", "reset"}
            BY <1>2, <3>5
            DEF Net, NetCheck, NetUpdate, NetWakeUp, NetWait, NetTimeout,
                NetPublished
      <4>2. Answered(s)' <=> Answered(s)
            BY <4>1 DEF Answered
      <4>3. Batch(s)' = Batch(s)
            BY <4>1, <4>2 DEF Batch
      <4>4. OneRequest(s)' /\ WholeOf(s)' /\ ExactlyOnceOf(s)'
            BY <3>1, <4>1, <4>2, <4>3
            DEF Round, OneRequest, WholeOf, ExactlyOnceOf
      <4>5. netPc = "reset" => FALSE
            BY <1>2, <3>5
            DEF Net, NetCheck, NetUpdate, NetWakeUp, NetWait, NetTimeout,
                NetPublished
      <4>6. HandshakeOf(s)'
            BY <3>1, <4>1, <4>5 DEF Round, HandshakeOf, Serving
      <4> QED BY <4>4, <4>6 DEF Round
    <3> QED BY <3>2, <3>3, <3>4, <3>5
  <2> QED BY <1>0, <2>1, <2>2, <2>3 DEF CollectInv
<1> QED BY <1>1, <1>2

\* A sensor thread's step is no other sensor's business.
LEMMA OtherSensors ==
    ASSUME CollectInv, NEW s \in Sensors, Sensor(s), NEW r \in Sensors, r # s
    PROVE  Local(r)' /\ (~waitAborted => Round(r)')
<1> USE DEF netVars, threadVars, cloudVars, history, Goto, Advance
<1>1. TypeOK /\ TypeOK'
      BY SensorType DEF CollectInv
<1>2. /\ g_sensor_event_flags'[r] = g_sensor_event_flags[r]
      /\ threadPc'[r] = threadPc[r] /\ actual_flags'[r] = actual_flags[r]
      /\ agg'[r] = agg[r] /\ sensors'[r] = sensors[r]
      /\ taken'[r] = taken[r] /\ delivered'[r] = delivered[r]
      /\ netPc' = netPc
      BY <1>1
      DEF Sensor, SensorWork, SensorDevice, SensorInit, SensorGet,
          SensorSample, SensorHang, SensorAbsoluteThreshold, SensorThreshold,
          SensorTotal, SensorCount, SensorComplete, SensorReset, TypeOK
<1> QED BY <1>1, <1>2, Frame DEF CollectInv

\* While a thread copies its aggregate, net_thread waits for it.
LEMMA WaitingFor ==
    ASSUME CollectInv, NEW s \in Sensors, ~waitAborted, NetBlocked,
           threadPc[s] \in {"total", "count", "complete"}
    PROVE  /\ netPc = "wait"
           /\ "complete" \notin g_sensor_event_flags[s]
           /\ "request" \notin g_sensor_event_flags[s]
<1>1. Local(s) /\ Round(s)
      BY DEF CollectInv
<1>2. Serving(s)
      BY <1>1 DEF Local, Serving
<1> QED BY <1>1, <1>2 DEF Round, OneRequest, HandshakeOf, NetBlocked, Local

LEMMA ThisSensor ==
    ASSUME CollectInv, NEW s \in Sensors, Sensor(s)
    PROVE  Local(s)' /\ (~waitAborted => Round(s)')
<1> USE DEF netVars, threadVars, cloudVars, history, Goto, Advance
<1>0. TypeOK /\ TypeOK' /\ Local(s) /\ (~waitAborted => Round(s))
      BY SensorType DEF CollectInv
<1>1. CASE SensorInit(s)
  <2>1. /\ Open(s)' = Open(s) /\ Batch(s)' = Batch(s)
        /\ Serving(s)' <=> Serving(s)
        BY <1>0, <1>1
        DEF SensorInit, Open, Batch, Answered, Serving, TypeOK, Local
  <2>2. Local(s)'
        BY <1>0, <1>1 DEF SensorInit, Local, TypeOK
  <2> QED BY <1>0, <1>1, <2>1, <2>2
          DEF SensorInit, TypeOK, Round, OneRequest, HandshakeOf, WholeOf,
              Answered, ExactlyOnceOf
<1>2. CASE SensorGet(s)
  <2>1. /\ threadPc[s] = "get" /\ actual_flags[s] = {}
        /\ actual_flags'[s] = g_sensor_event_flags[s] \ {"complete"}
        /\ threadPc'[s] = NextPc(actual_flags'[s])
        /\ "request" \notin g_sensor_event_flags'[s]
        /\ ("complete" \in g_sensor_event_flags'[s])
             <=> ("complete" \in g_sensor_event_flags[s])
        BY <1>0, <1>2 DEF SensorGet, TypeOK, Local
  <2>2. UNCHANGED <<agg, sensors, taken, delivered, netPc>>
        BY <1>2 DEF SensorGet
  <2>3. /\ Open(s)' = Open(s) /\ Batch(s)' = Batch(s)
        /\ Serving(s)' <=> Serving(s)
        BY <2>1, <2>2, NextPcType DEF Open, Batch, Answered, Serving
  <2>4. actual_flags'[s] \subseteq {"request", "threshold", "sample"}
        BY <1>0 DEF TypeOK, Flags
  <2>5. actual_flags'[s] # {}
        BY <1>0, <1>2 DEF SensorGet, TypeOK
  <2>6. Local(s)'
        BY <1>0, <2>1, <2>2, <2>4, <2>5 DEF Local, NextPc
  <2> QED BY <1>0, <2>1, <2>2, <2>3, <2>6
          DEF Round, OneRequest, HandshakeOf, WholeOf, Answered, ExactlyOnceOf
<1>3. CASE SensorSample(s)
  <2>1. /\ threadPc[s] = "sample" /\ threadPc'[s] = NextPc(actual_flags'[s])
        /\ actual_flags'[s] = actual_flags[s] \ {"sample"}
        /\ UNCHANGED <<g_sensor_event_flags, sensors, delivered, netPc>>
        BY <1>0, <1>3 DEF SensorSample, TypeOK
  <2>2. actual_flags'[s] \subseteq {"request", "threshold"}
        BY <1>0, <2>1 DEF TypeOK, Flags
  <2>3. /\ Batch(s)' = Batch(s)
        /\ Serving(s)' <=> Serving(s)
        /\ Answered(s)' <=> Answered(s)
        BY <2>1, NextPcType DEF Batch, Answered, Serving
  <2>4. Open(s) = agg[s].count /\ Open(s)' = agg'[s].count
        BY <2>1, NextPcType DEF Open
  <2>5. CASE agg'[s] = agg[s] /\ taken'[s] = taken[s]
        BY <1>0, <2>1, <2>2, <2>3, <2>4, <2>5
        DEF Local, NextPc, Round, OneRequest, HandshakeOf, WholeOf,
            ExactlyOnceOf
  <2>6. CASE /\ agg'[s] = update_agg(agg[s], taken[s] + 1)
             /\ taken'[s] = taken[s] + 1
    <3> DEFINE n == taken[s] + 1
    <3>1. /\ agg'[s].total = agg[s].total \cup {n}
          /\ agg'[s].count = agg[s].count \cup {n}
          BY <1>0, <2>6 DEF update_agg, TypeOK, Aggregate
    <3>2. Local(s)'
          BY <1>0, <2>1, <2>2, <3>1 DEF Local, NextPc
    <3>3. taken[s] \in Nat
          BY <1>0 DEF TypeOK
    <3>4. 1..n = (1..taken[s]) \cup {n} /\ n \notin 1..taken[s]
          BY <3>3
    <3>5. ~waitAborted => ExactlyOnceOf(s)'
          BY <1>0, <2>1, <2>3, <2>4, <2>6, <3>1, <3>4 DEF Round, ExactlyOnceOf
    <3> QED BY <1>0, <2>1, <2>3, <3>2, <3>5, NextPcType
            DEF Round, OneRequest, HandshakeOf, WholeOf
  <2> QED BY <1>0, <1>3, <2>5, <2>6 DEF SensorSample, TypeOK
<1>4. CASE SensorHang(s)
  <2>1. /\ threadPc[s] = "sample" /\ threadPc'[s] = "dead"
        /\ UNCHANGED <<g_sensor_event_flags, actual_flags, agg, sensors, taken,
                       delivered, netPc>>
        BY <1>0, <1>4 DEF SensorHang, TypeOK
  <2>2. /\ Open(s)' = Open(s) /\ Batch(s)' = Batch(s)
        /\ Serving(s)' <=> Serving(s)
        BY <2>1 DEF Open, Batch, Answered, Serving
  <2> QED BY <1>0, <2>1, <2>2
          DEF Local, Round, OneRequest, HandshakeOf, WholeOf, Answered,
              ExactlyOnceOf
<1>5. CASE SensorAbsoluteThreshold(s)
  <2>1. /\ threadPc[s] = "absolute_threshold" /\ threadPc'[s] = "threshold"
        /\ agg'[s].total = agg[s].total /\ agg'[s].count = agg[s].count
        /\ UNCHANGED <<g_sensor_event_flags, actual_flags, sensors, taken,
                       delivered, netPc>>
        BY <1>0, <1>5 DEF SensorAbsoluteThreshold, TypeOK, Aggregate
  <2>2. /\ Open(s)' = Open(s) /\ Batch(s)' = Batch(s)
        /\ Serving(s)' <=> Serving(s)
        BY <2>1 DEF Open, Batch, Answered, Serving
  <2> QED BY <1>0, <2>1, <2>2
          DEF Local, Round, OneRequest, HandshakeOf, WholeOf, Answered,
              ExactlyOnceOf
<1>6. CASE SensorThreshold(s)
  <2>1. /\ threadPc[s] = "threshold" /\ threadPc'[s] = NextPc(actual_flags'[s])
        /\ actual_flags'[s] = actual_flags[s] \ {"threshold"}
        /\ agg'[s].total = agg[s].total /\ agg'[s].count = agg[s].count
        /\ UNCHANGED <<g_sensor_event_flags, sensors, taken, delivered, netPc>>
        BY <1>0, <1>6 DEF SensorThreshold, TypeOK, Aggregate
  <2>2. actual_flags'[s] \subseteq {"request"}
        BY <1>0, <2>1 DEF TypeOK, Flags, Local
  <2>3. /\ Open(s)' = Open(s) /\ Batch(s)' = Batch(s)
        /\ Serving(s)' <=> Serving(s)
        BY <2>1, NextPcType DEF Open, Batch, Answered, Serving
  <2>4. Local(s)'
        BY <1>0, <2>1, <2>2 DEF Local, NextPc
  <2> QED BY <1>0, <2>1, <2>3, <2>4, NextPcType
          DEF Round, OneRequest, HandshakeOf, WholeOf, Answered, ExactlyOnceOf
<1>7. CASE SensorTotal(s) \/ SensorCount(s)
  <2>1. /\ threadPc[s] \in {"total", "count"} /\ NetBlocked
        /\ threadPc'[s] \in {"count", "complete"}
        /\ UNCHANGED <<g_sensor_event_flags, actual_flags, agg, taken,
                       delivered, netPc>>
        BY <1>0, <1>7 DEF SensorTotal, SensorCount, TypeOK
  <2>2. Local(s)'
    <3>1. CASE SensorTotal(s)
          BY <1>0, <3>1 DEF SensorTotal, TypeOK, Aggregate, Local
    <3>2. CASE SensorCount(s)
          BY <1>0, <3>2 DEF SensorCount, TypeOK, Aggregate, Local
    <3> QED BY <1>7, <3>1, <3>2
  <2>3. ASSUME ~waitAborted PROVE Round(s)'
    <3>1. netPc = "wait" /\ "complete" \notin g_sensor_event_flags[s]
          BY <2>1, <2>3, WaitingFor
    <3>2. /\ Open(s)' = Open(s) /\ Batch(s)' = {} /\ Batch(s) = {}
          /\ ~Answered(s)'
          /\ Serving(s)' <=> Serving(s)
          BY <2>1, <3>1 DEF Open, Batch, Answered, Serving
    <3> QED BY <1>0, <2>1, <2>3, <3>2
            DEF Round, OneRequest, HandshakeOf, WholeOf, ExactlyOnceOf
  <2> QED BY <2>2, <2>3
<1>8. CASE SensorComplete(s)
  <2>1. /\ threadPc[s] = "complete" /\ NetBlocked
        /\ threadPc'[s] = "reset_agg"
        /\ g_sensor_event_flags'[s] = g_sensor_event_flags[s] \cup {"complete"}
        /\ UNCHANGED <<actual_flags, agg, sensors, taken, delivered, netPc>>
        BY <1>0, <1>8 DEF SensorComplete, TypeOK
  <2>2. Local(s)'
        BY <1>0, <2>1 DEF Local
  <2>3. ASSUME ~waitAborted PROVE Round(s)'
    <3>1. /\ netPc = "wait"
          /\ "complete" \notin g_sensor_event_flags[s]
          /\ "request" \notin g_sensor_event_flags[s]
          BY <2>1, <2>3, WaitingFor
    <3>2. /\ Open(s) = agg[s].count /\ Open(s)' = {}
          /\ Batch(s) = {} /\ Batch(s)' = agg[s].count
          /\ ~Serving(s)'
          BY <1>0, <2>1, <3>1 DEF Open, Batch, Answered, Serving, Local
    <3>3. OneRequest(s)' /\ HandshakeOf(s)' /\ WholeOf(s)'
          BY <1>0, <2>1, <3>1, <3>2
          DEF OneRequest, HandshakeOf, WholeOf, Local
    <3> QED BY <1>0, <2>1, <2>3, <3>2, <3>3 DEF Round, ExactlyOnceOf
  <2> QED BY <2>2, <2>3
<1>9. CASE SensorReset(s)
  <2>1. /\ threadPc[s] = "reset_agg" /\ threadPc'[s] = "get"
        /\ actual_flags'[s] = {}
        /\ agg'[s].total = {} /\ agg'[s].count = {}
        /\ UNCHANGED <<g_sensor_event_flags, sensors, taken, delivered, netPc>>
        BY <1>0, <1>9 DEF SensorReset, TypeOK, Aggregate, reset_agg, NextPc
  <2>2. /\ Open(s)' = Open(s) /\ Batch(s)' = Batch(s)
        /\ Serving(s)' <=> Serving(s)
        BY <2>1 DEF Open, Batch, Answered, Serving
  <2> QED BY <1>0, <2>1, <2>2
          DEF Local, Round, OneRequest, HandshakeOf, WholeOf, Answered,
              ExactlyOnceOf
<1> QED BY <1>1, <1>2, <1>3, <1>4, <1>5, <1>6, <1>7, <1>8, <1>9
        DEF Sensor, SensorWork, SensorDevice

LEMMA SensorCollected ==
    ASSUME CollectInv, NEW s \in Sensors, Sensor(s)
    PROVE  CollectInv'
<1>1. ASSUME NEW r \in Sensors
      PROVE  Local(r)' /\ (~waitAborted => Round(r)')
      BY ThisSensor, OtherSensors
<1>2. waitAborted' = waitAborted
      BY DEF Sensor, SensorWork, SensorDevice, SensorInit, SensorGet,
             SensorSample, SensorHang, SensorAbsoluteThreshold,
             SensorThreshold, SensorTotal, SensorCount, SensorComplete,
             SensorReset, history
<1> QED BY <1>1, <1>2, SensorType DEF CollectInv

LEMMA RequestType ==
    ASSUME TypeOK, NEW s \in Sensors, SampleRequest(s)
    PROVE  TypeOK'
BY DEF SampleRequest, TypeOK, Flags, netVars, threadVars, cloudVars, history

LEMMA RequestCollect ==
    ASSUME CollectInv, NEW s \in Sensors, SampleRequest(s)
    PROVE  CollectInv'
<1>1. TypeOK /\ TypeOK'
      BY RequestType DEF CollectInv
<1>2. ASSUME NEW r \in Sensors
      PROVE  (Local(r) => Local(r)') /\ (Round(r) => Round(r)')
      BY <1>1, Frame
      DEF SampleRequest, TypeOK, netVars, threadVars, cloudVars, history
<1> QED BY <1>1, <1>2
        DEF CollectInv, SampleRequest, history

\* A command that does not interrupt a collection moves net_thread at most
\* from its sleep to the next request, and touches nothing else of a round.
LEMMA CloudCollect == CollectInv /\ Cloud => CollectInv'
<1> SUFFICES ASSUME CollectInv, Cloud PROVE CollectInv'
    OBVIOUS
<1> USE DEF netVars, threadVars, cloudVars, history
<1>1. TypeOK /\ TypeOK'
      BY CloudType DEF CollectInv
<1>2. CASE CommandS \/ AbortForUpdate
  <2>1. WaitAbort /\ UNCHANGED <<g_sensor_event_flags, sensors, threadVars,
                                 delivered>>
        BY <1>2 DEF CommandS, AbortForUpdate
  <2>2. ASSUME NEW r \in Sensors PROVE Local(r)'
        BY <2>1 DEF CollectInv, Local
  <2>3. ASSUME NEW r \in Sensors, ~waitAborted' PROVE Round(r)'
    <3>1. /\ ~waitAborted
          /\ netPc' = IF netPc = "sleep" THEN "request" ELSE netPc
          BY <1>1, <2>1, <2>3 DEF WaitAbort, TypeOK
    <3>2. Round(r)
          BY <3>1 DEF CollectInv
    <3>3. /\ Open(r)' = Open(r) /\ Batch(r)' = Batch(r)
          /\ Serving(r)' <=> Serving(r)
          /\ Answered(r)' <=> Answered(r)
          BY <2>1, <3>1 DEF Open, Batch, Serving, Answered
    <3> QED BY <2>1, <3>1, <3>2, <3>3
            DEF Round, OneRequest, HandshakeOf, WholeOf, ExactlyOnceOf
  <2> QED BY <1>1, <2>2, <2>3 DEF CollectInv
<1>3. CASE ~(CommandS \/ AbortForUpdate)
  <2>1. UNCHANGED <<netPc, threadVars, delivered, waitAborted>>
        BY <1>3 DEF Cloud, CallbackStep, CommandT, WriteThreshold,
           SetThresholdFlags, CommandU, CommandUg
  <2>2. ASSUME NEW r \in Sensors
        PROVE  /\ sensors'[r].total = sensors[r].total
               /\ sensors'[r].count = sensors[r].count
    <3>1. ASSUME NEW s \in Entries, NEW absolute \in {0, 1},
                 NEW value \in Thresholds, CommandT(s, absolute, value)
          PROVE  /\ sensors'[r].total = sensors[r].total
                 /\ sensors'[r].count = sensors[r].count
          BY <1>1, <3>1 DEF CommandT, TypeOK, Aggregate
    <3>2. CASE WriteThreshold
          BY <1>1, <3>2 DEF WriteThreshold, TypeOK, Aggregate
    <3>3. CASE UNCHANGED sensors
          BY <3>3
    <3> QED BY <1>3, <3>1, <3>2, <3>3
            DEF Cloud, CallbackStep, SetThresholdFlags, CommandU, CommandUg
  <2>3. ASSUME NEW r \in Sensors
        PROVE  /\ ("request" \in g_sensor_event_flags'[r])
                    <=> ("request" \in g_sensor_event_flags[r])
               /\ ("complete" \in g_sensor_event_flags'[r])
                    <=> ("complete" \in g_sensor_event_flags[r])
    <3>1. CASE SetThresholdFlags
          BY <1>1, <3>1 DEF SetThresholdFlags, TypeOK
    <3>2. CASE UNCHANGED g_sensor_event_flags
          BY <3>2
    <3> QED BY <1>3, <3>1, <3>2
            DEF Cloud, CallbackStep, CommandT, WriteThreshold, CommandU,
                CommandUg
  <2>4. ASSUME NEW r \in Sensors
        PROVE  (Local(r) => Local(r)') /\ (Round(r) => Round(r)')
        BY <1>1, <2>1, <2>2, <2>3, Frame
  <2> QED BY <1>1, <2>1, <2>4 DEF CollectInv
<1> QED BY <1>2, <1>3

LEMMA StutterCollect ==
    ASSUME CollectInv, UNCHANGED vars
    PROVE  CollectInv'
<1> USE DEF vars, netVars, threadVars, cloudVars, history
<1>1. TypeOK /\ TypeOK'
      BY DEF CollectInv, TypeOK
<1>2. ASSUME NEW r \in Sensors
      PROVE  (Local(r) => Local(r)') /\ (Round(r) => Round(r)')
      BY <1>1, Frame
<1> QED BY <1>1, <1>2 DEF CollectInv

LEMMA NextCollect == CollectInv /\ [Next]_vars => CollectInv'
BY NetCollect, SensorCollected, RequestCollect, CloudCollect, StutterCollect
DEF Next

\* Until a command aborts a collection wait, whichever thread preempts which,
\* requests and answers pair up: a round starts with no answer left over and
\* counts each sensor's answer once.
THEOREM HandshakePaired == Spec => []Handshake
<1>1. CollectInv => Handshake
      BY DEF CollectInv, Round, Handshake
<1> QED BY <1>1, InitCollect, NextCollect, PTL DEF Spec

\* Until then every sample is published, waiting to be, or being aggregated,
\* in one place only.
THEOREM SamplesOnce == Spec => []ExactlyOnce
<1>1. CollectInv => ExactlyOnce
      BY DEF CollectInv, Round, ExactlyOnce
<1> QED BY <1>1, InitCollect, NextCollect, PTL DEF Spec

\* Until then an aggregate is published with the total and the count of the
\* same samples.
THEOREM SnapshotsWhole == Spec => []SnapshotWhole
<1>1. CollectInv => SnapshotWhole
      BY DEF CollectInv, Round, SnapshotWhole, HandshakeOf, WholeOf, Answered
<1> QED BY <1>1, InitCollect, NextCollect, PTL DEF Spec

LEMMA QuietWrites ==
    ASSUME CollectInv, Next, NEW s \in Sensors,
           \/ sensors'[s].total # sensors[s].total
           \/ sensors'[s].count # sensors[s].count
    PROVE  netPc \in {"wait", "reset"} \/ waitAborted
<1> USE DEF netVars, threadVars, cloudVars, history
<1>0. TypeOK
      BY DEF CollectInv
<1>1. CASE Net
      BY <1>1 DEF Net, NetCheck, NetUpdate, NetWakeUp, NetRequest,
         NetCollected, NetWait, NetTimeout, NetPublish, NetPublished, Reboot
<1>2. ASSUME NEW r \in Sensors, Sensor(r)
      PROVE  netPc = "wait" \/ waitAborted
  <2>1. SensorTotal(r) \/ SensorCount(r)
        BY <1>2 DEF Sensor, SensorWork, SensorDevice, SensorInit, SensorGet,
           SensorSample, SensorHang, SensorAbsoluteThreshold, SensorThreshold,
           SensorComplete, SensorReset
  <2> QED BY <2>1, WaitingFor DEF SensorTotal, SensorCount
<1>3. ASSUME NEW r \in Sensors, SampleRequest(r) PROVE FALSE
      BY <1>3 DEF SampleRequest
<1>4. CASE Cloud
  <2>1. ASSUME NEW r \in Entries, NEW absolute \in {0, 1},
               NEW value \in Thresholds, CommandT(r, absolute, value)
        PROVE  FALSE
        BY <1>0, <2>1 DEF CommandT, TypeOK, Aggregate
  <2>2. ~WriteThreshold
        BY <1>0 DEF WriteThreshold, TypeOK, Aggregate
  <2> QED BY <1>4, <2>1, <2>2 DEF Cloud, CallbackStep, CommandS, CommandU,
          CommandUg, SetThresholdFlags, AbortForUpdate
<1> QED BY <1>1, <1>2, <1>3, <1>4 DEF Next

\* In every behaviour, the shared aggregates change only while net_thread
\* waits for them, until a command aborts such a wait.
THEOREM Stability == Spec => SharedStable
<1>1. CollectInv /\ Next => StableStep
      BY QuietWrites DEF StableStep
<1> QED BY <1>1, InitCollect, NextCollect, PTL DEF Spec, SharedStable

-----------------------------------------------------------------------------
(* Thresholds *)

LEMMA NetPending ==
    ASSUME Net, NEW s \in Sensors, TypeOK, PendingOf(s)
    PROVE  PendingOf(s)'
<1> USE DEF netVars, threadVars, cloudVars, history
<1>1. CASE Reboot
      BY <1>1 DEF Reboot, PendingOf
<1>2. CASE ~Reboot
  <2>1. /\ UNCHANGED <<sensors, threadVars, callback>>
        /\ ("threshold" \in g_sensor_event_flags'[s])
             <=> ("threshold" \in g_sensor_event_flags[s])
        BY <1>2 DEF Net, NetCheck, NetUpdate, NetWakeUp, NetRequest,
           NetCollected, NetWait, NetTimeout, NetPublish, NetPublished, TypeOK
  <2> QED BY <2>1 DEF PendingOf, ToCopy, Writing
<1> QED BY <1>1, <1>2

LEMMA SensorPending ==
    ASSUME NEW r \in Sensors, Sensor(r), NEW s \in Sensors, TypeOK,
           PendingOf(s)
    PROVE  PendingOf(s)'
<1> USE DEF netVars, threadVars, cloudVars, history, Goto, Advance
<1>1. CASE s # r
  <2>1. /\ g_sensor_event_flags'[s] = g_sensor_event_flags[s]
        /\ threadPc'[s] = threadPc[s] /\ actual_flags'[s] = actual_flags[s]
        /\ agg'[s] = agg[s] /\ sensors'[s] = sensors[s]
        /\ callback' = callback
        BY <1>1
        DEF Sensor, SensorWork, SensorDevice, SensorInit, SensorGet,
            SensorSample, SensorHang, SensorAbsoluteThreshold,
            SensorThreshold, SensorTotal, SensorCount, SensorComplete,
            SensorReset, TypeOK
  <2> QED BY <2>1 DEF PendingOf, ToCopy, Writing
<1>2. CASE s = r
  <2> USE <1>2 DEF PendingOf, ToCopy, Writing
  <2>1. CASE SensorInit(s) \/ SensorHang(s)
        BY <2>1 DEF SensorInit, SensorHang, TypeOK
  <2>2. CASE SensorGet(s)
        BY <2>2 DEF SensorGet, TypeOK, NextPc
  <2>3. CASE SensorSample(s)
    <3>1. /\ agg'[s].absolute_threshold = agg[s].absolute_threshold
          /\ agg'[s].threshold = agg[s].threshold
      <4>1. \/ agg'[s] = agg[s]
            \/ agg'[s] = update_agg(agg[s], taken[s] + 1)
            BY <2>3 DEF SensorSample, TypeOK
      <4>2. agg[s] \in Aggregate
            BY SharedType
      <4> QED BY <4>1, <4>2 DEF Aggregate, update_agg
    <3>2. /\ threadPc[s] = "sample"
          /\ threadPc'[s] = NextPc(actual_flags'[s])
          /\ actual_flags'[s] = actual_flags[s] \ {"sample"}
          /\ UNCHANGED <<g_sensor_event_flags, sensors, callback>>
          BY <2>3 DEF SensorSample, TypeOK
    <3> QED BY <3>1, <3>2 DEF NextPc
  <2>4. CASE SensorAbsoluteThreshold(s)
        BY <2>4 DEF SensorAbsoluteThreshold, TypeOK, Aggregate
  <2>5. CASE SensorThreshold(s)
        BY <2>5 DEF SensorThreshold, TypeOK, Aggregate
  <2>6. CASE SensorTotal(s) \/ SensorCount(s)
        BY <2>6 DEF SensorTotal, SensorCount, TypeOK, Aggregate
  <2>7. CASE SensorComplete(s)
        BY <2>7 DEF SensorComplete, TypeOK
  <2>8. CASE SensorReset(s)
        BY <2>8 DEF SensorReset, TypeOK, Aggregate, reset_agg
  <2> QED BY <2>1, <2>2, <2>3, <2>4, <2>5, <2>6, <2>7, <2>8
          DEF Sensor, SensorWork, SensorDevice
<1> QED BY <1>1, <1>2

LEMMA CloudPending ==
    ASSUME Cloud, NEW s \in Sensors, TypeOK, PendingOf(s)
    PROVE  PendingOf(s)'
<1> USE DEF netVars, threadVars, cloudVars, history, PendingOf, ToCopy,
            Writing, Receive
<1>1. ASSUME NEW r \in Entries, NEW absolute \in {0, 1},
             NEW value \in Thresholds, CommandT(r, absolute, value)
      PROVE  PendingOf(s)'
      BY <1>1 DEF CommandT, TypeOK, Aggregate, Idle
<1>2. CASE WriteThreshold
      BY <1>2 DEF WriteThreshold, TypeOK, Aggregate, CallbackStates, Idle
<1>3. CASE SetThresholdFlags
      BY <1>3 DEF SetThresholdFlags
<1>4. CASE CommandS \/ CommandUg
      BY <1>4 DEF CommandS, CommandUg
<1>5. CASE CommandU
      BY <1>5 DEF CommandU, Idle
<1>6. CASE AbortForUpdate
      BY <1>6 DEF AbortForUpdate
<1> QED BY <1>1, <1>2, <1>3, <1>4, <1>5, <1>6 DEF Cloud, CallbackStep

\* A threshold set by a T command is never forgotten on its way to its sensor
\* thread, however the callback and the thread are preempted.
THEOREM Thresholding == Spec => []ThresholdPending
<1> DEFINE Inv == TypeOK /\ \A s \in Sensors : PendingOf(s)
<1>1. Init => Inv
      BY InitType DEF Init, PendingOf
<1>2. Inv /\ [Next]_vars => Inv'
  <2> SUFFICES ASSUME Inv, [Next]_vars PROVE Inv'
      OBVIOUS
  <2>1. CASE Net
        BY <2>1, NetType, NetPending
  <2>2. ASSUME NEW s \in Sensors, Sensor(s) PROVE Inv'
        BY <2>2, SensorType, SensorPending
  <2>3. ASSUME NEW s \in Sensors, SampleRequest(s) PROVE Inv'
    <3>1. ASSUME NEW r \in Sensors PROVE PendingOf(r)'
          BY <2>3 DEF SampleRequest, TypeOK, netVars, threadVars, cloudVars,
             history, PendingOf, ToCopy, Writing
    <3> QED BY <2>3, <3>1, RequestType
  <2>4. CASE Cloud
        BY <2>4, CloudType, CloudPending
  <2>5. CASE UNCHANGED vars
        BY <2>5 DEF vars, netVars, threadVars, cloudVars, history, TypeOK,
           PendingOf, ToCopy, Writing
  <2> QED BY <2>1, <2>2, <2>3, <2>4, <2>5 DEF Next
<1>3. Inv => ThresholdPending
      BY DEF ThresholdPending
<1> QED BY <1>1, <1>2, <1>3, PTL DEF Spec

-----------------------------------------------------------------------------
(* Refinement of AggregateDelivery                                         *)

LEMMA InitDelivery == Init => Delivery!Init
<1> SUFFICES ASSUME Init PROVE Delivery!Init
    OBVIOUS
<1>1. ASSUME NEW s \in Sensors
      PROVE  Open(s) = {} /\ Batch(s) = {} /\ ~Answered(s)
      BY DEF Init, EmptyAggregate, Open, Batch, Answered
<1> QED BY <1>1 DEF Init, Delivery!Init

\* A step that changes none of the images is a stutter of the abstraction.
LEMMA DeliveryStutter ==
    ASSUME UNCHANGED <<taken, delivered, waitAborted>>,
           \A s \in Sensors : /\ Open(s)' = Open(s)
                              /\ Batch(s)' = Batch(s)
                              /\ Answered(s)' <=> Answered(s)
    PROVE  UNCHANGED Delivery!vars
BY DEF Delivery!vars

LEMMA NetDelivery ==
    ASSUME CollectInv, ~waitAborted, Net
    PROVE  [Delivery!Next]_(Delivery!vars)
<1> USE DEF netVars, threadVars, cloudVars, history
<1>1. CASE Reboot
  <2>1. ASSUME NEW s \in Sensors
        PROVE  Open(s)' = {} /\ Batch(s)' = {} /\ ~Answered(s)'
        BY <1>1 DEF Reboot, EmptyAggregate, Open, Batch, Answered
  <2>2. Delivery!Restart
        BY <1>1, <2>1 DEF Reboot, Delivery!Restart
  <2> QED BY <2>2 DEF Delivery!Next
<1>2. CASE NetPublish
  <2>1. ASSUME NEW s \in Sensors
        PROVE  /\ Answered(s) /\ ~Answered(s)'
               /\ Batch(s) = sensors[s].count /\ Batch(s)' = {}
               /\ Open(s)' = Open(s)
        BY <1>2 DEF NetPublish, CollectInv, Round, HandshakeOf, Answered,
           Batch, Open
  <2>2. Delivery!Publish /\ ~waitAborted'
        BY <1>2, <2>1 DEF NetPublish, Delivery!Publish
  <2> QED BY <2>2 DEF Delivery!Next
<1>3. CASE ~(Reboot \/ NetPublish)
  <2>1. /\ UNCHANGED <<taken, delivered, waitAborted>>
        /\ \A s \in Sensors :
              /\ Open(s)' = Open(s)
              /\ Answered(s)' <=> Answered(s)
    <3>1. CASE NetCollected
          BY <3>1 DEF NetCollected, AllComplete, Open, Answered
    <3>2. CASE NetRequest
          BY <3>2 DEF NetRequest, Open, Answered, CollectInv, TypeOK
    <3> QED BY <1>3, <3>1, <3>2
            DEF Net, NetCheck, NetUpdate, NetWakeUp, NetWait, NetTimeout,
                NetPublished, Open, Answered
  <2>2. UNCHANGED sensors
        BY <1>3 DEF Net, NetCheck, NetUpdate, NetWakeUp, NetRequest,
           NetCollected, NetWait, NetTimeout, NetPublished
  <2> QED BY <2>1, <2>2, DeliveryStutter DEF Batch
<1> QED BY <1>1, <1>2, <1>3

LEMMA SensorDelivery ==
    ASSUME CollectInv, ~waitAborted, NEW s \in Sensors, Sensor(s)
    PROVE  [Delivery!Next]_(Delivery!vars)
<1> USE DEF netVars, threadVars, cloudVars, history, Goto, Advance
<1>0. /\ TypeOK /\ Local(s)
      /\ UNCHANGED <<netPc, delivered, waitAborted>>
      BY DEF CollectInv, Sensor, SensorWork, SensorDevice, SensorInit,
         SensorGet, SensorSample, SensorHang, SensorAbsoluteThreshold,
         SensorThreshold, SensorTotal, SensorCount, SensorComplete,
         SensorReset
<1>1. ASSUME NEW r \in Sensors, r # s
      PROVE  /\ Open(r)' = Open(r)
             /\ Batch(r)' = Batch(r)
             /\ Answered(r)' <=> Answered(r)
  <2>1. /\ g_sensor_event_flags'[r] = g_sensor_event_flags[r]
        /\ threadPc'[r] = threadPc[r]
        /\ agg'[r] = agg[r] /\ sensors'[r] = sensors[r]
        BY <1>0, <1>1
        DEF Sensor, SensorWork, SensorDevice, SensorInit, SensorGet,
            SensorSample, SensorHang, SensorAbsoluteThreshold,
            SensorThreshold, SensorTotal, SensorCount, SensorComplete,
            SensorReset, TypeOK
  <2> QED BY <1>0, <2>1 DEF Open, Batch, Answered
<1>2. CASE SensorSample(s) /\ taken' # taken
  <2>1. /\ taken' = [taken EXCEPT ![s] = taken[s] + 1]
        /\ agg'[s] = update_agg(agg[s], taken[s] + 1)
        /\ threadPc[s] = "sample" /\ threadPc'[s] # "reset_agg"
        /\ UNCHANGED <<g_sensor_event_flags, sensors>>
        BY <1>0, <1>2, NextPcType DEF SensorSample, TypeOK
  <2>2. /\ Open(s)' = Open(s) \cup {taken[s] + 1}
        /\ Batch(s)' = Batch(s)
        /\ Answered(s)' <=> Answered(s)
        BY <1>0, <2>1
        DEF Open, Batch, Answered, update_agg, TypeOK, Aggregate
  <2>3. Delivery!Take(s)
        BY <1>0, <1>1, <2>1, <2>2 DEF Delivery!Take
  <2> QED BY <1>0, <2>3 DEF Delivery!Next
<1>3. CASE SensorComplete(s)
  <2>1. /\ threadPc[s] = "complete" /\ threadPc'[s] = "reset_agg"
        /\ NetBlocked
        /\ g_sensor_event_flags'[s] = g_sensor_event_flags[s] \cup {"complete"}
        /\ UNCHANGED <<sensors, agg, taken>>
        BY <1>0, <1>3 DEF SensorComplete, TypeOK
  <2>2. /\ netPc = "wait"
        /\ "complete" \notin g_sensor_event_flags[s]
        BY <2>1, WaitingFor
  <2>3. /\ Open(s)' = {} /\ Batch(s)' = Open(s)
        /\ ~Answered(s) /\ Answered(s)'
        BY <1>0, <2>1, <2>2 DEF Open, Batch, Answered, Local
  <2>4. Delivery!Close(s)
        BY <1>0, <1>1, <2>1, <2>3 DEF Delivery!Close
  <2> QED BY <1>0, <2>4 DEF Delivery!Next
<1>4. CASE SensorTotal(s) \/ SensorCount(s)
  <2>1. /\ threadPc[s] \in {"total", "count"} /\ NetBlocked
        /\ threadPc'[s] \in {"count", "complete"}
        /\ UNCHANGED <<g_sensor_event_flags, agg, taken>>
        BY <1>0, <1>4 DEF SensorTotal, SensorCount, TypeOK
  <2>2. netPc = "wait" /\ "complete" \notin g_sensor_event_flags[s]
        BY <2>1, WaitingFor
  <2>3. /\ Open(s)' = Open(s)
        /\ ~Answered(s) /\ ~Answered(s)'
        BY <1>0, <2>1, <2>2 DEF Open, Answered
  <2> QED BY <1>0, <1>1, <2>1, <2>3, DeliveryStutter DEF Batch
<1>5. CASE SensorReset(s)
  <2>1. /\ threadPc[s] = "reset_agg" /\ threadPc'[s] = "get"
        /\ agg'[s].count = {}
        /\ UNCHANGED <<g_sensor_event_flags, sensors, taken>>
        BY <1>0, <1>5 DEF SensorReset, TypeOK, Aggregate, reset_agg, NextPc
  <2>2. /\ Open(s)' = Open(s) /\ Batch(s)' = Batch(s)
        /\ Answered(s)' <=> Answered(s)
        BY <1>0, <2>1 DEF Open, Batch, Answered
  <2> QED BY <1>0, <1>1, <2>1, <2>2, DeliveryStutter
<1>6. CASE ~ \/ SensorSample(s) /\ taken' # taken
             \/ SensorComplete(s) \/ SensorTotal(s) \/ SensorCount(s)
             \/ SensorReset(s)
  <2>1. /\ threadPc[s] # "reset_agg" /\ threadPc'[s] # "reset_agg"
        /\ ("complete" \in g_sensor_event_flags'[s])
             <=> ("complete" \in g_sensor_event_flags[s])
        /\ sensors'[s] = sensors[s] /\ taken' = taken
        BY <1>0, <1>6, NextPcType
        DEF Sensor, SensorWork, SensorDevice, SensorInit, SensorGet,
            SensorSample, SensorHang, SensorAbsoluteThreshold,
            SensorThreshold, TypeOK
  <2>2. agg'[s].count = agg[s].count
    <3>1. CASE SensorSample(s)
      <4>1. taken' # [taken EXCEPT ![s] = taken[s] + 1]
        <5>1. taken' = taken /\ taken[s] # taken[s] + 1
              BY <1>0, <1>6, <3>1 DEF TypeOK
        <5> QED BY <1>0, <5>1 DEF TypeOK
      <4> QED BY <3>1, <4>1 DEF SensorSample
    <3>2. CASE ~SensorSample(s)
          BY <1>0, <1>6, <3>2
          DEF Sensor, SensorWork, SensorDevice, SensorInit, SensorGet,
              SensorHang, SensorAbsoluteThreshold, SensorThreshold, TypeOK,
              Aggregate
    <3> QED BY <3>1, <3>2
  <2>3. /\ Open(s)' = Open(s) /\ Batch(s)' = Batch(s)
        /\ Answered(s)' <=> Answered(s)
        BY <1>0, <2>1, <2>2 DEF Open, Batch, Answered
  <2> QED BY <1>0, <1>1, <2>1, <2>3, DeliveryStutter
<1> QED BY <1>2, <1>3, <1>4, <1>5, <1>6

LEMMA OtherDelivery ==
    ASSUME CollectInv, ~waitAborted, ~waitAborted', NEW s \in Sensors,
           SampleRequest(s) \/ Cloud \/ UNCHANGED vars
    PROVE  UNCHANGED Delivery!vars
<1> USE DEF netVars, threadVars, cloudVars, history
<1>0. TypeOK
      BY DEF CollectInv
<1>1. UNCHANGED <<threadPc, agg, taken, delivered>>
      BY DEF SampleRequest, Cloud, CallbackStep, CommandS, CommandT, CommandU,
         CommandUg, WriteThreshold, SetThresholdFlags, AbortForUpdate, vars
<1>5. waitAborted' = waitAborted
  <2>1. [Next]_vars
        BY DEF Next
  <2>2. waitAborted \in BOOLEAN /\ waitAborted' \in BOOLEAN
        BY <2>1, NextCollect DEF CollectInv, TypeOK
  <2> QED BY <2>2
<1>2. netPc' = "snapshot" <=> netPc = "snapshot"
      BY DEF SampleRequest, Cloud, CallbackStep, CommandS, CommandT, CommandU,
         CommandUg, WriteThreshold, SetThresholdFlags, AbortForUpdate,
         WaitAbort, vars
<1>3. ASSUME NEW r \in Sensors
      PROVE  /\ ("complete" \in g_sensor_event_flags'[r])
                  <=> ("complete" \in g_sensor_event_flags[r])
             /\ sensors'[r].count = sensors[r].count
  <2>1. CASE SampleRequest(s)
        BY <1>0, <2>1 DEF SampleRequest, TypeOK
  <2>2. ASSUME NEW q \in Entries, NEW absolute \in {0, 1},
               NEW value \in Thresholds, CommandT(q, absolute, value)
        PROVE  /\ UNCHANGED g_sensor_event_flags
               /\ sensors'[r].count = sensors[r].count
        BY <1>0, <2>2 DEF CommandT, TypeOK, Aggregate
  <2>3. CASE WriteThreshold
        BY <1>0, <2>3 DEF WriteThreshold, TypeOK, Aggregate
  <2>4. CASE SetThresholdFlags
        BY <1>0, <2>4 DEF SetThresholdFlags, TypeOK
  <2>5. CASE UNCHANGED <<g_sensor_event_flags, sensors>>
        BY <2>5
  <2> QED BY <2>1, <2>2, <2>3, <2>4, <2>5
          DEF Cloud, CallbackStep, CommandS, CommandU, CommandUg,
              AbortForUpdate, vars
<1>4. ASSUME NEW r \in Sensors
      PROVE  /\ Open(r)' = Open(r)
             /\ Batch(r)' = Batch(r)
             /\ Answered(r)' <=> Answered(r)
      BY <1>1, <1>2, <1>3 DEF Open, Batch, Answered
<1> QED BY <1>1, <1>4, <1>5, DeliveryStutter

\* A command that ends a wait finds a sensor thread that has not answered.
LEMMA AbortForces ==
    ASSUME CollectInv, Next, ~waitAborted, waitAborted'
    PROVE  Delivery!Next
<1>1. netPc = "wait" /\ ~AllComplete
      BY DEF Next, Net, NetCheck, NetUpdate, NetWakeUp, NetRequest,
         NetCollected, NetWait, NetTimeout, NetPublish, NetPublished, Reboot,
         Sensor, SensorWork, SensorDevice, SensorInit, SensorGet,
         SensorSample, SensorHang, SensorAbsoluteThreshold, SensorThreshold,
         SensorTotal, SensorCount, SensorComplete, SensorReset, SampleRequest,
         Cloud, CallbackStep, CommandS, CommandT, CommandU, CommandUg,
         WriteThreshold, SetThresholdFlags, AbortForUpdate, WaitAbort, history
<1>2. {s \in Sensors : Answered(s)} # Sensors
      BY <1>1 DEF AllComplete, Answered
<1> QED BY <1>2 DEF Delivery!Next, Delivery!Force

\* Once a command has ended a wait, only a reset of the board brings the
\* promise back.
LEMMA ForcedDelivery ==
    ASSUME CollectInv, [Next]_vars, waitAborted
    PROVE  [Delivery!Next]_(Delivery!vars)
<1> USE DEF netVars, threadVars, cloudVars, history
<1>1. CASE Reboot
  <2>1. ASSUME NEW s \in Sensors
        PROVE  Open(s)' = {} /\ Batch(s)' = {} /\ ~Answered(s)'
        BY <1>1 DEF Reboot, EmptyAggregate, Open, Batch, Answered
  <2>2. Delivery!Restart
        BY <1>1, <2>1 DEF Reboot, Delivery!Restart
  <2> QED BY <2>2 DEF Delivery!Next
<1>2. CASE ~Reboot
  <2>1. waitAborted'
        BY <1>2
        DEF Next, Net, NetCheck, NetUpdate, NetWakeUp, NetRequest,
         NetCollected, NetWait, NetTimeout, NetPublish, NetPublished,
         Sensor, SensorWork, SensorDevice, SensorInit, SensorGet,
         SensorSample, SensorHang, SensorAbsoluteThreshold, SensorThreshold,
         SensorTotal, SensorCount, SensorComplete, SensorReset, SampleRequest,
         Cloud, CallbackStep, CommandS, CommandT, CommandU, CommandUg,
         WriteThreshold, SetThresholdFlags, AbortForUpdate, WaitAbort, vars
  <2> QED BY <2>1 DEF Delivery!Next, Delivery!Force
<1> QED BY <1>1, <1>2

\* The protocol implements AggregateDelivery: each published event is one
\* whole aggregate of every sensor, and each sample is in exactly one of them,
\* until a command forces an event by ending a collection wait.
THEOREM Refinement == Spec => DeliverySpec
<1>1. CollectInv /\ [Next]_vars => [Delivery!Next]_(Delivery!vars)
  <2> SUFFICES ASSUME CollectInv, [Next]_vars
               PROVE  [Delivery!Next]_(Delivery!vars)
      OBVIOUS
  <2>1. CASE waitAborted
        BY <2>1, ForcedDelivery
  <2>2. CASE ~waitAborted /\ waitAborted'
    <3>1. Next
          BY <2>2 DEF vars, history
    <3> QED BY <2>2, <3>1, AbortForces
  <2>3. CASE ~waitAborted /\ ~waitAborted'
    <3>1. CASE Net
          BY <2>3, <3>1, NetDelivery
    <3>2. ASSUME NEW s \in Sensors, Sensor(s)
          PROVE  [Delivery!Next]_(Delivery!vars)
          BY <2>3, <3>2, SensorDelivery
    <3>3. \E s \in Sensors : TRUE
          BY ConstantsAssumption
    <3> QED BY <2>3, <3>1, <3>2, <3>3, OtherDelivery DEF Next
  <2> QED BY <2>1, <2>2, <2>3
<1> QED BY <1>1, InitCollect, InitDelivery, NextCollect, PTL
        DEF Spec, DeliverySpec, Delivery!Spec
=============================================================================
