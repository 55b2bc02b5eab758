------------------------ MODULE SamplePeriod_proofs ------------------------
(***************************************************************************)
(* Proofs about SamplePeriod, for every width of the tick counter and all  *)
(* periods: typing, and that undisturbed requests are on time.             *)
(***************************************************************************)
EXTENDS SamplePeriod, TLAPS

\* The difference of two ULONGs is a ULONG.
LEMMA MinusType == \A a, b \in Words : Minus(a, b) \in Words
BY ConstantsAssumption DEF Minus, Words

\* A tick later the counter is still a ULONG.
LEMMA NextTickType == clock \in Words => NextTick \in Words
BY ConstantsAssumption DEF NextTick, Words

\* A sleep that is under way has ticks left.
Asleep == netPc = "sleep" => timer > 0

TypeInv == TypeOK /\ Asleep

LEMMA InitType == Init => TypeInv
<1>1. 0 \in Words /\ InitialPeriod \in Words
    BY ConstantsAssumption DEF Words
<1>2. SUFFICES ASSUME Init PROVE TypeInv
    OBVIOUS
<1>3. TypeOK
    BY <1>1, <1>2 DEF Init, TypeOK
<1>4. Asleep
    BY <1>2 DEF Init, Asleep
<1> QED
    BY <1>3, <1>4 DEF TypeInv

LEMMA TypeStep == TypeInv /\ [Next]_vars => TypeInv'
<1> SUFFICES ASSUME TypeInv, [Next]_vars PROVE TypeInv'
    OBVIOUS
<1> USE ConstantsAssumption DEF TypeInv, TypeOK, Asleep
<1>1. CASE Elapsed
    BY <1>1, MinusType DEF Elapsed
<1>2. CASE Compare
    BY <1>2 DEF Compare, round
<1>3. CASE Subtract
    BY <1>3, MinusType DEF Subtract, round
<1>4. CASE Suspend
    BY <1>4 DEF Suspend, round, Words
<1>5. CASE RequestAll
    BY <1>5 DEF RequestAll
<1>6. CASE TickAsleep
    BY <1>6, NextTickType DEF TickAsleep, Words
<1>7. CASE TickAwake
    BY <1>7, NextTickType DEF TickAwake
<1>8. ASSUME NEW period \in Periods, CommandS(period) PROVE TypeInv'
    BY <1>8 DEF CommandS, round
<1>9. CASE Abort
    BY <1>9 DEF Abort, round
<1>10. CASE UNCHANGED vars
    BY <1>10 DEF vars
<1> QED
    BY <1>1, <1>2, <1>3, <1>4, <1>5, <1>6, <1>7, <1>8, <1>9, <1>10
    DEF Next, Net

\* Every reachable state has the declared types (net_thread_entry 780-782).
THEOREM Typing == Spec => []TypeOK
<1>1. Init => TypeInv
    BY InitType
<1>2. TypeInv => TypeOK
    BY DEF TypeInv
<1> QED
    BY <1>1, <1>2, TypeStep, PTL DEF Spec

-----------------------------------------------------------------------------
\* While net_thread works, the tick counter is the ticks passed ahead of
\* start, or has wrapped.
Working ==
    netPc = "work" =>
        /\ passed <= MaxWork
        /\ worked = 0
        /\ slip = 0
        /\ clock = start + passed \/ clock = start + passed - Modulus

\* From line 780 on, the ticks are either seen, slept or slipped.
Pacing ==
    /\ netPc = "compare" =>
           actual_flags = worked /\ passed = worked + slip
    /\ netPc = "subtract" /\ ~disturbed =>
           /\ actual_flags = worked
           /\ passed = worked + slip
           /\ worked <= sample_period
    /\ netPc = "suspend" /\ ~disturbed =>
           passed = worked + slip /\ worked + timer = sample_period
    /\ netPc = "sleep" /\ ~disturbed =>
           passed + timer = sample_period + slip /\ worked <= sample_period

PaceInv == TypeInv /\ Working /\ Pacing /\ OnTime

\* Line 780 computes the ticks since the last request, wrapped or not.
LEMMA ElapsedTicks ==
    TypeOK /\ Working /\ netPc = "work" => Minus(clock, start) = passed
BY ConstantsAssumption DEF TypeOK, Working, Minus, Words

LEMMA PaceStep == PaceInv /\ [Next]_vars => PaceInv'
<1> SUFFICES ASSUME PaceInv, [Next]_vars PROVE (Working /\ Pacing /\ OnTime)'
    BY TypeStep DEF PaceInv
<1> USE ConstantsAssumption
    DEF PaceInv, TypeInv, TypeOK, Asleep, Working, Pacing, OnTime, Words
<1>1. CASE Elapsed
    BY <1>1, ElapsedTicks DEF Elapsed
<1>2. CASE Compare
    BY <1>2 DEF Compare, round
<1>3. CASE Subtract
    <2>1. ~disturbed => Minus(sample_period, actual_flags)
                            = sample_period - worked
        BY <1>3 DEF Subtract, Minus
    <2>2. netPc' = "suspend" /\ timer' = Minus(sample_period, actual_flags)
          /\ UNCHANGED <<sample_period, passed, worked, slip, disturbed>>
        BY <1>3 DEF Subtract, round
    <2>3. ~disturbed => passed = worked + slip
        BY <1>3 DEF Subtract
    <2> QED
        BY <2>1, <2>2, <2>3
<1>4. CASE Suspend
    BY <1>4 DEF Suspend, round
<1>5. CASE RequestAll
    BY <1>5 DEF RequestAll
<1>6. CASE TickAsleep
    BY <1>6 DEF TickAsleep
<1>7. CASE TickAwake
    <2>1. passed' = passed + 1 /\ clock' = NextTick
          /\ UNCHANGED <<start, actual_flags, sample_period, netPc, timer,
                         worked, disturbed>>
        BY <1>7 DEF TickAwake
    <2>2. CASE netPc = "work" /\ passed < MaxWork /\ UNCHANGED slip
        BY <2>1, <2>2 DEF NextTick
    <2>3. CASE netPc \notin {"work", "sleep"} /\ slip' = slip + 1
        BY <2>1, <2>3
    <2> QED
        BY <1>7, <2>2, <2>3 DEF TickAwake
<1>8. ASSUME NEW period \in Periods, CommandS(period)
      PROVE  (Working /\ Pacing /\ OnTime)'
    BY <1>8 DEF CommandS, Committed, round
<1>9. CASE Abort
    BY <1>9 DEF Abort, round
<1>10. CASE UNCHANGED vars
    BY <1>10 DEF vars
<1> QED
    BY <1>1, <1>2, <1>3, <1>4, <1>5, <1>6, <1>7, <1>8, <1>9, <1>10
    DEF Next, Net

\* Undisturbed requests are sample_period ticks apart, or as far apart as the
\* work in between, for every period and every width of the tick counter: the
\* arithmetic of lines 780 and 781 survives the counter's wrap.
THEOREM Punctuality == Spec => []OnTime
<1>1. Init => PaceInv
    <2>1. Init => Working /\ Pacing /\ OnTime
        BY InitType, ConstantsAssumption
        DEF Init, Working, Pacing, OnTime, Words
    <2> QED
        BY <2>1, InitType DEF PaceInv
<1>2. PaceInv => OnTime
    BY DEF PaceInv
<1> QED
    BY <1>1, <1>2, PaceStep, PTL DEF Spec
=============================================================================
