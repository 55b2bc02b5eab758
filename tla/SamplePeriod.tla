--------------------------- MODULE SamplePeriod ---------------------------
(***************************************************************************)
(* The pacing of net_thread's main loop: it sleeps for what is left of     *)
(* sample_period since the last request, in unsigned arithmetic on the     *)
(* ThreadX tick counter, while the S command changes sample_period and     *)
(* ends the sleep from the thread of the cloud agent.                      *)
(*                                                                         *)
(* Everything net_thread does between a request and line 780 is one period *)
(* of work that takes any number of ticks.  A tick or a command can come   *)
(* between any two steps of net_thread.                                    *)
(***************************************************************************)
EXTENDS Integers

CONSTANTS
    Modulus,        \* ULONG arithmetic: 2^32
    Periods,        \* the sample periods an S command carries
    InitialPeriod,  \* its value at line 137
    MaxWork,        \* bound: the ticks that a period of work takes
    MaxSlip,        \* bound: the ticks that come while the sleep is computed
    MaxCommands     \* bound: the number of S commands

Words == 0..(Modulus - 1)

\* A period of work takes less than the 497 days the tick counter counts.
ASSUME ConstantsAssumption ==
    /\ Modulus \in Nat \ {0}
    /\ Periods \subseteq Words
    /\ InitialPeriod \in Words
    /\ MaxWork \in Nat
    /\ MaxSlip \in Nat
    /\ MaxWork < Modulus
    /\ MaxCommands \in Nat

VARIABLES
    clock,          \* tx_time_get()
    start,          \* the time of the last request
    actual_flags,   \* the ticks since then, as line 780 computes them
    sample_period,
    netPc,          \* where net_thread is
    timer,          \* the ticks that are left of its sleep
    callback,       \* where m1_callback is
    commands,       \* the number of S commands received
    passed,         \* history: the ticks since the last request
    worked,         \* history: those among them that line 780 has seen
    slip,           \* history: those among them neither seen nor slept
    disturbed       \* history: a command came while the sleep was computed
                    \* or under way

vars == <<clock, start, actual_flags, sample_period, netPc, timer, callback,
          commands, passed, worked, slip, disturbed>>
round == <<passed, worked, slip>>

-----------------------------------------------------------------------------
\* mutant: the difference is not taken modulo 2^32
SignedMinus(a, b) == a - b

\* the difference of two ULONGs
Minus(a, b) == IF a >= b THEN a - b ELSE a - b + Modulus

Init ==
    /\ clock \in Words
    /\ start = clock
    /\ actual_flags = 0
    /\ sample_period = InitialPeriod
    /\ netPc = "work"
    /\ timer = 0
    /\ callback = "idle"
    /\ commands = 0
    /\ passed = 0
    /\ worked = 0
    /\ slip = 0
    /\ disturbed = FALSE

\* line 780
Elapsed ==
    /\ netPc = "work"
    /\ actual_flags' = Minus(clock, start)
    /\ worked' = passed
    /\ netPc' = "compare"
    /\ UNCHANGED <<clock, start, sample_period, timer, callback, commands,
                   passed, slip, disturbed>>

\* line 781 reads sample_period to compare ...
Compare ==
    /\ netPc = "compare"
    /\ netPc' = IF actual_flags <= sample_period THEN "subtract" ELSE "request"
    /\ UNCHANGED <<clock, start, actual_flags, sample_period, timer, callback,
                   commands, round, disturbed>>

\* ... and again to subtract.
Subtract ==
    /\ netPc = "subtract"
    /\ timer' = Minus(sample_period, actual_flags)
    /\ netPc' = "suspend"
    /\ UNCHANGED <<clock, start, actual_flags, sample_period, callback,
                   commands, round, disturbed>>

\* tx_thread_sleep, which returns at once from a sleep of 0 ticks
Suspend ==
    /\ netPc = "suspend"
    /\ netPc' = IF timer = 0 THEN "request" ELSE "sleep"
    /\ UNCHANGED <<clock, start, actual_flags, sample_period, timer, callback,
                   commands, round, disturbed>>

\* mutant: start is not the time of the request but the end of the period
RequestAllKeepsStart ==
    /\ netPc = "request"
    /\ netPc' = "work"
    /\ passed' = 0
    /\ worked' = 0
    /\ slip' = 0
    /\ disturbed' = FALSE
    /\ UNCHANGED <<clock, start, actual_flags, sample_period, timer, callback,
                   commands>>

\* line 782, then the request
RequestAll ==
    /\ netPc = "request"
    /\ start' = clock
    /\ netPc' = "work"
    /\ passed' = 0
    /\ worked' = 0
    /\ slip' = 0
    /\ disturbed' = FALSE
    /\ UNCHANGED <<clock, actual_flags, sample_period, timer, callback,
                   commands>>

Net == Elapsed \/ Compare \/ Subtract \/ Suspend \/ RequestAll

NextTick == IF clock + 1 = Modulus THEN 0 ELSE clock + 1

\* the tick interrupt: it also counts net_thread's sleep down
TickAsleep ==
    /\ netPc = "sleep"
    /\ clock' = NextTick
    /\ timer' = timer - 1
    /\ netPc' = IF timer' = 0 THEN "request" ELSE "sleep"
    /\ passed' = passed + 1
    /\ UNCHANGED <<start, actual_flags, sample_period, callback, commands,
                   worked, slip, disturbed>>

TickAwake ==
    /\ clock' = NextTick
    /\ passed' = passed + 1
    /\ \/ netPc = "work" /\ passed < MaxWork /\ UNCHANGED slip
       \/ netPc \notin {"work", "sleep"} /\ slip < MaxSlip /\ slip' = slip + 1
    /\ UNCHANGED <<start, actual_flags, sample_period, netPc, timer, callback,
                   commands, worked, disturbed>>

\* net_thread has read sample_period
Committed == netPc \in {"subtract", "suspend", "sleep", "request"}

CommandS(period) ==
    /\ callback = "idle"
    /\ commands < MaxCommands
    /\ commands' = commands + 1
    /\ sample_period' = period
    /\ callback' = "abort"
    /\ disturbed' = (disturbed \/ Committed)
    /\ UNCHANGED <<clock, start, actual_flags, netPc, timer, round>>

\* tx_thread_wait_abort: no effect unless net_thread sleeps
Abort ==
    /\ callback = "abort"
    /\ callback' = "idle"
    /\ netPc' = IF netPc = "sleep" THEN "request" ELSE netPc
    /\ disturbed' = (disturbed \/ netPc = "sleep")
    /\ UNCHANGED <<clock, start, actual_flags, sample_period, timer, commands,
                   round>>

Next == \/ Net
        \/ TickAsleep
        \/ TickAwake
        \/ \E period \in Periods : CommandS(period)
        \/ Abort

Spec == Init /\ [][Next]_vars

-----------------------------------------------------------------------------
(* Properties *)

\* Every variable has its type.
TypeOK ==
    /\ clock \in Words
    /\ start \in Words
    /\ actual_flags \in Words
    /\ sample_period \in Words
    /\ netPc \in {"work", "compare", "subtract", "suspend", "sleep",
                  "request"}
    /\ timer \in Words
    /\ callback \in {"idle", "abort"}
    /\ commands \in Nat
    /\ passed \in Nat
    /\ worked \in Nat
    /\ slip \in Nat
    /\ disturbed \in BOOLEAN

\* Requests are sample_period ticks apart, or as far apart as the work in
\* between takes if that is longer, not counting the ticks that come while
\* the sleep is computed; also when the tick counter wraps in between, and
\* with the period of a command that came before line 781 was reached.
OnTime ==
    netPc = "request" /\ ~disturbed =>
        passed = slip + (IF worked <= sample_period THEN sample_period
                         ELSE worked)

\* What line 513 of the source promises, "requesting sensor aggregates every
\* sample_period": net_thread never sleeps longer than the longest period it
\* has been given.
SleepWithinPeriod ==
    netPc = "sleep" /\ callback = "idle" =>
        \E period \in Periods \cup {InitialPeriod} : timer <= period
=============================================================================
