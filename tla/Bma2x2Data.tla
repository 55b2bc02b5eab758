----------------------------- MODULE Bma2x2Data -----------------------------
(***************************************************************************)
(* Reading the acceleration and the temperature from the BMA2x2.  The chip *)
(* measures at any time; one transfer, of one register or of several in a  *)
(* row, sees one measurement.  Any transfer may fail.                      *)
(***************************************************************************)
EXTENDS Integers, Sequences, Functions

CONSTANTS
    Resolution,     \* bits of an acceleration: V_BMA2x2RESOLUTION_U8
    Accelerations,  \* what an axis may measure
    Temperatures,   \* what the thermometer may measure
    MaxReads        \* bound: the number of calls

ASSUME DataAssumption ==
    /\ Resolution \in {10, 12, 14}
    /\ Accelerations \subseteq -2^(Resolution - 1) .. 2^(Resolution - 1) - 1
    /\ Temperatures \subseteq -128..127
    /\ MaxReads \in Nat

VARIABLES
    measured,   \* the latest measurement of the chip
    reading,    \* the call that is reading, or the last one
    reads       \* counter for the bound

dataVars == <<measured, reading, reads>>

Axes == <<"x", "y", "z">>
Axis == {"x", "y", "z"}
Channel == Axis \cup {"t"}

-----------------------------------------------------------------------------
(* The chip's registers: an acceleration is in the upper bits of two bytes, *)
(* the lowest bit of which says that it is new                             *)

Word(m, a) == (m[a] % 2^Resolution) * 2^(16 - Resolution) + 1
Lsb(m, a) == Word(m, a) % 256
Msb(m, a) == Word(m, a) \div 256
\* the registers from X_LSB to TEMP
Burst(m) == <<Lsb(m, "x"), Msb(m, "x"), Lsb(m, "y"), Msb(m, "y"),
              Lsb(m, "z"), Msb(m, "z"), m["t"] % 256>>

(* The driver's conversions *)

Signed(byte) == IF byte >= 128 THEN byte - 256 ELSE byte

\* mutant: the upper byte is taken without its sign
DecodeUnsigned(lsb, msb) ==
    (msb * 256 + lsb - (lsb % 2^(16 - Resolution))) \div 2^(16 - Resolution)

\* the lower byte is masked, the word shifted with its sign
Decode(lsb, msb) ==
    (Signed(msb) * 256 + lsb - (lsb % 2^(16 - Resolution)))
        \div 2^(16 - Resolution)

\* where the lower byte of an axis is in the burst
Position(a) == CASE a = "x" -> 1 [] a = "y" -> 3 [] a = "z" -> 5

DecodeBurst(bytes) ==
    [c \in Channel |-> IF c = "t" THEN Signed(bytes[7])
                       ELSE Decode(bytes[Position(c)], bytes[Position(c) + 1])]

-----------------------------------------------------------------------------
(* The calls *)

NoReading == [call |-> "none", left |-> <<>>, status |-> 0, value |-> <<>>,
         of |-> <<>>, misses |-> 0]

BeginRead ==
    /\ reading.left = <<>>
    /\ reads < MaxReads
    /\ reads' = reads + 1
    /\ UNCHANGED measured

\* one transfer for what is read: a failed one leaves zeroes
OneTransfer(call, channels, Value(_, _)) ==
    /\ BeginRead
    /\ \E failed \in BOOLEAN :
          reading' =
            [call |-> call, left |-> <<>>,
             status |-> IF failed THEN -1 ELSE 0,
             value |-> [c \in channels |->
                           IF failed THEN 0 ELSE Value(measured, c)],
             of |-> Restrict(measured, channels),
             misses |-> IF failed THEN 1 ELSE 0]

read_accel_x == OneTransfer("axis", {"x"}, LAMBDA m, c : Decode(Lsb(m, c), Msb(m, c)))
read_accel_y == OneTransfer("axis", {"y"}, LAMBDA m, c : Decode(Lsb(m, c), Msb(m, c)))
read_accel_z == OneTransfer("axis", {"z"}, LAMBDA m, c : Decode(Lsb(m, c), Msb(m, c)))
read_accel_eight_resolution_x ==
    OneTransfer("eight", {"x"}, LAMBDA m, c : Signed(Msb(m, c)))
read_accel_eight_resolution_y ==
    OneTransfer("eight", {"y"}, LAMBDA m, c : Signed(Msb(m, c)))
read_accel_eight_resolution_z ==
    OneTransfer("eight", {"z"}, LAMBDA m, c : Signed(Msb(m, c)))
read_temp == OneTransfer("axis", {"t"}, LAMBDA m, c : Signed(m[c] % 256))

read_accel_xyz ==
    OneTransfer("axis", Axis, LAMBDA m, c : DecodeBurst(Burst(m))[c])
read_accel_xyzt ==
    OneTransfer("axis", Channel, LAMBDA m, c : DecodeBurst(Burst(m))[c])

\* one transfer per axis, into one variable
BeginEight(channels) ==
    /\ BeginRead
    /\ reading' = [NoReading EXCEPT !.call = "eight_xyz", !.left = channels]
read_accel_eight_resolution_xyz == BeginEight(Axes)
read_accel_eight_resolution_xyzt == BeginEight(Append(Axes, "t"))

\* com_rslt = : only the last transfer decides; a failed one leaves the byte
\* of the axis before
NextAxis ==
    /\ reading.left # <<>>
    /\ \E failed \in BOOLEAN :
         LET c == Head(reading.left)
             before == IF c = "y" THEN "x" ELSE IF c = "z" THEN "y" ELSE "z"
             value == IF ~failed THEN Signed(IF c = "t" THEN measured[c] % 256
                                             ELSE Msb(measured, c))
                      ELSE IF c = "x" THEN 0 ELSE reading.value[before]
         IN  reading' =
               [reading EXCEPT
                  !.left = Tail(@),
                  !.status = IF failed THEN -1 ELSE 0,
                  !.value = [a \in DOMAIN @ \cup {c} |->
                                IF a = c THEN value ELSE @[a]],
                  !.of = [a \in DOMAIN @ \cup {c} |->
                                IF a = c THEN measured[c] ELSE @[a]],
                  !.misses = IF failed THEN @ + 1 ELSE @]
    /\ UNCHANGED <<measured, reads>>

-----------------------------------------------------------------------------
Measurements ==
    {m \in [Channel -> Accelerations \cup Temperatures] :
        /\ \A a \in Axis : m[a] \in Accelerations
        /\ m["t"] \in Temperatures}

Measure ==
    /\ measured' \in Measurements
    /\ UNCHANGED <<reading, reads>>

DataInit ==
    /\ measured \in Measurements
    /\ reading = NoReading
    /\ reads = 0

DataNext ==
    \/ Measure
    \/ read_accel_x \/ read_accel_y \/ read_accel_z \/ read_temp
    \/ read_accel_eight_resolution_x \/ read_accel_eight_resolution_y
    \/ read_accel_eight_resolution_z
    \/ read_accel_xyz \/ read_accel_xyzt
    \/ read_accel_eight_resolution_xyz \/ read_accel_eight_resolution_xyzt
    \/ NextAxis

DataSpec == DataInit /\ [][DataNext]_dataVars

-----------------------------------------------------------------------------
\* What an axis is said to be is what it was when it was read, in counts of
\* the resolution or, for eight bits, of its upper byte.
AccelDecoded ==
    reading.misses = 0 =>
        \A c \in DOMAIN reading.value :
           reading.value[c] =
             IF reading.call = "axis" \/ c = "t" THEN reading.of[c]
             ELSE reading.of[c] \div 2^(Resolution - 8)

\* What the driver says of its readers (bma2x2.c lines 723-725, "@retval 0 ->
\* Success", "-1 -> Error"): one that returns success has read every axis.
ReadingHonest ==
    reading.left = <<>> /\ reading.status = 0 => reading.misses = 0
=============================================================================
