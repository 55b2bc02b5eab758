----------------------------- MODULE Bmm050Data -----------------------------
(***************************************************************************)
(* Reading the three axes and the Hall resistance from the BMM050: one     *)
(* transfer of eight bytes, cut into numbers and compensated with the trim *)
(* values.  What the compensation computes is left out, but not when it    *)
(* gives up, nor when its divisor is zero: the result is what it is        *)
(* computed from, or one of three marks.                                   *)
(***************************************************************************)
EXTENDS Integers, Sequences

CONSTANTS
    MagneticXY,    \* what the chip may measure in X and in Y
    MagneticZ,     \* what the chip may measure in Z
    Resistances,   \* what the Hall resistance may be
    MagTrims,      \* what the trim values that are divided by may be
    MaxMagReads    \* bound: the number of calls

FLIP_OVERFLOW_ADCVAL == -4096
HALL_OVERFLOW_ADCVAL == -16384

ASSUME MagDataAssumption ==
    /\ MagneticXY \subseteq FLIP_OVERFLOW_ADCVAL .. -1 - FLIP_OVERFLOW_ADCVAL
    /\ MagneticZ \subseteq HALL_OVERFLOW_ADCVAL .. -1 - HALL_OVERFLOW_ADCVAL
    /\ Resistances \subseteq 0..(2^14 - 1)
    /\ MagTrims \subseteq [xyz1 : 0..(2^16 - 1), z1 : 0..(2^16 - 1),
                           z2 : -2^15..(2^15 - 1)]
    /\ MaxMagReads \in Nat

VARIABLES
    magnetic,    \* the latest measurement of the chip
    trims,       \* the driver's trim values, dig_xyz1, dig_z1 and dig_z2
    magReading,  \* the last call
    magReads     \* counter for the bound

magDataVars == <<magnetic, trims, magReading, magReads>>

-----------------------------------------------------------------------------
(* The chip's registers: X and Y are 13 bits, Z 15 and the resistance 14,  *)
(* each at the top of two bytes; the lowest bit says that all are ready    *)

Ready == 1
Frame(m) ==
    LET Word(number, bits) == (number % 2^bits) * 2^(16 - bits)
        words == <<Word(m.x, 13), Word(m.y, 13), Word(m.z, 15),
                   Word(m.r, 14) + Ready>>
    IN  [k \in 1..8 |-> IF k % 2 = 1 THEN words[(k + 1) \div 2] % 256
                                     ELSE words[k \div 2] \div 256]

(* The driver's conversions *)

\* mutant: the lower byte is taken with the bits that are not the number's
Unsliced(lsb, msb, bits) == msb * 2^(bits - 8) + lsb

\* bits are sliced out of the lower byte and the upper is put before them
Joined(lsb, msb, bits) == msb * 2^(bits - 8) + lsb \div 2^(16 - bits)

SignedByte(byte) == IF byte >= 128 THEN byte - 256 ELSE byte

Axes13(frame) ==
    [x |-> Joined(frame[1], SignedByte(frame[2]), 13),
     y |-> Joined(frame[3], SignedByte(frame[4]), 13)]

RawXyz(frame) ==
    [x |-> Axes13(frame).x, y |-> Axes13(frame).y,
     z |-> Joined(frame[5], SignedByte(frame[6]), 15),
     r |-> Joined(frame[7], frame[8], 14)]

\* X and Y change places, and X its sign
Remapped(frame) ==
    [RawXyz(frame) EXCEPT !.x = -Axes13(frame).y, !.y = Axes13(frame).x]

\* so does bmm050_read_bmx055_remapped_mag_data_XYZ, with the upper byte of Y
RemappedS16(frame) ==
    [Remapped(frame) EXCEPT !.x = -Joined(frame[3], SignedByte(frame[2]), 13)]

\* the output of the integer forms and of the float forms when they give up
OVERFLOW == "overflow"
ZERO == "0.0f"
\* the output of a division by zero: what the processor makes of it
NO_QUOTIENT == "no quotient"

\* what each axis tests before it computes
GivenUp(axis, raw, r) ==
    \/ raw = IF axis = "z" THEN HALL_OVERFLOW_ADCVAL ELSE FLIP_OVERFLOW_ADCVAL
    \/ r = 0
    \/ trims.xyz1 = 0
    \/ axis = "z" /\ 0 \in {trims.z1, trims.z2}

\* What Z divides by, dig_z2 plus dig_z1 times the resistance, is not tested.
\* The integer forms round the product, and so does a float of 24 bits, to
\* the nearest of its last place.
DivisorIsZero(form, r) ==
    LET product == trims.z1 * r
        sum == trims.z2 * 2^15 + product
    IN  IF form = "float"
        THEN \/ sum = 0
             \/ \E e \in 24..29 : /\ product >= 2^e
                                 /\ sum \in -2^(e - 24)..2^(e - 24)
        ELSE trims.z2 + (2 * product + 2^15) \div 2^16 = 0

compensate(form, axis, raw, r) ==
    IF GivenUp(axis, raw, r)
    THEN IF form = "float" THEN <<ZERO>> ELSE <<OVERFLOW>>
    ELSE IF axis = "z" /\ DivisorIsZero(form, r) THEN <<NO_QUOTIENT>>
         ELSE <<axis, raw, r>>

Compensated(form, raw) ==
    [x |-> compensate(form, "x", raw.x, raw.r),
     y |-> compensate(form, "y", raw.y, raw.r),
     z |-> compensate(form, "z", raw.z, raw.r), r |-> raw.r]
Uncompensated(raw) ==
    [x |-> <<"x", raw.x>>, y |-> <<"y", raw.y>>, z |-> <<"z", raw.z>>,
     r |-> raw.r]

-----------------------------------------------------------------------------
(* The calls: what they return is written only if the transfer succeeded   *)

ReadMag(call, Value(_)) ==
    /\ magReads < MaxMagReads
    /\ magReads' = magReads + 1
    /\ \E failed \in BOOLEAN :
         magReading' =
           IF failed
           THEN [magReading EXCEPT !.call = call, !.status = -1]
           ELSE [call |-> call, status |-> 0, value |-> Value(Frame(magnetic)),
                 of |-> magnetic]
    /\ UNCHANGED <<magnetic, trims>>

read_mag_data_XYZ == ReadMag("s16", LAMBDA f : Compensated("s16", RawXyz(f)))
read_mag_data_XYZ_s32 ==
    ReadMag("s32", LAMBDA f : Compensated("s32", RawXyz(f)))
read_mag_data_XYZ_float ==
    ReadMag("float", LAMBDA f : Compensated("float", RawXyz(f)))
raw_xyz == ReadMag("raw", LAMBDA f : Uncompensated(RawXyz(f)))
read_bmx055_remapped_mag_data_XYZ ==
    ReadMag("remapped s16", LAMBDA f : Compensated("s16", RemappedS16(f)))
read_bmx055_remapped_mag_data_XYZ_s32 ==
    ReadMag("remapped s32", LAMBDA f : Compensated("s32", Remapped(f)))
read_bmx055_remapped_mag_data_XYZ_float ==
    ReadMag("remapped float", LAMBDA f : Compensated("float", Remapped(f)))
bmx055_remapped_raw_xyz ==
    ReadMag("remapped raw", LAMBDA f : Uncompensated(Remapped(f)))

-----------------------------------------------------------------------------
MagMeasurements == [x : MagneticXY, y : MagneticXY, z : MagneticZ,
                    r : Resistances]

MeasureField ==
    /\ magnetic' \in MagMeasurements
    /\ UNCHANGED <<trims, magReading, magReads>>

MagDataInit ==
    /\ magnetic \in MagMeasurements
    /\ trims \in MagTrims
    /\ magReading = [call |-> "none", status |-> -1, value |-> <<>>,
                     of |-> <<>>]
    /\ magReads = 0

MagDataNext ==
    \/ MeasureField
    \/ read_mag_data_XYZ \/ read_mag_data_XYZ_s32 \/ read_mag_data_XYZ_float
    \/ raw_xyz
    \/ read_bmx055_remapped_mag_data_XYZ
    \/ read_bmx055_remapped_mag_data_XYZ_s32
    \/ read_bmx055_remapped_mag_data_XYZ_float
    \/ bmx055_remapped_raw_xyz

MagDataSpec == MagDataInit /\ [][MagDataNext]_magDataVars

-----------------------------------------------------------------------------
\* What bmm050_read_mag_data_XYZ and its s32 and float forms return of an axis
\* is computed from the chip's number for that axis and the resistance of the
\* same moment, with their signs.  An axis is given up only when the chip marks
\* it, or when the resistance or a trim value of this axis is zero; and only of
\* Z, when its untested divisor comes out as zero, there is no quotient.
MagDecoded ==
    magReading.status = 0 /\ magReading.call \in {"s16", "s32", "float"} =>
        LET m == magReading.of
            v == magReading.value
            form == magReading.call
            none == IF form = "float" THEN <<ZERO>> ELSE <<OVERFLOW>>
            unusable == m.r = 0 \/ trims.xyz1 = 0
        IN  /\ v.r = m.r
            /\ \A a \in {"x", "y"} :
                  v[a] = IF m[a] = FLIP_OVERFLOW_ADCVAL \/ unusable
                         THEN none ELSE <<a, m[a], m.r>>
            /\ v.z = IF \/ m.z = HALL_OVERFLOW_ADCVAL \/ unusable
                       \/ trims.z1 = 0 \/ trims.z2 = 0
                     THEN none
                     ELSE IF DivisorIsZero(form, m.r) THEN <<NO_QUOTIENT>>
                     ELSE <<"z", m.z, m.r>>
=============================================================================
