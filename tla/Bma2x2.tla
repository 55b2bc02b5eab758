------------------------------- MODULE Bma2x2 -------------------------------
(***************************************************************************)
(* The driver of the accelerometer BMA2x2: settings that share registers,  *)
(* each changed by reading a register, replacing a slice and writing it    *)
(* back, over a bus on which any transfer may fail.                        *)
(*                                                                         *)
(* A step is a call of the driver: only bmc_thread calls it.  A failed     *)
(* read leaves 0 in the variable it was to fill; a failed write may have   *)
(* reached the chip.  The chip keeps its registers in every power mode,    *)
(* and reads bits that are only written as 0.                              *)
(***************************************************************************)
EXTENDS RegisterField, FiniteSets

CONSTANTS
    Registers,    \* the registers of the settings
    Fields,       \* the settings, by name: AccelTable of Bma2x2Fields
    Triggers,     \* the fields that are only written
    Status,       \* the fields that are only read
    Affects(_),   \* the registers whose contents a trigger makes the chip change
    Arguments,    \* the arguments of the setters
    Contents,     \* what registers hold that the chip itself has filled
    MaxCalls,     \* bound: the number of calls
    MaxMisses     \* bound: the number of transfers that fail

Names == DOMAIN Fields
FifoReg == \h3E
ModeReg == \h11
LowReg == \h12
ModeCtrl == [reg |-> ModeReg, pos |-> 5, len |-> 3]
LowPower == [reg |-> LowReg, pos |-> 6, len |-> 1]

\* Settings do not overlap with each other or with the power mode; the copy
\* of the FIFO register is the driver's; the two registers of the interrupts
\* that are enabled together hold no other kind of field that is copied.
ASSUME AccelAssumption ==
    /\ Fields \in [Names -> FieldRecord(Registers)]
    /\ \A m, n \in Names :
          m # n /\ Fields[m].reg = Fields[n].reg
              => Mask(Fields[m]) \cap Mask(Fields[n]) = {}
    /\ \A n \in Names :
          /\ Fields[n].via = "write" => Mask(Fields[n]) = Bit
          /\ Fields[n].via = "fifo" <=> Fields[n].reg = FifoReg
          /\ Fields[n].via = "pair" => Fields[n].reg \in {\h16, \h17}
          /\ Fields[n].reg = ModeReg => Mask(Fields[n]) \cap Mask(ModeCtrl) = {}
          /\ Fields[n].reg = LowReg => Mask(Fields[n]) \cap Mask(LowPower) = {}
          /\ Mask(Fields[n]) \subseteq Bit
    /\ {FifoReg, ModeReg, LowReg, \h16, \h17} \subseteq Registers
    /\ \A t \in Triggers :
          /\ t \in FieldRecord(Registers)
          /\ \A n \in Names :
                t.reg = Fields[n].reg => Mask(t) \cap Mask(Fields[n]) = {}
          /\ t.reg \notin {ModeReg, LowReg, FifoReg}
          /\ Affects(t) \subseteq Registers
    /\ Contents \subseteq Byte
    /\ MaxCalls \in Nat
    /\ MaxMisses \in Nat

VARIABLES
    attached,      \* p_bma2x2 points to the driver's data
    registers,     \* the chip
    fifo_config,   \* the driver's copy of the FIFO register
    ctrl_mode_reg, low_mode_reg,   \* the power mode last asked for
    known,         \* history: the fields that calls have set, and to what
    knownMode,     \* history: the power mode that was set, or -1
    com_rslt,      \* what the last call returned
    accelCalls, accelMisses   \* counters for the bounds

chip == <<attached, registers, fifo_config, ctrl_mode_reg, low_mode_reg>>
accelBounds == <<accelCalls, accelMisses>>
accelVars == <<chip, known, knownMode, com_rslt, accelBounds>>

-----------------------------------------------------------------------------
SUCCESS == 0
ERROR == -1
E_OUT_OF_RANGE == -2
E_NULL_PTR == -127

\* the transfers of a call that fail, by their numbers
Misses(n) ==
    {m \in SUBSET (1..n) : accelMisses + Cardinality(m) <= MaxMisses}

\* com_rslt += the result of each of n transfers; so do all calls of this
\* module, but not the readers of eight bits, which are in Bma2x2Data
Summed(n, misses) == ERROR * Cardinality(misses)

\* what a transfer reads, and what it may leave in the register it writes
Read(k, misses, byte) == IF k \in misses THEN {} ELSE byte
Written(k, misses, old, new) == IF k \in misses THEN {old, new} ELSE {new}

Outcome(status, misses) ==
    /\ com_rslt' = status
    /\ accelMisses' = accelMisses + Cardinality(misses)

Call(status, misses) ==
    /\ Outcome(status, misses)
    /\ accelCalls' = accelCalls + 1

\* fields of registers that a call may have spoilt, or that the chip changes,
\* are no longer known
Forget(regs) ==
    /\ known' = {k \in known : Fields[k[1]].reg \notin regs}
    /\ knownMode' = IF {ModeReg, LowReg} \cap regs # {} THEN -1 ELSE knownMode

Know(n, value) ==
    /\ known' = {k \in known : k[1] # n} \cup {<<n, value>>}
    /\ UNCHANGED knownMode

SetEnds(n, regs, value, status, misses) ==
    /\ Call(status, misses)
    /\ IF status = SUCCESS THEN Know(n, value) ELSE Forget(regs)

-----------------------------------------------------------------------------
(* The setters, by how they write *)

Update(n, value) ==
    LET f == Fields[n]
    IN  \E misses \in Misses(2) :
          \E byte \in Written(2, misses, registers[f.reg],
                 SetBitslice(Read(1, misses, registers[f.reg]), f, value)) :
            /\ registers' = [registers EXCEPT ![f.reg] = byte]
            /\ SetEnds(n, {f.reg}, Truncated(f, value), Summed(2, misses),
                       misses)
            /\ UNCHANGED <<attached, fifo_config, ctrl_mode_reg, low_mode_reg>>

WriteWhole(n, value) ==
    LET f == Fields[n]
    IN  \E misses \in Misses(1) :
          \E byte \in Written(1, misses, registers[f.reg], value) :
            /\ registers' = [registers EXCEPT ![f.reg] = byte]
            /\ SetEnds(n, {f.reg}, value, Summed(1, misses), misses)
            /\ UNCHANGED <<attached, fifo_config, ctrl_mode_reg, low_mode_reg>>

\* mutant: the copy is not refreshed
CopyKept(misses, byte) == fifo_config

\* the copy is read back, if writing succeeded
Copy(misses, byte) ==
    IF misses \cap {1, 2} = {} THEN Read(3, misses, byte) ELSE fifo_config

UpdateFifo(n, value) ==
    LET f == Fields[n]
    IN  \E misses \in Misses(3) :
          /\ 3 \in misses => misses \cap {1, 2} = {}
          /\ \E byte \in Written(2, misses, registers[f.reg],
                 SetBitslice(Read(1, misses, registers[f.reg]), f, value)) :
               /\ registers' = [registers EXCEPT ![f.reg] = byte]
               /\ fifo_config' = Copy(misses, byte)
               /\ SetEnds(n, {f.reg}, Truncated(f, value), Summed(3, misses),
                          misses)
               /\ UNCHANGED <<attached, ctrl_mode_reg, low_mode_reg>>

\* bma2x2_set_intr_enable reads both registers, changes one and writes both
UpdatePair(n, value) ==
    LET f == Fields[n]
        New(r, k, misses) ==
            LET byte == Read(k, misses, registers[r])
            IN  IF f.reg = r THEN SetBitslice(byte, f, value) ELSE byte
    IN  \E misses \in Misses(4) :
          \E byte1 \in Written(3, misses, registers[\h16], New(\h16, 1, misses)),
             byte2 \in Written(4, misses, registers[\h17], New(\h17, 2, misses)) :
            /\ registers' = [registers EXCEPT ![\h16] = byte1, ![\h17] = byte2]
            /\ SetEnds(n, {\h16, \h17}, Truncated(f, value), Summed(4, misses),
                       misses)
            /\ UNCHANGED <<attached, fifo_config, ctrl_mode_reg, low_mode_reg>>

SetField ==
    \E n \in Names : \E argument \in Arguments \cap Fields[n].accepts :
       LET value == Bits(argument)
       IN  \/ Fields[n].via = "update" /\ Update(n, value)
           \/ Fields[n].via = "write" /\ WriteWhole(n, value)
           \/ Fields[n].via = "fifo" /\ UpdateFifo(n, value)
           \/ Fields[n].via = "pair" /\ UpdatePair(n, value)

\* an argument or a channel out of range: no transfer
Reject ==
    /\ Call(E_OUT_OF_RANGE, {})
    /\ UNCHANGED <<chip, known, knownMode>>

\* an unknown type of interrupt: both registers are read and written all the
\* same
RejectInterrupt ==
    \E misses \in Misses(4) :
       \E byte1 \in Written(3, misses, registers[\h16],
                            Read(1, misses, registers[\h16])),
          byte2 \in Written(4, misses, registers[\h17],
                            Read(2, misses, registers[\h17])) :
         /\ registers' = [registers EXCEPT ![\h16] = byte1, ![\h17] = byte2]
         /\ Call(E_OUT_OF_RANGE + Summed(4, misses \cap {3, 4}), misses)
         /\ Forget(IF misses = {} THEN {} ELSE {\h16, \h17})
         /\ UNCHANGED <<attached, fifo_config, ctrl_mode_reg, low_mode_reg>>

-----------------------------------------------------------------------------
(* The getters.  Those of bits that are only read return what the chip     *)
(* measures.                                                               *)

Get(n) == GetBitslice(registers[Fields[n].reg], Fields[n])

GetField ==
    \E field \in {Fields[n] : n \in Names} \cup Status, misses \in Misses(1) :
       /\ Call(Summed(1, misses), misses)
       /\ UNCHANGED <<chip, known, knownMode>>

-----------------------------------------------------------------------------
(* The power mode *)

NORMAL == 0
LOWPOWER1 == 1
SUSPEND == 2
DEEP_SUSPEND == 3
LOWPOWER2 == 4
STANDBY == 5
PowerModes == NORMAL..STANDBY

get_power_mode ==
    LET ctrl == GetBitslice(registers[ModeReg], ModeCtrl)
        low == GetBitslice(registers[LowReg], LowPower)
    IN  CASE ctrl = {} /\ low = {} -> NORMAL
          [] ctrl = {1} /\ low = {} -> LOWPOWER1
          [] ctrl \in {{2}, {1, 2}} /\ low = {} -> SUSPEND
          [] ctrl = {1} /\ low # {} -> LOWPOWER2
          [] ctrl = {2} /\ low # {} -> STANDBY
          [] OTHER -> DEEP_SUSPEND

\* bma2x2_set_mode_value: an unknown mode leaves what was asked for last
ModeCtrlOf(mode) ==
    CASE mode = NORMAL -> {}
      [] mode \in {LOWPOWER1, LOWPOWER2} -> {1}
      [] mode \in {SUSPEND, STANDBY} -> {2}
      [] mode = DEEP_SUSPEND -> {0}
      [] OTHER -> ctrl_mode_reg
LowPowerOf(mode) ==
    CASE mode \in {NORMAL, LOWPOWER1, SUSPEND} -> {}
      [] mode \in {LOWPOWER2, STANDBY} -> {0}
      [] OTHER -> low_mode_reg

SetMode(byte, value) == SetBitslice(byte, ModeCtrl, value)

\* Transfers 1 and 2 read the two registers, 3 writes the second, 4 writes
\* suspend into the first, 5 the copy into the FIFO register, 6 reads the
\* first again and 7 writes it.
SetPowerMode(mode) ==
    \E misses \in Misses(7) :
       \E low \in Written(3, misses, registers[LowReg],
                     SetBitslice(Read(2, misses, registers[LowReg]), LowPower,
                                 LowPowerOf(mode))),
          suspended \in Written(4, misses, registers[ModeReg],
                           SetMode(Read(1, misses, registers[ModeReg]), {2})),
          fifo \in Written(5, misses, registers[FifoReg], fifo_config) :
       \E ctrl \in Written(7, misses, suspended,
                      SetMode(Read(6, misses, suspended), ModeCtrlOf(mode))) :
         LET status == Summed(7, misses)
                       + (IF mode \in PowerModes THEN SUCCESS ELSE E_OUT_OF_RANGE)
         IN  /\ registers' = [registers EXCEPT ![LowReg] = low,
                                    ![ModeReg] = ctrl, ![FifoReg] = fifo]
             /\ ctrl_mode_reg' = ModeCtrlOf(mode)
             /\ low_mode_reg' = LowPowerOf(mode)
             /\ Call(status, misses)
             /\ IF status = SUCCESS
                THEN knownMode' = mode /\ UNCHANGED known
                ELSE Forget({ModeReg, LowReg, FifoReg})
             /\ UNCHANGED <<attached, fifo_config>>

-----------------------------------------------------------------------------
(* What makes the chip change registers *)

Trigger ==
    \E t \in Triggers, argument \in Arguments, misses \in Misses(2),
       content \in Contents :
      \E byte \in Written(2, misses, registers[t.reg],
             SetBitslice(Read(1, misses, registers[t.reg]), t, Bits(argument))) :
        /\ argument \in t.accepts
        /\ registers' = [r \in Registers |->
              IF r \in Affects(t) THEN content
              ELSE IF r = t.reg THEN byte \ Mask(t) ELSE registers[r]]
        /\ Call(Summed(2, misses), misses)
        /\ Forget(Affects(t) \cup (IF misses = {} THEN {} ELSE {t.reg}))
        /\ UNCHANGED <<attached, fifo_config, ctrl_mode_reg, low_mode_reg>>

\* the copy of the FIFO register stays as it is
SoftRst ==
    \E misses \in Misses(1), content \in Contents :
       /\ registers' \in Written(1, misses, registers,
                                 [r \in Registers |-> content])
       /\ Call(Summed(1, misses), misses)
       /\ Forget(Registers)
       /\ UNCHANGED <<attached, fifo_config, ctrl_mode_reg, low_mode_reg>>

\* init reads the copy, 0 if it cannot
CopyAtInit(misses) == Read(2, misses, registers[FifoReg])

InitDriver ==
    \E misses \in Misses(2) :
       /\ ~attached
       /\ attached' = TRUE
       /\ fifo_config' = CopyAtInit(misses)
       /\ Outcome(Summed(2, misses), misses)
       /\ known' = IF misses = {}
                   THEN {<<n, Get(n)>> : n \in {m \in Names :
                            Fields[m].reg = FifoReg}}
                   ELSE {}
       /\ UNCHANGED <<registers, ctrl_mode_reg, low_mode_reg, knownMode,
                      accelCalls>>

\* every call before bma2x2_init
NotAttached ==
    /\ ~attached
    /\ Outcome(E_NULL_PTR, {})
    /\ UNCHANGED <<chip, known, knownMode, accelCalls>>

-----------------------------------------------------------------------------
AccelInit ==
    /\ attached = FALSE
    /\ \E content \in Contents : registers = [r \in Registers |-> content]
    /\ fifo_config = {}
    /\ ctrl_mode_reg = {}
    /\ low_mode_reg = {}
    /\ known = {}
    /\ knownMode = -1
    /\ com_rslt = SUCCESS
    /\ accelCalls = 0
    /\ accelMisses = 0

AccelNext ==
    \/ InitDriver
    \/ NotAttached
    \/ /\ attached
       /\ accelCalls < MaxCalls
       /\ \/ SetField
          \/ Reject
          \/ RejectInterrupt
          \/ GetField
          \/ \E mode \in 0..(STANDBY + 1) : SetPowerMode(mode)
          \/ Trigger
          \/ SoftRst

AccelSpec == AccelInit /\ [][AccelNext]_accelVars

-----------------------------------------------------------------------------
\* A field reads back as it was last set with success, through settings of
\* other fields of its register, changes of the power mode and failing
\* transfers of calls about other registers.
AccelKept == \A k \in known : Get(k[1]) = k[2]

\* The power mode that is read is the one last set with success, through
\* settings of the sleep phase and timer, which share its registers.
ModeKept == knownMode # -1 => get_power_mode = knownMode
=============================================================================
