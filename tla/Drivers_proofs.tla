--------------------------- MODULE Drivers_proofs ---------------------------
(***************************************************************************)
(* Proofs about the drivers of the sensors and about the microphone, for   *)
(* all tables of fields, conversion times, faults and numbers of calls     *)
(* that the modules' assumptions admit.                                    *)
(***************************************************************************)
EXTENDS Bma2x2, Bma2x2Data, Bmm050, Bmm050Data, Ms5637, Ens210, Microphone,
        FiniteSetTheorems, TLAPS

-----------------------------------------------------------------------------
(***************************************************************************)
(* Fields and registers                                                    *)
(***************************************************************************)
Placed(f) == f.pos \in Bit /\ f.len \in 1..8

\* Replacing a slice leaves a slice that does not overlap with it, and the
\* slice itself reads as the value cut to its length.
LEMMA OtherSlice ==
    ASSUME NEW f, NEW g, Placed(f), Placed(g), Mask(f) \cap Mask(g) = {}, NEW byte, NEW bits
    PROVE  GetBitslice(SetBitslice(byte, f, bits), g) = GetBitslice(byte, g)
<1>1. ASSUME NEW k \in 0..(g.len - 1) PROVE g.pos + k \in Mask(g) /\ g.pos + k \notin Mask(f)
    BY <1>1 DEF Mask, Placed, Bit
<1> QED
    BY <1>1 DEF GetBitslice, SetBitslice

LEMMA SameSlice ==
    ASSUME NEW f, Placed(f), NEW byte, NEW bits
    PROVE  GetBitslice(SetBitslice(byte, f, bits), f) = Truncated(f, bits)
<1>1. f.pos \in Int /\ f.len \in Int
    BY DEF Placed, Bit
<1>2. ASSUME NEW k \in 0..(f.len - 1)
      PROVE  f.pos + k \in f.pos..(f.pos + f.len - 1) /\ (f.pos + k) - f.pos = k
    BY <1>1
<1> QED
    BY <1>2 DEF GetBitslice, SetBitslice, Truncated, Mask

LEMMA ErasedSlice ==
    ASSUME NEW f, NEW g, Placed(f), Placed(g), Mask(f) \cap Mask(g) = {}, NEW byte
    PROVE  GetBitslice(byte \ Mask(f), g) = GetBitslice(byte, g)
<1>1. ASSUME NEW k \in 0..(g.len - 1) PROVE g.pos + k \in Mask(g) /\ g.pos + k \notin Mask(f)
    BY <1>1 DEF Mask, Placed, Bit
<1> QED
    BY <1>1 DEF GetBitslice

LEMMA WholeSlice ==
    ASSUME NEW f, Placed(f), Mask(f) = Bit, NEW bits \in SUBSET Bit
    PROVE  GetBitslice(bits, f) = bits
<1>1. f.pos = 0
  <2>1. 0 \in Mask(f)
      BY DEF Bit
  <2>2. Mask(f) = f.pos..(f.pos + f.len - 1) /\ f.pos \in 0..7 /\ f.len \in 1..8
      BY DEF Mask, Placed, Bit
  <2> QED
      BY <2>1, <2>2
<1>2. f.len = 8
  <2>1. 7 \in Mask(f)
      BY DEF Bit
  <2> QED
      BY <1>1, <2>1 DEF Mask, Placed
<1>3. \A k \in 0..7 : 0 + k = k
    OBVIOUS
<1>4. GetBitslice(bits, f) = {k \in 0..7 : k \in bits}
    BY <1>1, <1>2, <1>3 DEF GetBitslice
<1> QED
    BY <1>4 DEF Bit

LEMMA FieldsPlaced ==
    /\ \A n \in Names : Placed(Fields[n]) /\ Fields[n].reg \in Registers
    /\ \A t \in Triggers : Placed(t) /\ t.reg \in Registers
    /\ Placed(ModeCtrl) /\ Placed(LowPower)
BY AccelAssumption DEF Placed, FieldRecord, ModeCtrl, LowPower, Bit

\* The transfers of a call that fail: their sum is 0 if and only if there are
\* none.
LEMMA MissesCounted ==
    ASSUME NEW n \in Nat, NEW misses \in SUBSET (1..n)
    PROVE  /\ Cardinality(misses) \in Nat
           /\ Cardinality(misses) = 0 <=> misses = {}
           /\ Summed(n, misses) = -Cardinality(misses)
<1>1. IsFiniteSet(misses)
  <2>1. IsFiniteSet(1..n)
      BY FS_Interval
  <2> QED
      BY <2>1, FS_Subset
<1>2. Cardinality(misses) \in Nat /\ (Cardinality(misses) = 0 <=> misses = {})
    BY <1>1, FS_CardinalityType, FS_EmptySet
<1> QED
    BY <1>2 DEF Summed, ERROR

-----------------------------------------------------------------------------
(***************************************************************************)
(* Bma2x2                                                                  *)
(***************************************************************************)

\* Every field of the FIFO register that is known is in the driver's copy
\* too: a change of the power mode writes the copy into the register.
CopyKeeps ==
    \A k \in known : Fields[k[1]].reg = FifoReg
                     => GetBitslice(fifo_config, Fields[k[1]]) = k[2]

AccelInv ==
    /\ DOMAIN registers = Registers
    /\ known \subseteq Names \X SUBSET Nat
    /\ ~attached => known = {} /\ knownMode = -1
    /\ AccelKept
    /\ CopyKeeps
    /\ ModeKept

\* What the power mode is read from.
ModeRead == <<GetBitslice(registers[ModeReg], ModeCtrl), GetBitslice(registers[LowReg], LowPower)>>

LEMMA ModeFollows ==
    ASSUME ModeRead' = ModeRead
    PROVE  get_power_mode' = get_power_mode
BY DEF ModeRead, get_power_mode

\* A call that has failed, or makes the chip change registers.
LEMMA ForgetKeeps ==
    ASSUME AccelInv, NEW regs, Forget(regs), attached',
           DOMAIN registers' = Registers,
           FifoReg \in regs \/ UNCHANGED fifo_config,
           \A n \in Names : Fields[n].reg \notin regs
               => GetBitslice(registers'[Fields[n].reg], Fields[n]) = Get(n),
           {ModeReg, LowReg} \cap regs = {} => ModeRead' = ModeRead
    PROVE  AccelInv'
<1>1. known' = {k \in known : Fields[k[1]].reg \notin regs}
    BY DEF Forget
<1>2. known' \subseteq Names \X SUBSET Nat
    BY <1>1 DEF AccelInv
<1>3. AccelKept'
    BY <1>1 DEF AccelInv, AccelKept, Get
<1>4. CopyKeeps'
    BY <1>1 DEF AccelInv, CopyKeeps
<1>5. ModeKept'
  <2>1. CASE {ModeReg, LowReg} \cap regs = {}
      BY <2>1, ModeFollows DEF AccelInv, ModeKept, Forget
  <2>2. CASE {ModeReg, LowReg} \cap regs # {}
      BY <2>2 DEF ModeKept, Forget
  <2> QED
      BY <2>1, <2>2
<1> QED
    BY <1>2, <1>3, <1>4, <1>5 DEF AccelInv

\* A setting that has succeeded.
LEMMA KnowKeeps ==
    ASSUME AccelInv, NEW n \in Names, NEW bits \in SUBSET Nat, Know(n, bits), attached',
           DOMAIN registers' = Registers,
           GetBitslice(registers'[Fields[n].reg], Fields[n]) = bits,
           \A m \in Names \ {n} :
               GetBitslice(registers'[Fields[m].reg], Fields[m]) = Get(m),
           ModeRead' = ModeRead,
           \/ fifo_config' = registers'[FifoReg]
           \/ UNCHANGED fifo_config /\ Fields[n].reg # FifoReg
    PROVE  AccelInv'
<1>1. known' = {k \in known : k[1] # n} \cup {<<n, bits>>}
    BY DEF Know
<1>2. known' \subseteq Names \X SUBSET Nat
  <2>1. <<n, bits>> \in Names \X SUBSET Nat
      OBVIOUS
  <2>2. known \subseteq Names \X SUBSET Nat
      BY DEF AccelInv
  <2> QED
      BY <1>1, <2>1, <2>2
<1>3. AccelKept'
  <2> SUFFICES ASSUME NEW k \in known'
               PROVE  GetBitslice(registers'[Fields[k[1]].reg], Fields[k[1]]) = k[2]
      BY DEF AccelKept, Get
  <2>1. CASE k = <<n, bits>>
      BY <2>1
  <2>2. CASE k \in known /\ k[1] # n
    <3>1. k[1] \in Names \ {n} /\ Get(k[1]) = k[2]
        BY <2>2 DEF AccelInv, AccelKept
    <3> QED
        BY <3>1
  <2> QED
      BY <1>1, <2>1, <2>2
<1>4. CopyKeeps'
  <2>1. CASE fifo_config' = registers'[FifoReg]
      BY <1>3, <2>1 DEF CopyKeeps, AccelKept, Get
  <2>2. CASE UNCHANGED fifo_config /\ Fields[n].reg # FifoReg
      BY <1>1, <2>2 DEF AccelInv, CopyKeeps
  <2> QED
      BY <2>1, <2>2
<1>5. ModeKept'
    BY ModeFollows DEF AccelInv, ModeKept, Know
<1> QED
    BY <1>2, <1>3, <1>4, <1>5 DEF AccelInv

\* The end of a setter, by whether a transfer has failed.
LEMMA SetEnding ==
    ASSUME NEW n, NEW regs, NEW bits, NEW size \in Nat, NEW misses \in SUBSET (1..size),
           SetEnds(n, regs, bits, Summed(size, misses), misses)
    PROVE  IF misses = {} THEN Know(n, bits) ELSE Forget(regs)
BY MissesCounted DEF SetEnds, SUCCESS

LEMMA RegistersKnown ==
    /\ {FifoReg, ModeReg, LowReg, \h16, \h17} \subseteq Registers
    /\ FifoReg # ModeReg /\ FifoReg # LowReg /\ ModeReg # LowReg
    /\ {FifoReg, ModeReg, LowReg} \cap {\h16, \h17} = {}
    /\ \h16 # \h17
BY AccelAssumption DEF FifoReg, ModeReg, LowReg

\* One register is changed in the slice of one field, and no transfer has
\* failed.
LEMMA OneSlice ==
    ASSUME AccelInv, NEW n \in Names, NEW bits,
           registers' = [registers EXCEPT ![Fields[n].reg] =
                            SetBitslice(registers[Fields[n].reg], Fields[n], bits)]
    PROVE  /\ DOMAIN registers' = Registers
           /\ GetBitslice(registers'[Fields[n].reg], Fields[n]) = Truncated(Fields[n], bits)
           /\ \A m \in Names \ {n} :
                 GetBitslice(registers'[Fields[m].reg], Fields[m]) = Get(m)
           /\ ModeRead' = ModeRead
<1> DEFINE f == Fields[n]
<1>1. f.reg \in Registers /\ Placed(f)
    BY FieldsPlaced
<1>2. /\ registers'[f.reg] = SetBitslice(registers[f.reg], f, bits)
      /\ \A r \in Registers \ {f.reg} : registers'[r] = registers[r]
      /\ DOMAIN registers' = Registers
    BY <1>1 DEF AccelInv
<1>3. \A m \in Names \ {n} : GetBitslice(registers'[Fields[m].reg], Fields[m]) = Get(m)
  <2> TAKE m \in Names \ {n}
  <2>1. Placed(Fields[m]) /\ Fields[m].reg \in Registers
      BY FieldsPlaced
  <2>2. Fields[m].reg = f.reg => Mask(f) \cap Mask(Fields[m]) = {}
      BY AccelAssumption
  <2> QED
      BY <1>1, <1>2, <2>1, <2>2, OtherSlice DEF Get
<1>4. ModeRead' = ModeRead
  <2>1. GetBitslice(registers'[ModeReg], ModeCtrl) = GetBitslice(registers[ModeReg], ModeCtrl)
    <3>1. f.reg = ModeReg => Mask(f) \cap Mask(ModeCtrl) = {}
        BY AccelAssumption
    <3> QED
        BY <1>1, <1>2, <3>1, OtherSlice, FieldsPlaced, RegistersKnown
  <2>2. GetBitslice(registers'[LowReg], LowPower) = GetBitslice(registers[LowReg], LowPower)
    <3>1. f.reg = LowReg => Mask(f) \cap Mask(LowPower) = {}
        BY AccelAssumption
    <3> QED
        BY <1>1, <1>2, <3>1, OtherSlice, FieldsPlaced, RegistersKnown
  <2> QED
      BY <2>1, <2>2 DEF ModeRead
<1> QED
    BY <1>1, <1>2, <1>3, <1>4, SameSlice

\* One register has any contents.
LEMMA OneRegister ==
    ASSUME AccelInv, NEW r \in Registers, NEW byte,
           registers' = [registers EXCEPT ![r] = byte]
    PROVE  /\ DOMAIN registers' = Registers
           /\ \A n \in Names : Fields[n].reg \notin {r}
                 => GetBitslice(registers'[Fields[n].reg], Fields[n]) = Get(n)
           /\ {ModeReg, LowReg} \cap {r} = {} => ModeRead' = ModeRead
<1>1. \A q \in Registers \ {r} : registers'[q] = registers[q]
    BY DEF AccelInv
<1> QED
    BY <1>1, FieldsPlaced, RegistersKnown DEF Get, ModeRead, AccelInv

LEMMA UpdateKeeps ==
    ASSUME AccelInv, attached, NEW n \in Names, NEW bits, Update(n, bits),
           Fields[n].reg # FifoReg
    PROVE  AccelInv'
<1> DEFINE f == Fields[n]
<1>1. PICK misses \in Misses(2) :
          \E byte \in Written(2, misses, registers[f.reg],
                 SetBitslice(Read(1, misses, registers[f.reg]), f, bits)) :
            /\ registers' = [registers EXCEPT ![f.reg] = byte]
            /\ SetEnds(n, {f.reg}, Truncated(f, bits), Summed(2, misses), misses)
            /\ UNCHANGED <<attached, fifo_config, ctrl_mode_reg, low_mode_reg>>
    BY DEF Update
<1>2. misses \in SUBSET (1..2)
    BY DEF Misses
<1>3. IF misses = {} THEN Know(n, Truncated(f, bits)) ELSE Forget({f.reg})
    BY <1>1, <1>2, SetEnding
<1>4. CASE misses = {}
  <2>1. registers' = [registers EXCEPT ![f.reg] = SetBitslice(registers[f.reg], f, bits)]
      BY <1>1, <1>4 DEF Written, Read
  <2>2. Truncated(f, bits) \in SUBSET Nat
      BY FieldsPlaced DEF Truncated, Placed
  <2> QED
      BY <1>1, <1>3, <1>4, <2>1, <2>2, OneSlice, KnowKeeps
<1>5. CASE misses # {}
    BY <1>1, <1>3, <1>5, OneRegister, ForgetKeeps, FieldsPlaced
<1> QED
    BY <1>4, <1>5

LEMMA WriteWholeKeeps ==
    ASSUME AccelInv, attached, NEW n \in Names, NEW bits \in SUBSET Bit, WriteWhole(n, bits),
           Fields[n].via = "write"
    PROVE  AccelInv'
<1> DEFINE f == Fields[n]
<1>1. PICK misses \in Misses(1) :
          \E byte \in Written(1, misses, registers[f.reg], bits) :
            /\ registers' = [registers EXCEPT ![f.reg] = byte]
            /\ SetEnds(n, {f.reg}, bits, Summed(1, misses), misses)
            /\ UNCHANGED <<attached, fifo_config, ctrl_mode_reg, low_mode_reg>>
    BY DEF WriteWhole
<1>2. misses \in SUBSET (1..1)
    BY DEF Misses
<1>3. IF misses = {} THEN Know(n, bits) ELSE Forget({f.reg})
    BY <1>1, <1>2, SetEnding
<1>4. Placed(f) /\ Mask(f) = Bit /\ f.reg # FifoReg
    BY FieldsPlaced, AccelAssumption
<1>5. CASE misses = {}
  <2>1. registers' = [registers EXCEPT ![f.reg] = bits]
      BY <1>1, <1>5 DEF Written
  <2>2. \A g : Placed(g) => g.pos \in Mask(g) /\ g.pos \in Bit
      BY DEF Mask, Placed, Bit
  <2>3. \A m \in Names \ {n} : Fields[m].reg # f.reg
    <3> TAKE m \in Names \ {n}
    <3>1. Placed(Fields[m])
        BY FieldsPlaced
    <3> QED
        BY <1>4, <2>2, <3>1, AccelAssumption
  <2>4. f.reg \notin {ModeReg, LowReg}
      BY <1>4, <2>2, FieldsPlaced, AccelAssumption
  <2>5. registers'[f.reg] = bits
      BY <2>1, FieldsPlaced DEF AccelInv
  <2>6. GetBitslice(registers'[f.reg], f) = bits
      BY <1>4, <2>5, WholeSlice
  <2>7. /\ DOMAIN registers' = Registers
        /\ \A m \in Names : Fields[m].reg \notin {f.reg}
              => GetBitslice(registers'[Fields[m].reg], Fields[m]) = Get(m)
        /\ {ModeReg, LowReg} \cap {f.reg} = {} => ModeRead' = ModeRead
      BY <2>1, OneRegister, FieldsPlaced
  <2>8. bits \in SUBSET Nat
      BY DEF Bit
  <2> QED
      BY <1>1, <1>3, <1>4, <1>5, <2>3, <2>4, <2>6, <2>7, <2>8, KnowKeeps
<1>6. CASE misses # {}
    BY <1>1, <1>3, <1>6, OneRegister, ForgetKeeps, FieldsPlaced
<1> QED
    BY <1>5, <1>6

LEMMA FifoKeeps ==
    ASSUME AccelInv, attached, NEW n \in Names, NEW bits, UpdateFifo(n, bits),
           Fields[n].via = "fifo"
    PROVE  AccelInv'
<1> DEFINE f == Fields[n]
<1>1. f.reg = FifoReg
    BY AccelAssumption
<1>2. PICK misses \in Misses(3) :
          /\ 3 \in misses => misses \cap {1, 2} = {}
          /\ \E byte \in Written(2, misses, registers[f.reg],
                 SetBitslice(Read(1, misses, registers[f.reg]), f, bits)) :
               /\ registers' = [registers EXCEPT ![f.reg] = byte]
               /\ fifo_config' = Copy(misses, byte)
               /\ SetEnds(n, {f.reg}, Truncated(f, bits), Summed(3, misses), misses)
               /\ UNCHANGED <<attached, ctrl_mode_reg, low_mode_reg>>
    BY DEF UpdateFifo
<1>3. misses \in SUBSET (1..3)
    BY DEF Misses
<1>4. IF misses = {} THEN Know(n, Truncated(f, bits)) ELSE Forget({f.reg})
    BY <1>2, <1>3, SetEnding
<1>5. CASE misses = {}
  <2>1. registers' = [registers EXCEPT ![f.reg] = SetBitslice(registers[f.reg], f, bits)]
      BY <1>2, <1>5 DEF Written, Read
  <2>2. fifo_config' = registers'[FifoReg]
      BY <1>1, <1>2, <1>5, RegistersKnown DEF AccelInv, Copy, Read
  <2>3. Truncated(f, bits) \in SUBSET Nat
      BY FieldsPlaced DEF Truncated, Placed
  <2> QED
      BY <1>2, <1>4, <1>5, <2>1, <2>2, <2>3, OneSlice, KnowKeeps
<1>6. CASE misses # {}
  <2>1. /\ DOMAIN registers' = Registers
        /\ \A m \in Names : Fields[m].reg \notin {f.reg}
              => GetBitslice(registers'[Fields[m].reg], Fields[m]) = Get(m)
        /\ {ModeReg, LowReg} \cap {f.reg} = {} => ModeRead' = ModeRead
      BY <1>2, OneRegister, FieldsPlaced
  <2>2. FifoReg \in {f.reg}
      BY <1>1
  <2> QED
      BY <1>2, <1>4, <1>6, <2>1, <2>2, ForgetKeeps
<1> QED
    BY <1>5, <1>6

\* The two registers of the interrupts have any contents.
LEMMA TwoRegisters ==
    ASSUME AccelInv, NEW byte1, NEW byte2,
           registers' = [registers EXCEPT ![\h16] = byte1, ![\h17] = byte2]
    PROVE  /\ DOMAIN registers' = Registers
           /\ registers'[\h16] = byte1 /\ registers'[\h17] = byte2
           /\ \A r \in Registers \ {\h16, \h17} : registers'[r] = registers[r]
           /\ ModeRead' = ModeRead
<1>1. /\ DOMAIN registers' = Registers
      /\ registers'[\h16] = byte1 /\ registers'[\h17] = byte2
      /\ \A r \in Registers \ {\h16, \h17} : registers'[r] = registers[r]
    BY RegistersKnown DEF AccelInv
<1> QED
    BY <1>1, RegistersKnown DEF ModeRead

LEMMA PairKeeps ==
    ASSUME AccelInv, attached, NEW n \in Names, NEW bits, UpdatePair(n, bits),
           Fields[n].via = "pair"
    PROVE  AccelInv'
<1> DEFINE f == Fields[n]
           New(r, k, misses) ==
              LET byte == Read(k, misses, registers[r])
              IN  IF f.reg = r THEN SetBitslice(byte, f, bits) ELSE byte
<1>1. f.reg \in {\h16, \h17}
    BY AccelAssumption
<1>2. PICK misses \in Misses(4) :
          \E byte1 \in Written(3, misses, registers[\h16], New(\h16, 1, misses)),
             byte2 \in Written(4, misses, registers[\h17], New(\h17, 2, misses)) :
            /\ registers' = [registers EXCEPT ![\h16] = byte1, ![\h17] = byte2]
            /\ SetEnds(n, {\h16, \h17}, Truncated(f, bits), Summed(4, misses), misses)
            /\ UNCHANGED <<attached, fifo_config, ctrl_mode_reg, low_mode_reg>>
    BY DEF UpdatePair
<1>3. misses \in SUBSET (1..4)
    BY DEF Misses
<1>4. IF misses = {} THEN Know(n, Truncated(f, bits)) ELSE Forget({\h16, \h17})
    BY <1>2, <1>3, SetEnding
<1>5. CASE misses = {}
  <2>1. registers' = [registers EXCEPT ![\h16] = New(\h16, 1, {}), ![\h17] = New(\h17, 2, {})]
      BY <1>2, <1>5 DEF Written
  <2>2. registers' = [registers EXCEPT ![f.reg] = SetBitslice(registers[f.reg], f, bits)]
      BY <1>1, <2>1, RegistersKnown DEF Read, AccelInv
  <2>3. Truncated(f, bits) \in SUBSET Nat
      BY FieldsPlaced DEF Truncated, Placed
  <2>4. f.reg # FifoReg
      BY <1>1, RegistersKnown
  <2> QED
      BY <1>2, <1>4, <1>5, <2>2, <2>3, <2>4, OneSlice, KnowKeeps
<1>6. CASE misses # {}
  <2>1. /\ DOMAIN registers' = Registers
        /\ \A r \in Registers \ {\h16, \h17} : registers'[r] = registers[r]
        /\ ModeRead' = ModeRead
    <3>1. PICK byte1 \in Written(3, misses, registers[\h16], New(\h16, 1, misses)),
               byte2 \in Written(4, misses, registers[\h17], New(\h17, 2, misses)) :
             registers' = [registers EXCEPT ![\h16] = byte1, ![\h17] = byte2]
        BY <1>2
    <3> QED
        BY <3>1, TwoRegisters
  <2>2. \A m \in Names : Fields[m].reg \notin {\h16, \h17}
              => GetBitslice(registers'[Fields[m].reg], Fields[m]) = Get(m)
      BY <2>1, FieldsPlaced DEF Get
  <2> QED
      BY <1>2, <1>4, <1>6, <2>1, <2>2, ForgetKeeps
<1> QED
    BY <1>5, <1>6

LEMMA SetFieldKeeps ==
    ASSUME AccelInv, attached, SetField
    PROVE  AccelInv'
<1>1. PICK n \in Names : \E argument \in Arguments \cap Fields[n].accepts :
          \/ Fields[n].via = "update" /\ Update(n, Bits(argument))
          \/ Fields[n].via = "write" /\ WriteWhole(n, Bits(argument))
          \/ Fields[n].via = "fifo" /\ UpdateFifo(n, Bits(argument))
          \/ Fields[n].via = "pair" /\ UpdatePair(n, Bits(argument))
    BY DEF SetField
<1>2. PICK argument \in Arguments \cap Fields[n].accepts :
          \/ Fields[n].via = "update" /\ Update(n, Bits(argument))
          \/ Fields[n].via = "write" /\ WriteWhole(n, Bits(argument))
          \/ Fields[n].via = "fifo" /\ UpdateFifo(n, Bits(argument))
          \/ Fields[n].via = "pair" /\ UpdatePair(n, Bits(argument))
    BY <1>1
<1>4. Bits(argument) \in SUBSET Bit
    BY DEF Bits
<1>3. Fields[n].via = "update" => Fields[n].reg # FifoReg
    BY AccelAssumption
<1> QED
    BY <1>2, <1>3, <1>4, UpdateKeeps, WriteWholeKeeps, FifoKeeps, PairKeeps

LEMMA RejectInterruptKeeps ==
    ASSUME AccelInv, attached, RejectInterrupt
    PROVE  AccelInv'
<1>1. PICK misses \in Misses(4) :
       \E byte1 \in Written(3, misses, registers[\h16],
                            Read(1, misses, registers[\h16])),
          byte2 \in Written(4, misses, registers[\h17],
                            Read(2, misses, registers[\h17])) :
         /\ registers' = [registers EXCEPT ![\h16] = byte1, ![\h17] = byte2]
         /\ Forget(IF misses = {} THEN {} ELSE {\h16, \h17})
         /\ UNCHANGED <<attached, fifo_config, ctrl_mode_reg, low_mode_reg>>
    BY DEF RejectInterrupt
<1>2. PICK byte1 \in Written(3, misses, registers[\h16],
                             Read(1, misses, registers[\h16])),
           byte2 \in Written(4, misses, registers[\h17],
                             Read(2, misses, registers[\h17])) :
         registers' = [registers EXCEPT ![\h16] = byte1, ![\h17] = byte2]
    BY <1>1
<1>3. /\ DOMAIN registers' = Registers
      /\ registers'[\h16] = byte1 /\ registers'[\h17] = byte2
      /\ \A r \in Registers \ {\h16, \h17} : registers'[r] = registers[r]
      /\ ModeRead' = ModeRead
    BY <1>2, TwoRegisters
<1>4. CASE misses = {}
  <2>1. byte1 = registers[\h16] /\ byte2 = registers[\h17]
      BY <1>2, <1>4 DEF Written, Read
  <2>2. \A r \in Registers : registers'[r] = registers[r]
      BY <1>3, <2>1
  <2>3. \A m \in Names : GetBitslice(registers'[Fields[m].reg], Fields[m]) = Get(m)
      BY <2>2, FieldsPlaced DEF Get
  <2>4. Forget({})
      BY <1>1, <1>4
  <2> QED
      BY <1>1, <1>3, <2>3, <2>4, ForgetKeeps
<1>5. CASE misses # {}
  <2>1. \A m \in Names : Fields[m].reg \notin {\h16, \h17}
              => GetBitslice(registers'[Fields[m].reg], Fields[m]) = Get(m)
      BY <1>3, FieldsPlaced DEF Get
  <2>2. Forget({\h16, \h17})
      BY <1>1, <1>5
  <2> QED
      BY <1>1, <1>3, <2>1, <2>2, ForgetKeeps
<1> QED
    BY <1>4, <1>5

\* The power mode: what its two registers hold after a call without a failed
\* transfer.
LEMMA ModeReads ==
    ASSUME NEW mode \in PowerModes
    PROVE  /\ ModeCtrlOf(mode) \in {{}, {0}, {1}, {2}}
           /\ Truncated(ModeCtrl, ModeCtrlOf(mode)) = ModeCtrlOf(mode)
           /\ mode # DEEP_SUSPEND =>
                /\ LowPowerOf(mode) \in {{}, {0}}
                /\ Truncated(LowPower, LowPowerOf(mode)) = LowPowerOf(mode)
<1>1. mode \in {0, 1, 2, 3, 4, 5}
    BY DEF PowerModes, NORMAL, STANDBY
<1>2. /\ ModeCtrlOf(mode) \in {{}, {0}, {1}, {2}}
      /\ mode # DEEP_SUSPEND => LowPowerOf(mode) \in {{}, {0}}
    BY <1>1 DEF ModeCtrlOf, LowPowerOf, NORMAL, LOWPOWER1, SUSPEND, DEEP_SUSPEND, LOWPOWER2, STANDBY
<1>3. \A bits \in SUBSET (0..2) : Truncated(ModeCtrl, bits) = bits
  <2>1. 0..(ModeCtrl.len - 1) = 0..2
      BY DEF ModeCtrl
  <2> QED
      BY <2>1 DEF Truncated
<1>4. \A bits \in SUBSET (0..0) : Truncated(LowPower, bits) = bits
  <2>1. 0..(LowPower.len - 1) = 0..0
      BY DEF LowPower
  <2> QED
      BY <2>1 DEF Truncated
<1> QED
    BY <1>2, <1>3, <1>4

LEMMA ModeRoundTrip ==
    ASSUME NEW mode \in PowerModes,
           GetBitslice(registers'[ModeReg], ModeCtrl) = ModeCtrlOf(mode),
           mode # DEEP_SUSPEND
             => GetBitslice(registers'[LowReg], LowPower) = LowPowerOf(mode)
    PROVE  get_power_mode' = mode
<1>1. mode \in {0, 1, 2, 3, 4, 5}
    BY DEF PowerModes, NORMAL, STANDBY
<1>2. {} # {0} /\ {} # {1} /\ {} # {2} /\ {} # {1, 2} /\ {0} # {1} /\ {0} # {2} /\ {0} # {1, 2}
      /\ {1} # {2} /\ {1} # {1, 2} /\ {2} # {1, 2}
    OBVIOUS
<1>a. CASE mode = 0
    BY <1>a, <1>2 DEF get_power_mode, ModeCtrlOf, LowPowerOf, NORMAL, LOWPOWER1, SUSPEND, DEEP_SUSPEND, LOWPOWER2, STANDBY
<1>b. CASE mode = 1
    BY <1>b, <1>2 DEF get_power_mode, ModeCtrlOf, LowPowerOf, NORMAL, LOWPOWER1, SUSPEND, DEEP_SUSPEND, LOWPOWER2, STANDBY
<1>c. CASE mode = 2
    BY <1>c, <1>2 DEF get_power_mode, ModeCtrlOf, LowPowerOf, NORMAL, LOWPOWER1, SUSPEND, DEEP_SUSPEND, LOWPOWER2, STANDBY
<1>d. CASE mode = 3
    BY <1>d, <1>2 DEF get_power_mode, ModeCtrlOf, LowPowerOf, NORMAL, LOWPOWER1, SUSPEND, DEEP_SUSPEND, LOWPOWER2, STANDBY
<1>e. CASE mode = 4
    BY <1>e, <1>2 DEF get_power_mode, ModeCtrlOf, LowPowerOf, NORMAL, LOWPOWER1, SUSPEND, DEEP_SUSPEND, LOWPOWER2, STANDBY
<1>f. CASE mode = 5
    BY <1>f, <1>2 DEF get_power_mode, ModeCtrlOf, LowPowerOf, NORMAL, LOWPOWER1, SUSPEND, DEEP_SUSPEND, LOWPOWER2, STANDBY
<1> QED
    BY <1>1, <1>a, <1>b, <1>c, <1>d, <1>e, <1>f

LEMMA PowerModeKeeps ==
    ASSUME AccelInv, attached, NEW mode \in 0..(STANDBY + 1), SetPowerMode(mode)
    PROVE  AccelInv'
<1>1. PICK misses \in Misses(7) :
       \E low \in Written(3, misses, registers[LowReg],
                     SetBitslice(Read(2, misses, registers[LowReg]), LowPower,
                                 LowPowerOf(mode))),
          suspended \in Written(4, misses, registers[ModeReg],
                           SetMode(Read(1, misses, registers[ModeReg]), {2})),
          fifo \in Written(5, misses, registers[FifoReg], fifo_config) :
       \E ctrl \in Written(7, misses, suspended,
                      SetMode(Read(6, misses, suspended), ModeCtrlOf(mode))) :
         LET status == Summed(7, misses)
                       + (IF mode \in PowerModes THEN SUCCESS ELSE E_OUT_OF_RANGE)
         IN  /\ registers' = [registers EXCEPT ![LowReg] = low,
                                    ![ModeReg] = ctrl, ![FifoReg] = fifo]
             /\ Call(status, misses)
             /\ IF status = SUCCESS
                THEN knownMode' = mode /\ UNCHANGED known
                ELSE Forget({ModeReg, LowReg, FifoReg})
             /\ UNCHANGED <<attached, fifo_config>>
    BY DEF SetPowerMode
<1> DEFINE status == Summed(7, misses)
                     + (IF mode \in PowerModes THEN SUCCESS ELSE E_OUT_OF_RANGE)
<1>2. PICK low \in Written(3, misses, registers[LowReg],
                     SetBitslice(Read(2, misses, registers[LowReg]), LowPower,
                                 LowPowerOf(mode))),
          suspended \in Written(4, misses, registers[ModeReg],
                           SetMode(Read(1, misses, registers[ModeReg]), {2})),
          fifo \in Written(5, misses, registers[FifoReg], fifo_config) :
       \E ctrl \in Written(7, misses, suspended,
                      SetMode(Read(6, misses, suspended), ModeCtrlOf(mode))) :
          registers' = [registers EXCEPT ![LowReg] = low,
                                 ![ModeReg] = ctrl, ![FifoReg] = fifo]
    BY <1>1
<1>3. PICK ctrl \in Written(7, misses, suspended,
                      SetMode(Read(6, misses, suspended), ModeCtrlOf(mode))) :
          registers' = [registers EXCEPT ![LowReg] = low,
                                 ![ModeReg] = ctrl, ![FifoReg] = fifo]
    BY <1>2
<1>4. /\ DOMAIN registers' = Registers
      /\ registers'[LowReg] = low /\ registers'[ModeReg] = ctrl /\ registers'[FifoReg] = fifo
      /\ \A r \in Registers \ {ModeReg, LowReg, FifoReg} : registers'[r] = registers[r]
    BY <1>3, RegistersKnown DEF AccelInv
<1>5. misses \in SUBSET (1..7)
    BY DEF Misses
<1>6. status = SUCCESS <=> misses = {} /\ mode \in PowerModes
    BY <1>5, MissesCounted DEF SUCCESS, E_OUT_OF_RANGE
<1>7. CASE misses = {} /\ mode \in PowerModes
  <2>1. UNCHANGED <<attached, fifo_config, known>> /\ knownMode' = mode
      BY <1>1, <1>6, <1>7
  <2>2. /\ low = SetBitslice(registers[LowReg], LowPower, LowPowerOf(mode))
        /\ suspended = SetBitslice(registers[ModeReg], ModeCtrl, {2})
        /\ fifo = fifo_config
        /\ ctrl = SetBitslice(suspended, ModeCtrl, ModeCtrlOf(mode))
      BY <1>2, <1>3, <1>7 DEF Written, Read, SetMode
  <2>3. ASSUME NEW n \in Names, Fields[n].reg # FifoReg
        PROVE  GetBitslice(registers'[Fields[n].reg], Fields[n]) = Get(n)
    <3>1. Placed(Fields[n]) /\ Fields[n].reg \in Registers
        BY FieldsPlaced
    <3>2. CASE Fields[n].reg = ModeReg
      <4>1. Mask(ModeCtrl) \cap Mask(Fields[n]) = {}
          BY <3>2, AccelAssumption
      <4> QED
          BY <1>4, <2>2, <3>1, <3>2, <4>1, OtherSlice, FieldsPlaced DEF Get
    <3>3. CASE Fields[n].reg = LowReg
      <4>1. Mask(LowPower) \cap Mask(Fields[n]) = {}
          BY <3>3, AccelAssumption
      <4> QED
          BY <1>4, <2>2, <3>1, <3>3, <4>1, OtherSlice, FieldsPlaced DEF Get
    <3>4. CASE Fields[n].reg \notin {ModeReg, LowReg}
        BY <1>4, <2>3, <3>1, <3>4 DEF Get
    <3> QED
        BY <3>2, <3>3, <3>4
  <2>4. AccelKept'
    <3> SUFFICES ASSUME NEW k \in known
                 PROVE  GetBitslice(registers'[Fields[k[1]].reg], Fields[k[1]]) = k[2]
        BY <2>1 DEF AccelKept, Get
    <3>1. k[1] \in Names /\ Get(k[1]) = k[2]
        BY DEF AccelInv, AccelKept
    <3>2. CASE Fields[k[1]].reg = FifoReg
        BY <1>4, <2>2, <3>2 DEF AccelInv, CopyKeeps
    <3> QED
        BY <2>3, <3>1, <3>2
  <2>5. CopyKeeps'
      BY <2>1 DEF AccelInv, CopyKeeps
  <2>6. get_power_mode' = mode
    <3>1. GetBitslice(registers'[ModeReg], ModeCtrl) = Truncated(ModeCtrl, ModeCtrlOf(mode))
        BY <1>4, <2>2, SameSlice, FieldsPlaced
    <3>2. GetBitslice(registers'[LowReg], LowPower) = Truncated(LowPower, LowPowerOf(mode))
        BY <1>4, <2>2, SameSlice, FieldsPlaced
    <3> QED
        BY <1>7, <3>1, <3>2, ModeReads, ModeRoundTrip
  <2> QED
      BY <1>4, <2>1, <2>4, <2>5, <2>6 DEF AccelInv, ModeKept
<1>8. CASE ~(misses = {} /\ mode \in PowerModes)
  <2>1. Forget({ModeReg, LowReg, FifoReg}) /\ UNCHANGED <<attached, fifo_config>>
      BY <1>1, <1>6, <1>8
  <2>2. \A m \in Names : Fields[m].reg \notin {ModeReg, LowReg, FifoReg}
              => GetBitslice(registers'[Fields[m].reg], Fields[m]) = Get(m)
      BY <1>4, FieldsPlaced DEF Get
  <2> QED
      BY <1>4, <2>1, <2>2, ForgetKeeps
<1> QED
    BY <1>7, <1>8

LEMMA TriggerKeeps ==
    ASSUME AccelInv, attached, Trigger
    PROVE  AccelInv'
<1>1. PICK t \in Triggers, argument \in Arguments, misses \in Misses(2), content \in Contents :
      \E byte \in Written(2, misses, registers[t.reg],
             SetBitslice(Read(1, misses, registers[t.reg]), t, Bits(argument))) :
        /\ argument \in t.accepts
        /\ registers' = [r \in Registers |->
              IF r \in Affects(t) THEN content
              ELSE IF r = t.reg THEN byte \ Mask(t) ELSE registers[r]]
        /\ Call(Summed(2, misses), misses)
        /\ Forget(Affects(t) \cup (IF misses = {} THEN {} ELSE {t.reg}))
        /\ UNCHANGED <<attached, fifo_config, ctrl_mode_reg, low_mode_reg>>
    BY Zenon DEF Trigger
<1>2. PICK byte \in Written(2, misses, registers[t.reg],
             SetBitslice(Read(1, misses, registers[t.reg]), t, Bits(argument))) :
        registers' = [r \in Registers |->
              IF r \in Affects(t) THEN content
              ELSE IF r = t.reg THEN byte \ Mask(t) ELSE registers[r]]
    BY <1>1
<1> DEFINE regs == Affects(t) \cup (IF misses = {} THEN {} ELSE {t.reg})
<1>3. /\ t.reg \notin {ModeReg, LowReg, FifoReg}
      /\ \A n \in Names : t.reg = Fields[n].reg => Mask(t) \cap Mask(Fields[n]) = {}
    BY AccelAssumption
<1>4. Placed(t)
    BY FieldsPlaced
<1>5. ASSUME NEW n \in Names, Fields[n].reg \notin regs
      PROVE  GetBitslice(registers'[Fields[n].reg], Fields[n]) = Get(n)
  <2>1. Placed(Fields[n]) /\ Fields[n].reg \in Registers
      BY FieldsPlaced
  <2>2. CASE Fields[n].reg = t.reg
    <3>1. misses = {}
        BY <1>5, <2>2
    <3>2. byte = SetBitslice(registers[t.reg], t, Bits(argument))
        BY <1>2, <3>1 DEF Written, Read
    <3>3. registers'[t.reg] = byte \ Mask(t)
        BY <1>2, <1>5, <2>1, <2>2
    <3> QED
        BY <1>3, <1>4, <2>1, <2>2, <3>2, <3>3, OtherSlice, ErasedSlice DEF Get
  <2>3. CASE Fields[n].reg # t.reg
      BY <1>2, <1>5, <2>1, <2>3 DEF Get
  <2> QED
      BY <2>2, <2>3
<1>6. {ModeReg, LowReg} \cap regs = {} => ModeRead' = ModeRead
    BY <1>2, <1>3, RegistersKnown DEF ModeRead
<1>7. DOMAIN registers' = Registers
    BY <1>2
<1> QED
    BY <1>1, <1>5, <1>6, <1>7, ForgetKeeps

LEMMA SoftRstKeeps ==
    ASSUME AccelInv, attached, SoftRst
    PROVE  AccelInv'
<1>1. PICK misses \in Misses(1), content \in Contents :
          /\ registers' \in Written(1, misses, registers, [r \in Registers |-> content])
          /\ Forget(Registers)
          /\ UNCHANGED <<attached, fifo_config, ctrl_mode_reg, low_mode_reg>>
    BY DEF SoftRst
<1>2. DOMAIN registers' = Registers
    BY <1>1 DEF AccelInv, Written
<1>3. /\ \A n \in Names : Fields[n].reg \in Registers
      /\ {ModeReg, LowReg} \cap Registers # {}
    BY FieldsPlaced, RegistersKnown
<1> QED
    BY <1>1, <1>2, <1>3, ForgetKeeps

LEMMA InitDriverKeeps ==
    ASSUME AccelInv, InitDriver
    PROVE  AccelInv'
<1>1. PICK misses \in Misses(2) :
       /\ ~attached
       /\ attached'
       /\ fifo_config' = CopyAtInit(misses)
       /\ known' = IF misses = {}
                   THEN {<<n, Get(n)>> : n \in {m \in Names :
                            Fields[m].reg = FifoReg}}
                   ELSE {}
       /\ UNCHANGED <<registers, knownMode>>
    BY DEF InitDriver
<1>2. knownMode' = -1 /\ DOMAIN registers' = Registers
    BY <1>1 DEF AccelInv
<1>3. CASE misses = {}
  <2>1. fifo_config' = registers[FifoReg]
      BY <1>1, <1>3 DEF CopyAtInit, Read
  <2>2. \A k \in known' : /\ k[1] \in Names /\ Fields[k[1]].reg = FifoReg
                          /\ k[2] = Get(k[1]) /\ k = <<k[1], k[2]>>
      BY <1>1, <1>3
  <2>3. \A n \in Names : Get(n) \in SUBSET Nat
      BY FieldsPlaced DEF Get, GetBitslice, Placed
  <2>4. known' \subseteq Names \X SUBSET Nat
      BY <2>2, <2>3
  <2>5. AccelKept' /\ CopyKeeps'
      BY <1>1, <2>1, <2>2 DEF AccelKept, CopyKeeps, Get
  <2> QED
      BY <1>1, <1>2, <2>4, <2>5 DEF AccelInv, ModeKept
<1>4. CASE misses # {}
    BY <1>1, <1>2, <1>4 DEF AccelInv, AccelKept, CopyKeeps, ModeKept
<1> QED
    BY <1>3, <1>4

\* The inductive invariant.
LEMMA AccelInvInductive == AccelSpec => []AccelInv
<1>1. AccelInit => AccelInv
    BY DEF AccelInit, AccelInv, AccelKept, CopyKeeps, ModeKept
<1>2. AccelInv /\ [AccelNext]_accelVars => AccelInv'
  <2> SUFFICES ASSUME AccelInv, [AccelNext]_accelVars
               PROVE  AccelInv'
      OBVIOUS
  <2>1. CASE UNCHANGED <<attached, registers, fifo_config, known, knownMode>>
      BY <2>1 DEF AccelInv, AccelKept, CopyKeeps, ModeKept, Get, get_power_mode
  <2>2. CASE InitDriver
      BY <2>2, InitDriverKeeps
  <2>3. CASE NotAttached \/ (attached /\ (Reject \/ GetField))
      BY <2>1, <2>3 DEF NotAttached, Reject, GetField, chip
  <2>4. CASE attached /\ SetField
      BY <2>4, SetFieldKeeps
  <2>5. CASE attached /\ RejectInterrupt
      BY <2>5, RejectInterruptKeeps
  <2>6. CASE attached /\ \E mode \in 0..(STANDBY + 1) : SetPowerMode(mode)
      BY <2>6, PowerModeKeeps
  <2>7. CASE attached /\ Trigger
      BY <2>7, TriggerKeeps
  <2>8. CASE attached /\ SoftRst
      BY <2>8, SoftRstKeeps
  <2>9. CASE UNCHANGED accelVars
      BY <2>1, <2>9 DEF accelVars, chip
  <2> QED
      BY <2>2, <2>3, <2>4, <2>5, <2>6, <2>7, <2>8, <2>9 DEF AccelNext
<1> QED
    BY <1>1, <1>2, PTL DEF AccelSpec

\* A setting of the accelerometer reads back as it was last set with success,
\* whatever calls about other settings, changes of the power mode (which write
\* the driver's copy of the FIFO register to the chip) and failed transfers
\* come after it.
THEOREM SettingsKept == AccelSpec => []AccelKept
<1>1. AccelInv => AccelKept
    BY DEF AccelInv
<1> QED
    BY <1>1, AccelInvInductive, PTL

\* The power mode reads back as it was last set with success, through
\* settings that share its two registers.
THEOREM PowerModeKept == AccelSpec => []ModeKept
<1>1. AccelInv => ModeKept
    BY DEF AccelInv
<1> QED
    BY <1>1, AccelInvInductive, PTL

-----------------------------------------------------------------------------
(***************************************************************************)
(* Numbers in two bytes                                                    *)
(***************************************************************************)

\* The number in two's complement that two bytes make.
Complement(w) == Signed(w \div 256) * 256 + (w % 256)

\* A number of 16 bits is made of its two bytes.
LEMMA Complements ==
    ASSUME NEW w \in Int, 0 <= w, w <= 65535
    PROVE  /\ w \div 256 \in 0..255 /\ w % 256 \in 0..255
           /\ (w \div 256) * 256 + (w % 256) = w
           /\ Signed(w \div 256) \in -128..127
           /\ w < 32768 => Complement(w) = w
           /\ w >= 32768 => Complement(w) = w - 65536
<1>1. w \div 256 \in 0..255 /\ w % 256 \in 0..255 /\ w = 256 * (w \div 256) + (w % 256)
    OBVIOUS
<1>2. Signed(w \div 256) \in -128..127
    BY <1>1 DEF Signed
<1>3. ASSUME w < 32768 PROVE Complement(w) = w
    BY <1>1, <1>3 DEF Signed, Complement
<1>4. ASSUME w >= 32768 PROVE Complement(w) = w - 65536
    BY <1>1, <1>4 DEF Signed, Complement
<1> QED
    BY <1>1, <1>2, <1>3, <1>4

\* The signed number of each width that is at the top of a word.
LEMMA TenBits ==
    ASSUME NEW x \in Int, -512 <= x, x <= 511
    PROVE  /\ (x % 1024) * 64 + 1 \in Int
           /\ 0 <= (x % 1024) * 64 + 1 /\ (x % 1024) * 64 + 1 <= 65535
           /\ Complement((x % 1024) * 64 + 1) = x * 64 + 1
<1>1. CASE x >= 0
  <2>1. x % 1024 = x
      BY <1>1
  <2>2. (x % 1024) * 64 + 1 = x * 64 + 1
      BY <2>1
  <2>3. x * 64 + 1 \in Int /\ 0 <= x * 64 + 1 /\ x * 64 + 1 < 32768
      BY <1>1
  <2>4. Complement(x * 64 + 1) = x * 64 + 1
      BY <2>3, Complements
  <2>5. x * 64 + 1 <= 65535
      BY <2>3
  <2> QED
      BY <2>2, <2>3, <2>4, <2>5
<1>2. CASE x < 0
  <2>1. x % 1024 = x + 1024
      BY <1>2
  <2>2. (x % 1024) * 64 + 1 = x * 64 + 65537
      BY <2>1
  <2>3. x * 64 + 65537 \in Int /\ 32768 <= x * 64 + 65537 /\ x * 64 + 65537 <= 65535
      BY <1>2
  <2>4. Complement(x * 64 + 65537) = (x * 64 + 65537) - 65536
      BY <2>3, Complements
  <2>5. 0 <= x * 64 + 65537 /\ (x * 64 + 65537) - 65536 = x * 64 + 1
      BY <2>3
  <2> QED
      BY <2>2, <2>3, <2>4, <2>5
<1> QED
    BY <1>1, <1>2

LEMMA TwelveBits ==
    ASSUME NEW x \in Int, -2048 <= x, x <= 2047
    PROVE  /\ (x % 4096) * 16 + 1 \in Int
           /\ 0 <= (x % 4096) * 16 + 1 /\ (x % 4096) * 16 + 1 <= 65535
           /\ Complement((x % 4096) * 16 + 1) = x * 16 + 1
<1>1. CASE x >= 0
  <2>1. x % 4096 = x
      BY <1>1
  <2>2. (x % 4096) * 16 + 1 = x * 16 + 1
      BY <2>1
  <2>3. x * 16 + 1 \in Int /\ 0 <= x * 16 + 1 /\ x * 16 + 1 < 32768
      BY <1>1
  <2>4. Complement(x * 16 + 1) = x * 16 + 1
      BY <2>3, Complements
  <2>5. x * 16 + 1 <= 65535
      BY <2>3
  <2> QED
      BY <2>2, <2>3, <2>4, <2>5
<1>2. CASE x < 0
  <2>1. x % 4096 = x + 4096
      BY <1>2
  <2>2. (x % 4096) * 16 + 1 = x * 16 + 65537
      BY <2>1
  <2>3. x * 16 + 65537 \in Int /\ 32768 <= x * 16 + 65537 /\ x * 16 + 65537 <= 65535
      BY <1>2
  <2>4. Complement(x * 16 + 65537) = (x * 16 + 65537) - 65536
      BY <2>3, Complements
  <2>5. 0 <= x * 16 + 65537 /\ (x * 16 + 65537) - 65536 = x * 16 + 1
      BY <2>3
  <2> QED
      BY <2>2, <2>3, <2>4, <2>5
<1> QED
    BY <1>1, <1>2

LEMMA FourteenBits ==
    ASSUME NEW x \in Int, -8192 <= x, x <= 8191
    PROVE  /\ (x % 16384) * 4 + 1 \in Int
           /\ 0 <= (x % 16384) * 4 + 1 /\ (x % 16384) * 4 + 1 <= 65535
           /\ Complement((x % 16384) * 4 + 1) = x * 4 + 1
<1>1. CASE x >= 0
  <2>1. x % 16384 = x
      BY <1>1
  <2>2. (x % 16384) * 4 + 1 = x * 4 + 1
      BY <2>1
  <2>3. x * 4 + 1 \in Int /\ 0 <= x * 4 + 1 /\ x * 4 + 1 < 32768
      BY <1>1
  <2>4. Complement(x * 4 + 1) = x * 4 + 1
      BY <2>3, Complements
  <2>5. x * 4 + 1 <= 65535
      BY <2>3
  <2> QED
      BY <2>2, <2>3, <2>4, <2>5
<1>2. CASE x < 0
  <2>1. x % 16384 = x + 16384
      BY <1>2
  <2>2. (x % 16384) * 4 + 1 = x * 4 + 65537
      BY <2>1
  <2>3. x * 4 + 65537 \in Int /\ 32768 <= x * 4 + 65537 /\ x * 4 + 65537 <= 65535
      BY <1>2
  <2>4. Complement(x * 4 + 65537) = (x * 4 + 65537) - 65536
      BY <2>3, Complements
  <2>5. 0 <= x * 4 + 65537 /\ (x * 4 + 65537) - 65536 = x * 4 + 1
      BY <2>3
  <2> QED
      BY <2>2, <2>3, <2>4, <2>5
<1> QED
    BY <1>1, <1>2

\* What the driver computes from the two bytes of such a word.
DecodesTo(s, l, x, k, d) ==
    s = x \div d /\ (s * 256 + l - (l % k)) \div k = x

LEMMA TenDecoded ==
    ASSUME NEW s \in -128..127, NEW l \in 0..255, NEW x \in Int, -2^9 <= x, x <= 2^9 - 1,
           s * 256 + l = x * 64 + 1
    PROVE  DecodesTo(s, l, x, 64, 4)
<1>1. l = 64 * (x - 4 * s) + 1
    OBVIOUS
<1>2. \A q \in Int : (64 * q + 1) % 64 = 1
    OBVIOUS
<1>3. x - 4 * s \in Int
    OBVIOUS
<1>4. l % 64 = 1
    BY <1>1, <1>2, <1>3
<1>5. s * 256 + l - (l % 64) = 64 * x
    BY <1>4
<1>6. \A q \in Int : (64 * q) \div 64 = q
    OBVIOUS
<1>7. s = x \div 4
    OBVIOUS
<1> QED
    BY <1>5, <1>6, <1>7 DEF DecodesTo

LEMMA TwelveDecoded ==
    ASSUME NEW s \in -128..127, NEW l \in 0..255, NEW x \in Int, -2^11 <= x, x <= 2^11 - 1,
           s * 256 + l = x * 16 + 1
    PROVE  DecodesTo(s, l, x, 16, 16)
<1>1. l = 16 * (x - 16 * s) + 1
    OBVIOUS
<1>2. \A q \in Int : (16 * q + 1) % 16 = 1
    OBVIOUS
<1>3. x - 16 * s \in Int
    OBVIOUS
<1>4. l % 16 = 1
    BY <1>1, <1>2, <1>3
<1>5. s * 256 + l - (l % 16) = 16 * x
    BY <1>4
<1>6. \A q \in Int : (16 * q) \div 16 = q
    OBVIOUS
<1>7. s = x \div 16
    OBVIOUS
<1> QED
    BY <1>5, <1>6, <1>7 DEF DecodesTo

LEMMA FourteenDecoded ==
    ASSUME NEW s \in -128..127, NEW l \in 0..255, NEW x \in Int, -2^13 <= x, x <= 2^13 - 1,
           s * 256 + l = x * 4 + 1
    PROVE  DecodesTo(s, l, x, 4, 64)
<1>1. l = 4 * (x - 64 * s) + 1
    OBVIOUS
<1>2. \A q \in Int : (4 * q + 1) % 4 = 1
    OBVIOUS
<1>3. x - 64 * s \in Int
    OBVIOUS
<1>4. l % 4 = 1
    BY <1>1, <1>2, <1>3
<1>5. s * 256 + l - (l % 4) = 4 * x
    BY <1>4
<1>6. \A q \in Int : (4 * q) \div 4 = q
    OBVIOUS
<1>7. s = x \div 64
    OBVIOUS
<1> QED
    BY <1>5, <1>6, <1>7 DEF DecodesTo

-----------------------------------------------------------------------------
(***************************************************************************)
(* Bma2x2Data                                                              *)
(***************************************************************************)
Measurable(x) == x \in -2^(Resolution - 1) .. 2^(Resolution - 1) - 1

\* An axis is decoded as it was measured; its upper byte alone is what it was
\* in counts of eight bits.
LEMMA AxisDecoded ==
    ASSUME NEW m, NEW a, Measurable(m[a])
    PROVE  /\ Decode(Lsb(m, a), Msb(m, a)) = m[a]
           /\ Signed(Msb(m, a)) = m[a] \div 2^(Resolution - 8)
<1> DEFINE w == Word(m, a)
           x == m[a]
           l == w % 256
           s == Signed(w \div 256)
<1>1. CASE Resolution = 10
  <2>1. x \in Int /\ -512 <= x /\ x <= 511 /\ w = (x % 1024) * 64 + 1
      BY <1>1 DEF Measurable, Word
  <2>2. w \in Int /\ 0 <= w /\ w <= 65535 /\ Complement(w) = x * 64 + 1
    <3> HIDE DEF x, w
    <3> QED
        BY <2>1, TenBits
  <2>3. s \in -128..127 /\ l \in 0..255
    <3> HIDE DEF x, w
    <3> QED
        BY <2>2, Complements
  <2>4. s * 256 + l = x * 64 + 1
    <3> HIDE DEF x, w
    <3> QED
        BY <2>2 DEF Complement
  <2>6. DecodesTo(s, l, x, 64, 4)
    <3>1. x \in Int /\ -2^9 <= x /\ x <= 2^9 - 1
        BY <2>1
    <3> HIDE DEF x, l, s, w
    <3> QED
        BY Zenon, <3>1, <2>3, <2>4, TenDecoded
  <2>5. 2^(Resolution - 8) = 4 /\ 2^(16 - Resolution) = 64
      BY <1>1
  <2>7. Decode(l, w \div 256) = x
    <3> HIDE DEF x, l
    <3> QED
        BY <2>5, <2>6 DEF Decode, DecodesTo
  <2> QED
      BY <2>5, <2>6, <2>7 DEF Lsb, Msb, DecodesTo
<1>2. CASE Resolution = 12
  <2>1. x \in Int /\ -2048 <= x /\ x <= 2047 /\ w = (x % 4096) * 16 + 1
      BY <1>2 DEF Measurable, Word
  <2>2. w \in Int /\ 0 <= w /\ w <= 65535 /\ Complement(w) = x * 16 + 1
    <3> HIDE DEF x, w
    <3> QED
        BY <2>1, TwelveBits
  <2>3. s \in -128..127 /\ l \in 0..255
    <3> HIDE DEF x, w
    <3> QED
        BY <2>2, Complements
  <2>4. s * 256 + l = x * 16 + 1
    <3> HIDE DEF x, w
    <3> QED
        BY <2>2 DEF Complement
  <2>6. DecodesTo(s, l, x, 16, 16)
    <3>1. x \in Int /\ -2^11 <= x /\ x <= 2^11 - 1
        BY <2>1
    <3> HIDE DEF x, l, s, w
    <3> QED
        BY Zenon, <3>1, <2>3, <2>4, TwelveDecoded
  <2>5. 2^(Resolution - 8) = 16 /\ 2^(16 - Resolution) = 16
      BY <1>2
  <2>7. Decode(l, w \div 256) = x
    <3> HIDE DEF x, l
    <3> QED
        BY <2>5, <2>6 DEF Decode, DecodesTo
  <2> QED
      BY <2>5, <2>6, <2>7 DEF Lsb, Msb, DecodesTo
<1>3. CASE Resolution = 14
  <2>1. x \in Int /\ -8192 <= x /\ x <= 8191 /\ w = (x % 16384) * 4 + 1
      BY <1>3 DEF Measurable, Word
  <2>2. w \in Int /\ 0 <= w /\ w <= 65535 /\ Complement(w) = x * 4 + 1
    <3> HIDE DEF x, w
    <3> QED
        BY <2>1, FourteenBits
  <2>3. s \in -128..127 /\ l \in 0..255
    <3> HIDE DEF x, w
    <3> QED
        BY <2>2, Complements
  <2>4. s * 256 + l = x * 4 + 1
    <3> HIDE DEF x, w
    <3> QED
        BY <2>2 DEF Complement
  <2>6. DecodesTo(s, l, x, 4, 64)
    <3>1. x \in Int /\ -2^13 <= x /\ x <= 2^13 - 1
        BY <2>1
    <3> HIDE DEF x, l, s, w
    <3> QED
        BY Zenon, <3>1, <2>3, <2>4, FourteenDecoded
  <2>5. 2^(Resolution - 8) = 64 /\ 2^(16 - Resolution) = 4
      BY <1>3
  <2>7. Decode(l, w \div 256) = x
    <3> HIDE DEF x, l
    <3> QED
        BY <2>5, <2>6 DEF Decode, DecodesTo
  <2> QED
      BY <2>5, <2>6, <2>7 DEF Lsb, Msb, DecodesTo
<1> QED
    BY <1>1, <1>2, <1>3, DataAssumption

Temperature(x) == x \in -128..127

LEMMA TemperatureDecoded == ASSUME NEW x, Temperature(x) PROVE Signed(x % 256) = x
<1>0. x \in -128..127
    BY DEF Temperature
<1>1. x < 0 => x % 256 = x + 256
    BY <1>0
<1>2. x >= 0 => x % 256 = x
    BY <1>0
<1> QED
    BY <1>0, <1>1, <1>2 DEF Signed

\* What a call says of a channel that measures v.
ValueOf(call, c, v) ==
    IF call = "axis" \/ c = "t" THEN v ELSE v \div 2^(Resolution - 8)

Sensible(m) == (\A a \in Axis : Measurable(m[a])) /\ Temperature(m["t"])

LEMMA MeasurementsSensible == ASSUME NEW m \in Measurements PROVE Sensible(m)
<1>1. (\A a \in Axis : m[a] \in Accelerations) /\ m["t"] \in Temperatures
    BY DEF Measurements
<1>2. (\A x \in Accelerations : Measurable(x)) /\ (\A x \in Temperatures : Temperature(x))
    BY DataAssumption DEF Measurable, Temperature
<1> QED
    BY <1>1, <1>2 DEF Sensible

\* A call that is reading axis by axis has read some of them and counted the
\* transfers that failed.
DataInv ==
    /\ Sensible(measured)
    /\ reading.left \in Seq(Channel)
    /\ reading.left # <<>> => reading.call = "eight_xyz"
    /\ DOMAIN reading = {"call", "left", "status", "value", "of", "misses"}
    /\ reading.misses \in Nat
    /\ DOMAIN reading.of = DOMAIN reading.value
    /\ reading.misses = 0 =>
         \A c \in DOMAIN reading.value :
            reading.value[c] = ValueOf(reading.call, c, reading.of[c])

\* A call of one transfer.
TransferOf(call, channels, values) ==
    \E failed \in BOOLEAN :
       reading' = [call |-> call, left |-> <<>>,
                   status |-> IF failed THEN -1 ELSE 0,
                   value |-> [c \in channels |-> IF failed THEN 0 ELSE values[c]],
                   of |-> Restrict(measured, channels),
                   misses |-> IF failed THEN 1 ELSE 0]

LEMMA Transferred ==
    ASSUME DataInv, UNCHANGED measured, NEW call, NEW channels, NEW values,
           \A c \in channels : values[c] = ValueOf(call, c, measured[c]),
           TransferOf(call, channels, values)
    PROVE  DataInv'
<1>1. PICK failed \in BOOLEAN :
          reading' = [call |-> call, left |-> <<>>,
                      status |-> IF failed THEN -1 ELSE 0,
                      value |-> [c \in channels |->
                                    IF failed THEN 0 ELSE values[c]],
                      of |-> [c \in channels |-> measured[c]],
                      misses |-> IF failed THEN 1 ELSE 0]
    BY DEF Restrict, TransferOf
<1>2. CASE failed
    BY <1>1, <1>2 DEF DataInv
<1>3. CASE ~failed
    BY <1>1, <1>3 DEF DataInv
<1> QED
    BY <1>2, <1>3

\* Each channel is where the driver takes it from in the burst.
LEMMA BurstDecoded ==
    ASSUME NEW m, Sensible(m), NEW c \in Channel
    PROVE  DecodeBurst(Burst(m))[c] = m[c]
<1>1. CASE c = "t"
  <2>1. DecodeBurst(Burst(m))[c] = Signed(m["t"] % 256)
      BY <1>1 DEF DecodeBurst, Burst, Channel
  <2> QED
      BY <1>1, <2>1, TemperatureDecoded DEF Sensible
<1>2. CASE c \in Axis
  <2>1. DecodeBurst(Burst(m))[c] = Decode(Lsb(m, c), Msb(m, c))
      BY <1>2 DEF DecodeBurst, Burst, Position, Channel, Axis
  <2> QED
      BY <1>2, <2>1, AxisDecoded DEF Sensible
<1> QED
    BY <1>1, <1>2 DEF Channel

LEMMA OneTransferStep ==
    ASSUME DataInv,
           \/ read_accel_x \/ read_accel_y \/ read_accel_z \/ read_temp
           \/ read_accel_eight_resolution_x \/ read_accel_eight_resolution_y
           \/ read_accel_eight_resolution_z
           \/ read_accel_xyz \/ read_accel_xyzt
    PROVE  DataInv'
<1>1. Sensible(measured)
    BY DEF DataInv
<1>2. \A a \in Axis : /\ Decode(Lsb(measured, a), Msb(measured, a)) = measured[a]
                      /\ Signed(Msb(measured, a)) = measured[a] \div 2^(Resolution - 8)
    BY <1>1, AxisDecoded DEF Sensible
<1>3. ASSUME NEW channels \in SUBSET Axis, UNCHANGED measured,
             \E failed \in BOOLEAN :
                reading' = [call |-> "axis", left |-> <<>>,
                            status |-> IF failed THEN -1 ELSE 0,
                            value |-> [c \in channels |->
                               IF failed THEN 0
                               ELSE Decode(Lsb(measured, c), Msb(measured, c))],
                            of |-> Restrict(measured, channels),
                            misses |-> IF failed THEN 1 ELSE 0]
      PROVE  DataInv'
  <2> DEFINE values == [c \in channels |-> Decode(Lsb(measured, c), Msb(measured, c))]
  <2>1. \A c \in channels : values[c] = ValueOf("axis", c, measured[c])
      BY <1>2 DEF ValueOf
  <2>2. TransferOf("axis", channels, values)
      BY <1>3 DEF TransferOf
  <2> HIDE DEF values
  <2> QED
      BY <1>3, <2>1, <2>2, Transferred
<1>4. ASSUME NEW channels \in SUBSET Axis, UNCHANGED measured,
             \E failed \in BOOLEAN :
                reading' = [call |-> "eight", left |-> <<>>,
                            status |-> IF failed THEN -1 ELSE 0,
                            value |-> [c \in channels |->
                               IF failed THEN 0 ELSE Signed(Msb(measured, c))],
                            of |-> Restrict(measured, channels),
                            misses |-> IF failed THEN 1 ELSE 0]
      PROVE  DataInv'
  <2> DEFINE values == [c \in channels |-> Signed(Msb(measured, c))]
  <2>1. \A c \in channels : values[c] = ValueOf("eight", c, measured[c])
      BY <1>2 DEF ValueOf, Axis
  <2>2. TransferOf("eight", channels, values)
      BY <1>4 DEF TransferOf
  <2> HIDE DEF values
  <2> QED
      BY <1>4, <2>1, <2>2, Transferred
<1>5. ASSUME NEW channels \in SUBSET Channel, UNCHANGED measured,
             \E failed \in BOOLEAN :
                reading' = [call |-> "axis", left |-> <<>>,
                            status |-> IF failed THEN -1 ELSE 0,
                            value |-> [c \in channels |->
                               IF failed THEN 0 ELSE DecodeBurst(Burst(measured))[c]],
                            of |-> Restrict(measured, channels),
                            misses |-> IF failed THEN 1 ELSE 0]
      PROVE  DataInv'
  <2> DEFINE values == [c \in channels |-> DecodeBurst(Burst(measured))[c]]
  <2>1. \A c \in channels : values[c] = ValueOf("axis", c, measured[c])
      BY <1>1, BurstDecoded DEF ValueOf
  <2>2. TransferOf("axis", channels, values)
      BY <1>5 DEF TransferOf
  <2> HIDE DEF values
  <2> QED
      BY <1>5, <2>1, <2>2, Transferred
<1>6. {"x"} \in SUBSET Axis /\ {"y"} \in SUBSET Axis /\ {"z"} \in SUBSET Axis
      /\ Axis \in SUBSET Channel /\ Channel \in SUBSET Channel
    BY DEF Axis, Channel
<1>7. CASE read_accel_x
    BY <1>3, <1>6, <1>7 DEF read_accel_x, OneTransfer, BeginRead
<1>8. CASE read_accel_y
    BY <1>3, <1>6, <1>8 DEF read_accel_y, OneTransfer, BeginRead
<1>9. CASE read_accel_z
    BY <1>3, <1>6, <1>9 DEF read_accel_z, OneTransfer, BeginRead
<1>10. CASE read_accel_eight_resolution_x
    BY <1>4, <1>6, <1>10 DEF read_accel_eight_resolution_x, OneTransfer, BeginRead
<1>11. CASE read_accel_eight_resolution_y
    BY <1>4, <1>6, <1>11 DEF read_accel_eight_resolution_y, OneTransfer, BeginRead
<1>12. CASE read_accel_eight_resolution_z
    BY <1>4, <1>6, <1>12 DEF read_accel_eight_resolution_z, OneTransfer, BeginRead
<1>13. CASE read_accel_xyz
    BY <1>5, <1>6, <1>13 DEF read_accel_xyz, OneTransfer, BeginRead
<1>14. CASE read_accel_xyzt
    BY <1>5, <1>6, <1>14 DEF read_accel_xyzt, OneTransfer, BeginRead
<1>15. CASE read_temp
  <2> DEFINE values == [c \in {"t"} |-> Signed(measured[c] % 256)]
  <2>1. \A c \in {"t"} : values[c] = ValueOf("axis", c, measured[c])
      BY <1>1, TemperatureDecoded DEF ValueOf, Sensible
  <2>2. TransferOf("axis", {"t"}, values)
      BY <1>15 DEF read_temp, OneTransfer, TransferOf
  <2>3. UNCHANGED measured
      BY <1>15 DEF read_temp, OneTransfer, BeginRead
  <2> HIDE DEF values
  <2> QED
      BY <2>1, <2>2, <2>3, Transferred
<1> QED
    BY <1>7, <1>8, <1>9, <1>10, <1>11, <1>12, <1>13, <1>14, <1>15

LEMMA NextAxisStep == ASSUME DataInv, NextAxis PROVE DataInv'
<1> DEFINE c == Head(reading.left)
<1>1. c \in Channel /\ Tail(reading.left) \in Seq(Channel)
    BY DEF DataInv, NextAxis
<1> DEFINE before == IF c = "y" THEN "x" ELSE IF c = "z" THEN "y" ELSE "z"
           read == Signed(IF c = "t" THEN measured[c] % 256 ELSE Msb(measured, c))
           taken(failed) == IF ~failed THEN read
                            ELSE IF c = "x" THEN 0 ELSE reading.value[before]
           domain == DOMAIN reading.value \cup {c}
<1>2. PICK failed \in BOOLEAN :
          reading' = [reading EXCEPT
                  !.left = Tail(@),
                  !.status = IF failed THEN -1 ELSE 0,
                  !.value = [a \in domain |->
                                IF a = c THEN taken(failed) ELSE reading.value[a]],
                  !.of = [a \in DOMAIN reading.of \cup {c} |->
                                IF a = c THEN measured[c] ELSE reading.of[a]],
                  !.misses = IF failed THEN @ + 1 ELSE @]
    BY Zenon DEF NextAxis
<1>3. /\ reading'.call = reading.call
      /\ reading'.left = Tail(reading.left)
      /\ reading'.value = [a \in domain |-> IF a = c THEN taken(failed) ELSE reading.value[a]]
      /\ reading'.of = [a \in domain |-> IF a = c THEN measured[c] ELSE reading.of[a]]
      /\ reading'.misses = IF failed THEN reading.misses + 1 ELSE reading.misses
      /\ DOMAIN reading' = {"call", "left", "status", "value", "of", "misses"}
  <2>1. /\ DOMAIN reading = {"call", "left", "status", "value", "of", "misses"}
        /\ DOMAIN reading.of = DOMAIN reading.value
      BY DEF DataInv
  <2> DEFINE of == [a \in domain |-> IF a = c THEN measured[c] ELSE reading.of[a]]
             after == [a \in domain |-> IF a = c THEN taken(failed) ELSE reading.value[a]]
  <2>2. reading' = [reading EXCEPT !.left = Tail(@),
                                   !.status = IF failed THEN -1 ELSE 0,
                                   !.value = after, !.of = of,
                                   !.misses = IF failed THEN @ + 1 ELSE @]
      BY <1>2, <2>1
  <2> HIDE DEF of, after
  <2> QED
      BY <2>1, <2>2 DEF of, after
<1>4. read = ValueOf("eight_xyz", c, measured[c])
  <2>1. CASE c = "t"
    <3>1. Temperature(measured[c])
        BY <2>1 DEF DataInv, Sensible
    <3> QED
        BY <2>1, <3>1, TemperatureDecoded DEF ValueOf
  <2>2. CASE c \in Axis
      BY <2>2, AxisDecoded DEF ValueOf, DataInv, Sensible, Axis
  <2> QED
      BY <1>1, <2>1, <2>2 DEF Channel
<1>5. reading.call = "eight_xyz" /\ measured' = measured
    BY DEF NextAxis, DataInv
<1>6. reading'.misses \in Nat
    BY <1>3 DEF DataInv
<1>7. ASSUME reading'.misses = 0, NEW a \in domain
      PROVE  reading'.value[a] = ValueOf(reading.call, a, reading'.of[a])
  <2>1. ~failed /\ reading.misses = 0
      BY <1>3, <1>7 DEF DataInv
  <2>2. CASE a = c
    <3> HIDE DEF read, c, domain
    <3> QED
        BY <1>3, <1>4, <1>5, <1>7, <2>1, <2>2 DEF domain
  <2>3. CASE a # c
    <3>1. a \in DOMAIN reading.value
        BY <2>3
    <3> HIDE DEF read, c, domain
    <3> QED
        BY <1>3, <1>7, <2>1, <2>3, <3>1 DEF DataInv, domain
  <2> QED
      BY <2>2, <2>3
<1>8. DOMAIN reading'.value = domain /\ DOMAIN reading'.of = domain
    BY <1>3
<1> HIDE DEF domain, c, read
<1> QED
    BY <1>1, <1>3, <1>5, <1>6, <1>7, <1>8 DEF DataInv, c

LEMMA DataInvInductive == DataSpec => []DataInv
<1>1. DataInit => DataInv
    BY MeasurementsSensible DEF DataInit, DataInv, NoReading
<1>2. DataInv /\ [DataNext]_dataVars => DataInv'
  <2> SUFFICES ASSUME DataInv, [DataNext]_dataVars
               PROVE  DataInv'
      OBVIOUS
  <2>1. CASE Measure
      BY <2>1, MeasurementsSensible DEF Measure, DataInv
  <2>2. ASSUME NEW channels \in Seq(Channel), BeginEight(channels)
        PROVE  DataInv'
    <3>1. reading' = [NoReading EXCEPT !.call = "eight_xyz", !.left = channels]
          /\ UNCHANGED measured
        BY <2>2 DEF BeginEight, BeginRead
    <3>2. /\ reading'.call = "eight_xyz" /\ reading'.left = channels
          /\ reading'.value = <<>> /\ reading'.of = <<>> /\ reading'.misses = 0
          /\ DOMAIN reading' = {"call", "left", "status", "value", "of", "misses"}
        BY <3>1 DEF NoReading
    <3>3. DOMAIN <<>> = {}
        OBVIOUS
    <3> QED
        BY <2>2, <3>1, <3>2, <3>3 DEF DataInv
  <2>3. Axes \in Seq(Channel) /\ Append(Axes, "t") \in Seq(Channel)
      BY DEF Axes, Channel, Axis
  <2>4. CASE read_accel_eight_resolution_xyz
      BY <2>2, <2>3, <2>4 DEF read_accel_eight_resolution_xyz
  <2>7. CASE read_accel_eight_resolution_xyzt
    <3>1. BeginEight(Append(Axes, "t"))
        BY <2>7 DEF read_accel_eight_resolution_xyzt
    <3> QED
        BY Zenon, <2>2, <2>3, <3>1
  <2>5. CASE NextAxis
      BY <2>5, NextAxisStep
  <2>6. CASE UNCHANGED dataVars
      BY <2>6 DEF dataVars, DataInv
  <2> QED
      BY <2>1, <2>4, <2>5, <2>6, <2>7, OneTransferStep DEF DataNext
<1> QED
    BY <1>1, <1>2, PTL DEF DataSpec

\* At every resolution of the chip, and for all that it may measure: a call
\* of the accelerometer without a failed transfer says of each axis, and of
\* the temperature, what the chip measured when it was read, whatever the
\* chip measures in between.
THEOREM AccelerationDecoded == DataSpec => []AccelDecoded
<1>1. DataInv => AccelDecoded
    BY DEF DataInv, AccelDecoded, ValueOf
<1> QED
    BY <1>1, DataInvInductive, PTL

-----------------------------------------------------------------------------
(***************************************************************************)
(* Bmm050: the fields                                                      *)
(***************************************************************************)
FieldNames == {"spi3", "selftest", "data_rate", "advanced_selftest",
               "control_measurement_x", "control_measurement_y", "rep_XY", "rep_Z"}
SliceNames == FieldNames \cup {"mode"}
SliceOf(n) == IF n = "mode" THEN OPERATION_MODE ELSE MagFields[n]

\* What the chip holds, field by field.
Settings(regs) == [n \in SliceNames |-> GetBitslice(regs[SliceOf(n).reg], SliceOf(n))]

LEMMA FieldsNamed ==
    /\ DOMAIN MagFields = FieldNames
    /\ "mode" \notin FieldNames
    /\ \A n \in FieldNames : n \in SliceNames /\ SliceOf(n) = MagFields[n]
    /\ "mode" \in SliceNames /\ SliceOf("mode") = OPERATION_MODE
<1>1. DOMAIN MagFields = FieldNames
    BY DEF MagFields, FieldNames
<1>2. "mode" \notin FieldNames
    BY DEF FieldNames
<1> QED
    BY <1>1, <1>2 DEF SliceNames, SliceOf

LEMMA SlicesAre ==
    /\ SliceOf("spi3") = [reg |-> 75, pos |-> 2, len |-> 1]
    /\ SliceOf("selftest") = [reg |-> 76, pos |-> 0, len |-> 1]
    /\ SliceOf("data_rate") = [reg |-> 76, pos |-> 3, len |-> 3]
    /\ SliceOf("advanced_selftest") = [reg |-> 76, pos |-> 6, len |-> 2]
    /\ SliceOf("control_measurement_x") = [reg |-> 78, pos |-> 3, len |-> 1]
    /\ SliceOf("control_measurement_y") = [reg |-> 78, pos |-> 4, len |-> 1]
    /\ SliceOf("rep_XY") = [reg |-> 81, pos |-> 0, len |-> 8]
    /\ SliceOf("rep_Z") = [reg |-> 82, pos |-> 0, len |-> 8]
    /\ SliceOf("mode") = [reg |-> 76, pos |-> 1, len |-> 2]
BY DEF SliceOf, MagFields, MagField, OPERATION_MODE, PowerReg

LEMMA SlicesPlaced ==
    ASSUME NEW n \in SliceNames
    PROVE  Placed(SliceOf(n)) /\ SliceOf(n).reg \in MagRegisters
BY SlicesAre DEF SliceNames, FieldNames, Placed, Bit, MagRegisters, PowerReg

LEMMA SlicesApart ==
    ASSUME NEW m \in SliceNames, NEW n \in SliceNames, m # n,
           SliceOf(m).reg = SliceOf(n).reg
    PROVE  Mask(SliceOf(m)) \cap Mask(SliceOf(n)) = {}
<1>1. CASE SliceOf(m).reg = 76
  <2>1. \A k \in SliceNames : SliceOf(k).reg = 76
            => k \in {"selftest", "data_rate", "advanced_selftest", "mode"}
      BY SlicesAre DEF SliceNames, FieldNames
  <2>2. /\ m \in {"selftest", "data_rate", "advanced_selftest", "mode"}
        /\ n \in {"selftest", "data_rate", "advanced_selftest", "mode"}
    <3>1. SliceOf(n).reg = 76
        BY <1>1
    <3> QED
        BY Zenon, <1>1, <2>1, <3>1
  <2>3. /\ Mask(SliceOf("selftest")) = 0..0 /\ Mask(SliceOf("data_rate")) = 3..5
        /\ Mask(SliceOf("advanced_selftest")) = 6..7 /\ Mask(SliceOf("mode")) = 1..2
      BY SlicesAre DEF Mask
  <2> QED
      BY <2>2, <2>3
<1>2. CASE SliceOf(m).reg = 78
  <2>1. \A k \in SliceNames : SliceOf(k).reg = 78
            => k \in {"control_measurement_x", "control_measurement_y"}
      BY SlicesAre DEF SliceNames, FieldNames
  <2>2. /\ m \in {"control_measurement_x", "control_measurement_y"}
        /\ n \in {"control_measurement_x", "control_measurement_y"}
    <3>1. SliceOf(n).reg = 78
        BY <1>2
    <3> QED
        BY Zenon, <1>2, <2>1, <3>1
  <2>3. /\ Mask(SliceOf("control_measurement_x")) = 3..3
        /\ Mask(SliceOf("control_measurement_y")) = 4..4
      BY SlicesAre DEF Mask
  <2> QED
      BY <2>2, <2>3
<1>3. CASE SliceOf(m).reg \notin {76, 78}
    BY <1>3, SlicesAre DEF SliceNames, FieldNames
<1> QED
    BY <1>1, <1>2, <1>3

\* Of what is held, one field has changed.
Sets(regs, after, n, bits) == Settings(after) = [Settings(regs) EXCEPT ![n] = bits]

LEMMA HeldOne ==
    ASSUME NEW regs, NEW after, NEW n \in SliceNames, NEW bits,
           Settings(after)[n] = bits,
           \A m \in SliceNames \ {n} : Settings(after)[m] = Settings(regs)[m]
    PROVE  Sets(regs, after, n, bits)
<1>1. \A x : Settings(x) = [m \in SliceNames |-> Settings(x)[m]]
    BY DEF Settings
<1>2. [Settings(regs) EXCEPT ![n] = bits] = [m \in SliceNames |-> IF m = n THEN bits ELSE Settings(regs)[m]]
    BY <1>1
<1>3. [m \in SliceNames |-> IF m = n THEN bits ELSE Settings(regs)[m]]
         = [m \in SliceNames |-> Settings(after)[m]]
    OBVIOUS
<1> QED
    BY <1>1, <1>2, <1>3 DEF Sets

\* Writing a field of a register changes what is held of that field only.
LEMMA SliceWritten ==
    ASSUME NEW regs, DOMAIN regs = MagRegisters, NEW n \in SliceNames, NEW bits,
           NEW after, DOMAIN after = MagRegisters,
           after[SliceOf(n).reg] = SetBitslice(regs[SliceOf(n).reg], SliceOf(n), bits),
           \A r \in MagRegisters \ {SliceOf(n).reg} : after[r] = regs[r]
    PROVE  Sets(regs, after, n, Truncated(SliceOf(n), bits))
<1>1. Settings(after)[n] = Truncated(SliceOf(n), bits)
    BY SlicesPlaced, SameSlice DEF Settings
<1>2. ASSUME NEW m \in SliceNames \ {n}
      PROVE  Settings(after)[m] = Settings(regs)[m]
  <2>1. Placed(SliceOf(m)) /\ Placed(SliceOf(n)) /\ SliceOf(m).reg \in MagRegisters
      BY SlicesPlaced
  <2>2. CASE SliceOf(m).reg = SliceOf(n).reg
    <3>1. Mask(SliceOf(n)) \cap Mask(SliceOf(m)) = {}
        BY <2>2, SlicesApart
    <3> QED
        BY <2>1, <2>2, <3>1, OtherSlice DEF Settings
  <2>3. CASE SliceOf(m).reg # SliceOf(n).reg
      BY <2>1, <2>3 DEF Settings
  <2> QED
      BY <2>2, <2>3
<1> QED
    BY <1>1, <1>2, HeldOne

LEMMA WholeWritten ==
    ASSUME NEW regs, DOMAIN regs = MagRegisters, NEW n \in {"rep_XY", "rep_Z"}, NEW bits,
           NEW after, DOMAIN after = MagRegisters,
           after[SliceOf(n).reg] = bits,
           \A r \in MagRegisters \ {SliceOf(n).reg} : after[r] = regs[r]
    PROVE  Sets(regs, after, n, Truncated(SliceOf(n), bits))
<1>1. n \in SliceNames /\ SliceOf(n).pos = 0 /\ SliceOf(n).len = 8
    BY SlicesAre DEF SliceNames, FieldNames
<1>2. \A k \in 0..7 : 0 + k = k
    OBVIOUS
<1>3. GetBitslice(bits, SliceOf(n)) = Truncated(SliceOf(n), bits)
    BY <1>1, <1>2 DEF GetBitslice, Truncated
<1>4. \A m \in SliceNames \ {n} : SliceOf(m).reg # SliceOf(n).reg /\ SliceOf(m).reg \in MagRegisters
    BY SlicesAre, SlicesPlaced DEF SliceNames, FieldNames
<1>5. Settings(after)[n] = Truncated(SliceOf(n), bits)
    BY <1>1, <1>3 DEF Settings
<1>6. \A m \in SliceNames \ {n} : Settings(after)[m] = Settings(regs)[m]
    BY <1>4 DEF Settings
<1> QED
    BY <1>1, <1>5, <1>6, HeldOne

-----------------------------------------------------------------------------
(***************************************************************************)
(* Bmm050: a call under way                                                *)
(***************************************************************************)

\* The chip never holds both bits that reset it.
Regs(regs) == DOMAIN regs = MagRegisters /\ ~({1, 7} \subseteq regs[PowerReg])

UnderWay(s) ==
    /\ DOMAIN s = {"regs", "n", "failed", "miss", "content"}
    /\ s.failed \in Nat
    /\ Regs(s.regs)

On(s) == Powered(s.regs)
Fine(s) == s.failed = 0

\* s has come to t; nothing that has failed is forgotten.
After(s, t) == UnderWay(t) /\ (Fine(t) => Fine(s))
Kept(s, t, regs) == \A r \in MagRegisters \ regs : t.regs[r] = s.regs[r]

LEMMA AfterAfter ==
    ASSUME NEW s, NEW t, NEW u, After(s, t), After(t, u)
    PROVE  After(s, u)
BY DEF After

LEMMA TransferAfter ==
    ASSUME NEW s, UnderWay(s)
    PROVE  /\ After(s, Transfer(s))
           /\ Transfer(s).regs = s.regs
           /\ Transfer(s).content = s.content
           /\ Fine(Transfer(s)) => ~Fails(s)
<1>1. DOMAIN s = {"regs", "n", "failed", "miss", "content"} /\ s.failed \in Nat /\ Regs(s.regs)
    BY DEF UnderWay
<1>2. CASE Fails(s)
  <2>1. Transfer(s) = [s EXCEPT !.n = @ + 1, !.failed = @ + 1]
      BY <1>2 DEF Transfer
  <2>2. /\ DOMAIN Transfer(s) = DOMAIN s /\ Transfer(s).failed = s.failed + 1
        /\ Transfer(s).regs = s.regs /\ Transfer(s).content = s.content
      BY <1>1, <2>1
  <2>3. s.failed + 1 \in Nat /\ s.failed + 1 # 0
      BY <1>1
  <2> QED
      BY <1>1, <2>2, <2>3 DEF After, UnderWay, Fine
<1>3. CASE ~Fails(s)
  <2>1. Transfer(s) = [s EXCEPT !.n = @ + 1, !.failed = @]
      BY <1>3 DEF Transfer
  <2>2. /\ DOMAIN Transfer(s) = DOMAIN s /\ Transfer(s).failed = s.failed
        /\ Transfer(s).regs = s.regs /\ Transfer(s).content = s.content
      BY <1>1, <2>1
  <2> QED
      BY <1>1, <1>3, <2>2 DEF After, UnderWay, Fine
<1> QED
    BY <1>2, <1>3

\* What a write does, to a register that is not the power control, and to
\* that one.
LEMMA StoreOther ==
    ASSUME NEW s, UnderWay(s), NEW reg \in MagRegisters \ {PowerReg}, NEW byte
    PROVE  /\ Regs(Store(s, reg, byte))
           /\ \A r \in MagRegisters \ {reg} : Store(s, reg, byte)[r] = s.regs[r]
           /\ On(s) => Store(s, reg, byte)[reg] = byte
BY DEF UnderWay, Regs, Store, On, MagRegisters

LEMMA StorePower ==
    ASSUME NEW s, UnderWay(s), NEW byte
    PROVE  /\ Regs(Store(s, PowerReg, byte))
           /\ Powered(Store(s, PowerReg, byte)) <=> 0 \in byte
           /\ ~({1, 7} \subseteq byte) /\ 0 \in byte
                => /\ Store(s, PowerReg, byte)[PowerReg] = byte
                   /\ \A r \in MagRegisters \ {PowerReg} :
                         Store(s, PowerReg, byte)[r] = s.regs[r]
<1> DEFINE reset == {1, 7} \subseteq byte
<1>1. Store(s, PowerReg, byte) =
         [r \in MagRegisters |->
             IF r = PowerReg THEN IF reset THEN byte \ {1, 7} ELSE byte
             ELSE IF reset \/ 0 \notin byte THEN s.content ELSE s.regs[r]]
    BY DEF Store
<1>2. PowerReg \in MagRegisters
    BY DEF MagRegisters
<1>3. /\ DOMAIN Store(s, PowerReg, byte) = MagRegisters
      /\ Store(s, PowerReg, byte)[PowerReg] = IF reset THEN byte \ {1, 7} ELSE byte
    BY <1>1, <1>2
<1>4. Regs(Store(s, PowerReg, byte))
    BY <1>3 DEF Regs
<1>5. Powered(Store(s, PowerReg, byte)) <=> 0 \in byte
    BY <1>3 DEF Powered
<1>6. ASSUME ~reset, 0 \in byte, NEW r \in MagRegisters \ {PowerReg}
      PROVE  Store(s, PowerReg, byte)[r] = s.regs[r]
    BY <1>1, <1>6
<1> QED
    BY <1>3, <1>4, <1>5, <1>6

\* A write is a transfer; it reaches the chip if it succeeds.
Writes(s, t, reg, byte) ==
    /\ After(s, t)
    /\ t.regs \in {s.regs, Store(s, reg, byte)}
    /\ Fine(t) => ~Fails(s) /\ t.regs = Store(s, reg, byte)

LEMMA WriteAfter ==
    ASSUME NEW s, UnderWay(s), NEW reg \in MagRegisters, NEW byte
    PROVE  Writes(s, WriteByte(s, reg, byte), reg, byte)
<1>1. Regs(Store(s, reg, byte))
    BY StoreOther, StorePower
<1>2. /\ UnderWay(Transfer(s)) /\ Transfer(s).regs = s.regs
      /\ Fine(Transfer(s)) => Fine(s) /\ ~Fails(s)
    BY TransferAfter DEF After
<1>3. CASE Fails(s) /\ ~s.miss.reached
    BY <1>2, <1>3 DEF WriteByte, Writes, After
<1>4. CASE ~(Fails(s) /\ ~s.miss.reached)
  <2>1. WriteByte(s, reg, byte) = [Transfer(s) EXCEPT !.regs = Store(s, reg, byte)]
      BY <1>4 DEF WriteByte
  <2>2. DOMAIN Transfer(s) = {"regs", "n", "failed", "miss", "content"}
      BY <1>2 DEF UnderWay
  <2>3. /\ DOMAIN WriteByte(s, reg, byte) = {"regs", "n", "failed", "miss", "content"}
        /\ WriteByte(s, reg, byte).regs = Store(s, reg, byte)
        /\ WriteByte(s, reg, byte).failed = Transfer(s).failed
      BY <2>1, <2>2
  <2> QED
      BY <1>1, <1>2, <2>3 DEF Writes, After, UnderWay, Fine
<1> QED
    BY <1>3, <1>4

\* Reading, changing and writing back: without a failure the register gets
\* its own byte with the field changed.
LEMMA UpdateAfter ==
    ASSUME NEW s, UnderWay(s), NEW f, f.reg \in MagRegisters, NEW bits, NEW stale
    PROVE  /\ \E byte : Writes(Transfer(s), UpdateField(s, f, bits, stale), f.reg, byte)
           /\ Fine(UpdateField(s, f, bits, stale))
                => Writes(Transfer(s), UpdateField(s, f, bits, stale), f.reg,
                          SetBitslice(s.regs[f.reg], f, bits))
<1> DEFINE byte == SetBitslice(ReadByte(s, f.reg, stale), f, bits)
<1>1. UnderWay(Transfer(s)) /\ (Fine(Transfer(s)) => ~Fails(s))
    BY TransferAfter DEF After
<1>2. Writes(Transfer(s), UpdateField(s, f, bits, stale), f.reg, byte)
    BY <1>1, WriteAfter DEF UpdateField
<1>3. ASSUME Fine(UpdateField(s, f, bits, stale))
      PROVE  byte = SetBitslice(s.regs[f.reg], f, bits)
  <2>1. ~Fails(s)
      BY <1>1, <1>2, <1>3 DEF Writes, After
  <2> QED
      BY <2>1 DEF ReadByte
<1> QED
    BY <1>2, <1>3

\* A setting of a register that is not the power control.
FieldStep(s, t, n, bits) ==
    /\ After(s, t)
    /\ Kept(s, t, {SliceOf(n).reg})
    /\ Fine(t) /\ On(s) => Sets(s.regs, t.regs, n, Truncated(SliceOf(n), bits))

LEMMA FieldWritten ==
    ASSUME NEW s, UnderWay(s), NEW n \in SliceNames, SliceOf(n).reg # PowerReg,
           NEW bits, NEW stale
    PROVE  FieldStep(s, UpdateField(s, SliceOf(n), bits, stale), n, bits)
<1> DEFINE f == SliceOf(n)
           t == UpdateField(s, f, bits, stale)
<1>1. f.reg \in MagRegisters \ {PowerReg}
    BY SlicesPlaced
<1>2. UnderWay(Transfer(s)) /\ After(s, Transfer(s)) /\ Transfer(s).regs = s.regs
    BY TransferAfter DEF After
<1>3. PICK byte : Writes(Transfer(s), t, f.reg, byte)
    BY <1>1, UpdateAfter
<1>4. After(s, t)
    BY <1>2, <1>3, AfterAfter DEF Writes
<1>5. Kept(s, t, {f.reg})
  <2>1. \A r \in MagRegisters \ {f.reg} : Store(Transfer(s), f.reg, byte)[r] = s.regs[r]
      BY <1>1, <1>2, StoreOther
  <2>2. t.regs = s.regs \/ t.regs = Store(Transfer(s), f.reg, byte)
      BY <1>2, <1>3 DEF Writes
  <2> QED
      BY <2>1, <2>2 DEF Kept
<1>6. ASSUME Fine(t), On(s)
      PROVE  Sets(s.regs, t.regs, n, Truncated(f, bits))
  <2>1. Writes(Transfer(s), t, f.reg, SetBitslice(s.regs[f.reg], f, bits))
      BY <1>1, <1>6, UpdateAfter
  <2>2. t.regs = Store(Transfer(s), f.reg, SetBitslice(s.regs[f.reg], f, bits))
      BY <1>6, <2>1 DEF Writes
  <2>3. /\ DOMAIN s.regs = MagRegisters /\ DOMAIN t.regs = MagRegisters
        /\ On(Transfer(s))
      BY <1>2, <1>4, <1>6 DEF After, UnderWay, Regs, On
  <2>4. t.regs[f.reg] = SetBitslice(s.regs[f.reg], f, bits)
      BY <1>1, <1>2, <2>2, <2>3, StoreOther
  <2>5. \A r \in MagRegisters \ {f.reg} : t.regs[r] = s.regs[r]
      BY <1>5 DEF Kept
  <2> QED
      BY <2>3, <2>4, <2>5, SliceWritten
<1> QED
    BY <1>4, <1>5, <1>6 DEF FieldStep

\* A change of the power control that is no reset.
PowerStep(s, t, byte) ==
    /\ After(s, t)
    /\ Fine(t) => /\ On(t) <=> 0 \in byte
                  /\ 0 \in byte => t.regs[PowerReg] = byte /\ Kept(s, t, {PowerReg})

LEMMA PowerRegWritten ==
    ASSUME NEW s, UnderWay(s), NEW f, f.reg = PowerReg, {1, 7} \cap Mask(f) = {},
           NEW bits, NEW stale
    PROVE  PowerStep(s, UpdateField(s, f, bits, stale), SetBitslice(s.regs[PowerReg], f, bits))
<1> DEFINE t == UpdateField(s, f, bits, stale)
           byte == SetBitslice(s.regs[PowerReg], f, bits)
<1>1. f.reg \in MagRegisters
    BY DEF MagRegisters
<1>2. UnderWay(Transfer(s)) /\ After(s, Transfer(s)) /\ Transfer(s).regs = s.regs
    BY TransferAfter DEF After
<1>3. After(s, t)
  <2>1. PICK any : Writes(Transfer(s), t, f.reg, any)
      BY <1>1, UpdateAfter
  <2> QED
      BY <1>2, <2>1, AfterAfter DEF Writes
<1>4. ~({1, 7} \subseteq byte)
    BY DEF SetBitslice, UnderWay, Regs
<1>5. ASSUME Fine(t)
      PROVE  /\ On(t) <=> 0 \in byte
             /\ 0 \in byte => t.regs[PowerReg] = byte /\ Kept(s, t, {PowerReg})
  <2>1. Writes(Transfer(s), t, PowerReg, byte)
      BY <1>1, <1>5, UpdateAfter
  <2>2. t.regs = Store(Transfer(s), PowerReg, byte)
      BY <1>5, <2>1 DEF Writes
  <2> HIDE DEF byte
  <2> QED
      BY <1>2, <1>4, <2>2, StorePower DEF On, Kept
<1> QED
    BY <1>3, <1>5 DEF PowerStep

-----------------------------------------------------------------------------
(***************************************************************************)
(* Bmm050: the numbers that the driver writes                              *)
(***************************************************************************)
LEMMA BitsFit ==
    /\ Bits(0) = {} /\ Bits(1) = {0} /\ Bits(2) = {1} /\ Bits(3) = {0, 1}
    /\ Bits(5) = {0, 2}
    /\ \A n : Bits(n) \subseteq 0..7
<1>0. \A n : Bits(n) \subseteq 0..7
    BY DEF Bits, Bit
<1>1. 0 \in Bit /\ 1 \in Bit /\ 2 \in Bit
    BY DEF Bit
<1>2. ASSUME NEW n \in 0..7
      PROVE  3 \notin Bits(n) /\ 4 \notin Bits(n) /\ 5 \notin Bits(n) /\ 6 \notin Bits(n)
             /\ 7 \notin Bits(n)
    BY DEF Bits
<1>3. /\ 0 \notin Bits(0) /\ 1 \notin Bits(0) /\ 2 \notin Bits(0)
      /\ 0 \in Bits(1) /\ 1 \notin Bits(1) /\ 2 \notin Bits(1)
      /\ 0 \notin Bits(2) /\ 1 \in Bits(2) /\ 2 \notin Bits(2)
      /\ 0 \in Bits(3) /\ 1 \in Bits(3) /\ 2 \notin Bits(3)
      /\ 0 \in Bits(5) /\ 1 \notin Bits(5) /\ 2 \in Bits(5)
    BY <1>1 DEF Bits
<1>4. ASSUME NEW n \in 0..7
      PROVE  Bits(n) \subseteq {0, 1, 2}
    BY <1>2, <1>0 DEF Bit
<1>5. Bits(0) = {} /\ Bits(1) = {0} /\ Bits(2) = {1}
    BY <1>3, <1>4
<1>6. Bits(3) = {0, 1} /\ Bits(5) = {0, 2}
    BY <1>3, <1>4
<1> QED
    BY <1>0, <1>5, <1>6

LEMMA ModesFit ==
    /\ \A mode \in 0..3 : Truncated(OPERATION_MODE, Bits(mode)) = Bits(mode)
    /\ \A mode, other \in 0..3 : Bits(mode) = Bits(other) => mode = other
<1>1. OPERATION_MODE.len = 2
    BY DEF OPERATION_MODE, MagField
<1>2. \A mode \in 0..3 : mode = 0 \/ mode = 1 \/ mode = 2 \/ mode = 3
    OBVIOUS
<1>3. \A mode \in 0..3 : Bits(mode) \subseteq 0..1
    BY <1>2, BitsFit
<1>4. 2 - 1 = 1
    OBVIOUS
<1> QED
    BY <1>1, <1>2, <1>3, <1>4, BitsFit DEF Truncated

\* What the presets write fits its fields.
LEMMA PresetsFit ==
    ASSUME NEW preset \in LOWPOWER..ENHANCED, NEW n \in {"data_rate", "rep_XY", "rep_Z"}
    PROVE  Truncated(SliceOf(n), Bits(Presets[preset][n])) = Bits(Presets[preset][n])
<1>1. CASE n = "data_rate"
  <2>1. Presets[preset].data_rate \in {0, 5}
      BY DEF Presets, LOWPOWER, REGULAR, HIGHACCURACY, ENHANCED
  <2>2. Bits(Presets[preset][n]) \subseteq 0..2
      BY <1>1, <2>1, BitsFit
  <2>3. SliceOf(n).len = 3 /\ 3 - 1 = 2
      BY <1>1, SlicesAre
  <2> QED
      BY <2>2, <2>3 DEF Truncated
<1>2. CASE n # "data_rate"
  <2>1. SliceOf(n).len = 8 /\ 8 - 1 = 7
      BY <1>2, SlicesAre
  <2>2. Bits(Presets[preset][n]) \subseteq 0..7
      BY BitsFit
  <2> QED
      BY <2>1, <2>2 DEF Truncated
<1> QED
    BY <1>1, <1>2

-----------------------------------------------------------------------------
(***************************************************************************)
(* Bmm050: the calls that calls are built from                             *)
(***************************************************************************)

\* A call that sets one field.
Setting(s, t, regs, n, bits) ==
    /\ After(s, t)
    /\ PowerReg \notin regs => Kept(s, t, regs)
    /\ Fine(t) => /\ On(t) <=> On(s)
                  /\ On(s) => Sets(s.regs, t.regs, n, bits)

LEMMA FieldSetting ==
    ASSUME NEW s, NEW t, NEW n \in SliceNames, SliceOf(n).reg # PowerReg, NEW bits,
           FieldStep(s, t, n, bits)
    PROVE  Setting(s, t, {SliceOf(n).reg}, n, Truncated(SliceOf(n), bits))
<1>1. PowerReg \in MagRegisters
    BY DEF MagRegisters
<1>2. On(t) <=> On(s)
    BY <1>1 DEF FieldStep, Kept, On, Powered
<1> QED
    BY <1>2 DEF Setting, FieldStep

\* rep_XY and rep_Z are written whole.
LEMMA WholeSetting ==
    ASSUME NEW s, UnderWay(s), NEW n \in {"rep_XY", "rep_Z"}, NEW bits
    PROVE  FieldStep(s, WriteByte(s, SliceOf(n).reg, bits), n, bits)
<1> DEFINE reg == SliceOf(n).reg
           t == WriteByte(s, reg, bits)
<1>1. reg \in MagRegisters \ {PowerReg}
    BY SlicesAre DEF MagRegisters, PowerReg
<1>2. Writes(s, t, reg, bits)
    BY <1>1, WriteAfter
<1> HIDE DEF t, reg
<1>3. Kept(s, t, {reg})
    BY <1>1, <1>2, StoreOther DEF Writes, Kept
<1>4. ASSUME Fine(t), On(s)
      PROVE  Sets(s.regs, t.regs, n, Truncated(SliceOf(n), bits))
  <2>1. t.regs = Store(s, reg, bits)
      BY <1>2, <1>4 DEF Writes
  <2>2. DOMAIN s.regs = MagRegisters /\ DOMAIN t.regs = MagRegisters
      BY <1>2 DEF Writes, After, UnderWay, Regs
  <2>3. t.regs[reg] = bits /\ \A r \in MagRegisters \ {reg} : t.regs[r] = s.regs[r]
      BY <1>1, <1>4, <2>1, StoreOther
  <2> QED
      BY <2>2, <2>3, WholeWritten DEF reg
<1> QED
    BY <1>2, <1>3, <1>4 DEF FieldStep, Writes, reg, t

\* spi3 shares the register of the power control bit.
LEMMA SpiSetting ==
    ASSUME NEW s, UnderWay(s), NEW bits, NEW stale
    PROVE  Setting(s, UpdateField(s, SliceOf("spi3"), bits, stale), {PowerReg}, "spi3",
                   Truncated(SliceOf("spi3"), bits))
<1> DEFINE f == SliceOf("spi3")
           t == UpdateField(s, f, bits, stale)
           byte == SetBitslice(s.regs[PowerReg], f, bits)
<1>1. "spi3" \in SliceNames /\ f.reg = PowerReg /\ Mask(f) = 2..2 /\ 2..2 = {2}
    BY SlicesAre DEF SliceNames, FieldNames, Mask, PowerReg
<1>2. PowerStep(s, t, byte)
    BY <1>1, PowerRegWritten
<1>3. 0 \in byte <=> 0 \in s.regs[PowerReg]
    BY <1>1 DEF SetBitslice
<1> HIDE DEF t, byte
<1>4. ASSUME Fine(t), On(s)
      PROVE  Sets(s.regs, t.regs, "spi3", Truncated(f, bits))
  <2>1. 0 \in byte
      BY <1>3, <1>4 DEF On, Powered
  <2>2. t.regs[PowerReg] = byte /\ Kept(s, t, {PowerReg})
      BY <1>2, <1>4, <2>1 DEF PowerStep
  <2>3. DOMAIN s.regs = MagRegisters /\ DOMAIN t.regs = MagRegisters
      BY <1>2 DEF PowerStep, After, UnderWay, Regs
  <2>4. t.regs[f.reg] = SetBitslice(s.regs[f.reg], f, bits)
      BY <1>1, <2>2 DEF byte
  <2>5. \A r \in MagRegisters \ {f.reg} : t.regs[r] = s.regs[r]
      BY <1>1, <2>2 DEF Kept
  <2> HIDE DEF f
  <2> QED
      BY <1>1, <2>3, <2>4, <2>5, SliceWritten DEF f
<1>5. Fine(t) => (On(t) <=> On(s))
    BY <1>2, <1>3 DEF PowerStep, On, Powered
<1> QED
    BY <1>2, <1>4, <1>5 DEF Setting, PowerStep, t

LEMMA FieldSet ==
    ASSUME NEW s, UnderWay(s), NEW n \in FieldNames, NEW bits
    PROVE  Setting(s, set_mag_field(s, n, bits), {MagFields[n].reg}, n,
                   Truncated(MagFields[n], bits))
<1> DEFINE t == set_mag_field(s, n, bits)
<1>1. n \in SliceNames /\ SliceOf(n) = MagFields[n]
    BY FieldsNamed
<1>2. SliceOf("spi3").reg = PowerReg
    BY SlicesAre DEF PowerReg
<1>3. n # "spi3" => SliceOf(n).reg # PowerReg
    BY SlicesAre DEF FieldNames, PowerReg
<1>4. CASE n \in {"rep_XY", "rep_Z"}
  <2>1. t = WriteByte(s, SliceOf(n).reg, bits)
    <3>1. t = WriteByte(s, MagFields[n].reg, bits)
        BY Zenon, <1>4 DEF set_mag_field
    <3> QED
        BY <1>1, <3>1
  <2>2. FieldStep(s, t, n, bits)
      BY <1>4, <2>1, WholeSetting
  <2>3. SliceOf(n).reg # PowerReg
      BY <1>3, <1>4
  <2> HIDE DEF t
  <2>4. Setting(s, t, {SliceOf(n).reg}, n, Truncated(SliceOf(n), bits))
      BY <1>1, <2>2, <2>3, FieldSetting
  <2> QED
      BY <1>1, <2>4 DEF t
<1>5. CASE n = "advanced_selftest" /\ Fails(s)
  <2>1. t = Transfer(s)
    <3>1. n \notin {"rep_XY", "rep_Z"}
        BY <1>5
    <3> QED
        BY Zenon, <1>5, <3>1 DEF set_mag_field
  <2>2. After(s, t) /\ t.regs = s.regs /\ ~Fine(t)
      BY <1>5, <2>1, TransferAfter
  <2> HIDE DEF t
  <2>3. Kept(s, t, {MagFields[n].reg})
      BY <2>2 DEF Kept
  <2>4. Setting(s, t, {MagFields[n].reg}, n, Truncated(MagFields[n], bits))
      BY <2>2, <2>3 DEF Setting
  <2> QED
      BY <2>4 DEF t
<1>6. CASE n \notin {"rep_XY", "rep_Z"} /\ ~(n = "advanced_selftest" /\ Fails(s))
  <2>1. t = UpdateField(s, SliceOf(n), bits, {})
    <3>1. t = UpdateField(s, MagFields[n], bits, {})
        BY Zenon, <1>6 DEF set_mag_field
    <3> QED
        BY <1>1, <3>1
  <2>2. CASE n = "spi3"
      BY <1>1, <1>2, <2>1, <2>2, SpiSetting
  <2>3. CASE n # "spi3"
    <3>1. FieldStep(s, t, n, bits)
        BY <1>1, <1>3, <2>1, <2>3, FieldWritten
    <3> HIDE DEF t
    <3>2. Setting(s, t, {SliceOf(n).reg}, n, Truncated(SliceOf(n), bits))
        BY <1>1, <1>3, <2>3, <3>1, FieldSetting
    <3> QED
        BY <1>1, <3>2 DEF t
  <2> QED
      BY <2>2, <2>3
<1> QED
    BY <1>4, <1>5, <1>6

\* A call that powers the chip on, and leaves everything else as it is.
PowersOn(s, t) ==
    /\ After(s, t)
    /\ Fine(t) => /\ On(t)
                  /\ On(s) => Settings(t.regs) = Settings(s.regs)

LEMMA HeldOn ==
    ASSUME NEW s, NEW t, UnderWay(s), UnderWay(t), Kept(s, t, {PowerReg}), On(s),
           t.regs[PowerReg] = SetBitslice(s.regs[PowerReg], POWER, {0})
    PROVE  Settings(t.regs) = Settings(s.regs)
<1>1. Placed(POWER) /\ Mask(POWER) = {0} /\ POWER.pos = 0
    BY DEF POWER, MagField, Placed, Bit, Mask
<1>2. 0 - 0 = 0
    OBVIOUS
<1>3. t.regs[PowerReg] = s.regs[PowerReg]
    BY <1>1, <1>2 DEF SetBitslice, On, Powered
<1>4. \A r \in MagRegisters : t.regs[r] = s.regs[r]
    BY <1>3 DEF Kept
<1>5. \A n \in SliceNames : SliceOf(n).reg \in MagRegisters
    BY SlicesPlaced
<1> QED
    BY <1>4, <1>5 DEF Settings

LEMMA PowerCalled ==
    ASSUME NEW s, UnderWay(s)
    PROVE  /\ PowersOn(s, set_power_mode(s, TRUE))
           /\ After(s, set_power_mode(s, FALSE))
           /\ Fine(set_power_mode(s, FALSE)) => ~On(set_power_mode(s, FALSE))
<1>1. POWER.reg = PowerReg /\ POWER.pos = 0 /\ Mask(POWER) = {0}
    BY DEF POWER, MagField, Mask
<1>2. {1, 7} \cap Mask(POWER) = {}
    BY <1>1
<1>3. 0 - 0 = 0
    OBVIOUS
<1>4. PowersOn(s, set_power_mode(s, TRUE))
  <2> DEFINE t == set_power_mode(s, TRUE)
             byte == SetBitslice(s.regs[PowerReg], POWER, {0})
  <2>1. t = UpdateField(s, POWER, {0}, {})
      BY Zenon DEF set_power_mode
  <2> HIDE DEF t
  <2>2. PowerStep(s, t, byte)
    <3>1. PowerStep(s, UpdateField(s, POWER, {0}, {}), byte)
        BY <1>1, <1>2, PowerRegWritten
    <3> QED
        BY <2>1, <3>1
  <2>3. 0 \in byte
      BY <1>1, <1>3 DEF SetBitslice
  <2>4. ASSUME Fine(t), On(s)
        PROVE  Settings(t.regs) = Settings(s.regs)
    <3>1. t.regs[PowerReg] = byte /\ Kept(s, t, {PowerReg}) /\ UnderWay(t)
        BY <2>2, <2>3, <2>4 DEF PowerStep, After
    <3> QED
        BY <2>4, <3>1, HeldOn
  <2>5. PowersOn(s, t)
      BY <2>2, <2>3, <2>4 DEF PowersOn, PowerStep
  <2> QED
      BY <2>5 DEF t
<1>5. /\ After(s, set_power_mode(s, FALSE))
      /\ Fine(set_power_mode(s, FALSE)) => ~On(set_power_mode(s, FALSE))
  <2> DEFINE t == set_power_mode(s, FALSE)
             byte == SetBitslice(s.regs[PowerReg], POWER, {})
  <2>1. t = UpdateField(s, POWER, {}, {})
      BY Zenon DEF set_power_mode
  <2> HIDE DEF t
  <2>2. PowerStep(s, t, byte)
    <3>1. PowerStep(s, UpdateField(s, POWER, {}, {}), byte)
        BY <1>1, <1>2, PowerRegWritten
    <3> QED
        BY <2>1, <3>1
  <2>3. 0 \notin byte
      BY <1>1 DEF SetBitslice
  <2>4. After(s, t) /\ (Fine(t) => ~On(t))
      BY <2>2, <2>3 DEF PowerStep
  <2> QED
      BY <2>4 DEF t
<1> QED
    BY <1>4, <1>5

LEMMA WokenUp ==
    ASSUME NEW s, UnderWay(s)
    PROVE  PowersOn(s, WakeUp(s))
<1>1. /\ UnderWay(Transfer(s)) /\ After(s, Transfer(s)) /\ Transfer(s).regs = s.regs
      /\ Fine(Transfer(s)) => ~Fails(s)
    BY TransferAfter DEF After
<1>2. CASE ReadByte(s, PowerReg, {}) \cap {0} = {}
  <2>1. WakeUp(s) = set_power_mode(Transfer(s), TRUE)
      BY <1>2 DEF WakeUp
  <2>2. PowersOn(Transfer(s), WakeUp(s))
      BY <1>1, <2>1, PowerCalled
  <2> QED
      BY <1>1, <2>2, AfterAfter DEF PowersOn, On
<1>3. CASE ReadByte(s, PowerReg, {}) \cap {0} # {}
  <2>1. WakeUp(s) = Transfer(s)
      BY <1>3 DEF WakeUp
  <2>2. Fine(Transfer(s)) => On(s)
      BY <1>1, <1>3 DEF ReadByte, On, Powered
  <2> QED
      BY <1>1, <2>1, <2>2 DEF PowersOn, On
<1> QED
    BY <1>2, <1>3

\* A change of the functional state.
InMode(s, t, mode) ==
    /\ After(s, t)
    /\ Fine(t) => IF mode = SUSPEND_MODE THEN ~On(t)
                  ELSE /\ On(t)
                       /\ Settings(t.regs)["mode"] = Bits(mode)
                       /\ On(s) => \A n \in FieldNames : Settings(t.regs)[n] = Settings(s.regs)[n]

LEMMA FunctionalState ==
    ASSUME NEW s, UnderWay(s), NEW mode \in NORMAL_MODE..SLEEP_MODE
    PROVE  InMode(s, set_functional_state(s, mode), mode)
<1> DEFINE t == set_functional_state(s, mode)
<1>1. CASE mode = SUSPEND_MODE
  <2>1. t = set_power_mode(s, FALSE)
      BY <1>1 DEF set_functional_state
  <2> QED
      BY <1>1, <2>1, PowerCalled DEF InMode
<1>2. CASE mode # SUSPEND_MODE
  <2> DEFINE u == WakeUp(s)
             stale == ReadByte(s, PowerReg, {}) \cap {0}
  <2>1. PowersOn(s, u) /\ UnderWay(u)
      BY WokenUp DEF PowersOn, After
  <2>2. t = UpdateField(u, SliceOf("mode"), Bits(mode), stale)
      BY <1>2, FieldsNamed DEF set_functional_state
  <2>3. "mode" \in SliceNames /\ SliceOf("mode").reg # PowerReg
      BY SlicesAre, FieldsNamed DEF PowerReg
  <2> HIDE DEF u, stale
  <2>4. FieldStep(u, t, "mode", Bits(mode))
      BY <2>1, <2>2, <2>3, FieldWritten
  <2> HIDE DEF t
  <2>5. Setting(u, t, {SliceOf("mode").reg}, "mode", Truncated(SliceOf("mode"), Bits(mode)))
      BY <2>3, <2>4, FieldSetting
  <2>6. Truncated(SliceOf("mode"), Bits(mode)) = Bits(mode)
    <3>1. mode \in 0..3
        BY DEF NORMAL_MODE, SLEEP_MODE
    <3> QED
        BY <3>1, ModesFit, FieldsNamed
  <2>7. After(s, t)
      BY <2>1, <2>5, AfterAfter DEF PowersOn, Setting
  <2>8. ASSUME Fine(t)
        PROVE  /\ On(t)
               /\ Settings(t.regs)["mode"] = Bits(mode)
               /\ On(s) => \A n \in FieldNames : Settings(t.regs)[n] = Settings(s.regs)[n]
    <3>1. Fine(u)
        BY <2>5, <2>8 DEF Setting, After
    <3>2. On(u) /\ On(t) /\ Sets(u.regs, t.regs, "mode", Bits(mode))
        BY <2>1, <2>5, <2>6, <2>8, <3>1 DEF PowersOn, Setting
    <3>3. /\ Settings(t.regs)["mode"] = Bits(mode)
          /\ \A n \in SliceNames : n # "mode" => Settings(t.regs)[n] = Settings(u.regs)[n]
        BY <2>3, <3>2 DEF Sets, Settings
    <3>4. \A n \in FieldNames : n \in SliceNames /\ n # "mode"
        BY FieldsNamed
    <3>5. On(s) => Settings(u.regs) = Settings(s.regs)
        BY <2>1, <3>1 DEF PowersOn
    <3> QED
        BY <3>2, <3>3, <3>4, <3>5
  <2>9. InMode(s, t, mode)
      BY <1>2, <2>7, <2>8 DEF InMode
  <2> QED
      BY <2>9 DEF t
<1> QED
    BY <1>1, <1>2

-----------------------------------------------------------------------------
(***************************************************************************)
(* Bmm050: calls made of several settings                                  *)
(***************************************************************************)

\* Of a chip that is on, no other fields change.
Changes(s, t, names) ==
    /\ After(s, t)
    /\ Fine(t) /\ On(s)
         => /\ On(t)
            /\ \A n \in SliceNames \ names : Settings(t.regs)[n] = Settings(s.regs)[n]

LEMMA ChangesAdd ==
    ASSUME NEW s, NEW t, NEW u, NEW names, NEW others,
           Changes(s, t, names), Changes(t, u, others)
    PROVE  Changes(s, u, names \cup others)
<1>1. After(s, u)
    BY AfterAfter DEF Changes
<1>2. Fine(u) => Fine(t)
    BY DEF Changes, After
<1>3. ASSUME Fine(u), On(s)
      PROVE  /\ On(u)
             /\ \A n \in SliceNames \ (names \cup others) : Settings(u.regs)[n] = Settings(s.regs)[n]
    BY <1>2, <1>3 DEF Changes
<1> QED
    BY <1>1, <1>3 DEF Changes

\* A field that later steps do not change.
LEMMA StaysHeld ==
    ASSUME NEW s, NEW t, NEW names, Changes(s, t, names), Fine(t), On(s),
           NEW n \in SliceNames \ names
    PROVE  Settings(t.regs)[n] = Settings(s.regs)[n]
BY DEF Changes

LEMMA SettingChanges ==
    ASSUME NEW s, NEW t, NEW spoilt, NEW name \in SliceNames, NEW byte,
           Setting(s, t, spoilt, name, byte)
    PROVE  /\ Changes(s, t, {name})
           /\ Fine(t) /\ On(s) => Settings(t.regs)[name] = byte
<1>1. ASSUME Fine(t), On(s)
      PROVE  /\ On(t)
             /\ Settings(t.regs)[name] = byte
             /\ \A m \in SliceNames \ {name} : Settings(t.regs)[m] = Settings(s.regs)[m]
  <2>1. Sets(s.regs, t.regs, name, byte)
      BY <1>1 DEF Setting
  <2>2. /\ Settings(t.regs)[name] = byte
        /\ \A m \in SliceNames : m # name => Settings(t.regs)[m] = Settings(s.regs)[m]
      BY <2>1 DEF Sets, Settings
  <2> QED
      BY <1>1, <2>2 DEF Setting
<1> QED
    BY <1>1 DEF Setting, Changes

LEMMA FieldChanges ==
    ASSUME NEW s, UnderWay(s), NEW n \in FieldNames, NEW bits
    PROVE  /\ Changes(s, set_mag_field(s, n, bits), {n})
           /\ Fine(set_mag_field(s, n, bits)) /\ On(s)
                => Settings(set_mag_field(s, n, bits).regs)[n] = Truncated(SliceOf(n), bits)
<1>1. n \in SliceNames /\ SliceOf(n) = MagFields[n]
    BY FieldsNamed
<1>2. Setting(s, set_mag_field(s, n, bits), {MagFields[n].reg}, n, Truncated(MagFields[n], bits))
    BY FieldSet
<1> QED
    BY <1>1, <1>2, SettingChanges

LEMMA StateChanges ==
    ASSUME NEW s, UnderWay(s), NEW mode \in {FORCED_MODE, SLEEP_MODE}
    PROVE  /\ Changes(s, set_functional_state(s, mode), {"mode"})
           /\ Fine(set_functional_state(s, mode))
                => /\ On(set_functional_state(s, mode))
                   /\ Settings(set_functional_state(s, mode).regs)["mode"] = Bits(mode)
<1> DEFINE t == set_functional_state(s, mode)
<1>1. mode \in NORMAL_MODE..SLEEP_MODE /\ mode # SUSPEND_MODE
    BY DEF FORCED_MODE, SLEEP_MODE, NORMAL_MODE, SUSPEND_MODE
<1>2. InMode(s, t, mode)
    BY <1>1, FunctionalState
<1>3. \A n \in SliceNames \ {"mode"} : n \in FieldNames
    BY DEF SliceNames
<1> HIDE DEF t
<1>4. Changes(s, t, {"mode"})
    BY <1>1, <1>2, <1>3 DEF InMode, Changes
<1>5. Fine(t) => On(t) /\ Settings(t.regs)["mode"] = Bits(mode)
    BY <1>1, <1>2 DEF InMode
<1> QED
    BY <1>4, <1>5 DEF t

LEMMA TransferChanges ==
    ASSUME NEW s, UnderWay(s)
    PROVE  Changes(s, Transfer(s), {})
BY TransferAfter DEF Changes, On

LEMMA ShotChanges ==
    ASSUME NEW s, UnderWay(s), NEW sign
    PROVE  /\ Changes(s, Shot(s, sign), {"advanced_selftest", "mode"})
           /\ Fine(Shot(s, sign)) => Settings(Shot(s, sign).regs)["mode"] = Bits(FORCED_MODE)
<1> DEFINE a == set_mag_field(s, "advanced_selftest", Bits(sign))
           m == set_functional_state(a, FORCED_MODE)
           t == Transfer(m)
<1>1. Shot(s, sign) = t
    BY DEF Shot
<1>2. Changes(s, a, {"advanced_selftest"}) /\ UnderWay(a)
  <2>1. "advanced_selftest" \in FieldNames
      BY DEF FieldNames
  <2> QED
      BY <2>1, FieldChanges DEF Changes, After
<1> HIDE DEF a
<1>3. /\ Changes(a, m, {"mode"}) /\ UnderWay(m)
      /\ Fine(m) => Settings(m.regs)["mode"] = Bits(FORCED_MODE)
    BY <1>2, StateChanges DEF Changes, After
<1> HIDE DEF m
<1>4. Changes(m, t, {}) /\ t.regs = m.regs /\ (Fine(t) => Fine(m))
    BY <1>3, TransferChanges, TransferAfter DEF Changes, After
<1> HIDE DEF t
<1>5. Changes(s, t, ({"advanced_selftest"} \cup {"mode"}) \cup {})
    BY <1>2, <1>3, <1>4, ChangesAdd
<1>6. ({"advanced_selftest"} \cup {"mode"}) \cup {} = {"advanced_selftest", "mode"}
    OBVIOUS
<1> QED
    BY <1>1, <1>3, <1>4, <1>5, <1>6

LEMMA ChannelsChange ==
    ASSUME NEW s, UnderWay(s), NEW enable
    PROVE  /\ Changes(s, Channels(s, enable), {"control_measurement_x", "control_measurement_y"})
           /\ Fine(Channels(s, enable)) /\ On(s)
                => \A n \in {"control_measurement_x", "control_measurement_y"} :
                      Settings(Channels(s, enable).regs)[n] = Truncated(SliceOf(n), Bits(enable))
<1> DEFINE x == set_mag_field(s, "control_measurement_x", Bits(enable))
           t == set_mag_field(x, "control_measurement_y", Bits(enable))
<1>1. Channels(s, enable) = t
    BY DEF Channels
<1>2. /\ "control_measurement_x" \in FieldNames /\ "control_measurement_y" \in FieldNames
      /\ "control_measurement_x" \in SliceNames
      /\ "control_measurement_x" # "control_measurement_y"
    BY DEF FieldNames, SliceNames
<1>3. /\ Changes(s, x, {"control_measurement_x"}) /\ UnderWay(x)
      /\ Fine(x) /\ On(s) => Settings(x.regs)["control_measurement_x"]
                                = Truncated(SliceOf("control_measurement_x"), Bits(enable))
    BY <1>2, FieldChanges DEF Changes, After
<1> HIDE DEF x
<1>4. /\ Changes(x, t, {"control_measurement_y"})
      /\ Fine(t) /\ On(x) => Settings(t.regs)["control_measurement_y"]
                                = Truncated(SliceOf("control_measurement_y"), Bits(enable))
    BY <1>2, <1>3, FieldChanges
<1> HIDE DEF t
<1>5. Changes(s, t, {"control_measurement_x"} \cup {"control_measurement_y"})
    BY <1>3, <1>4, ChangesAdd
<1>6. {"control_measurement_x"} \cup {"control_measurement_y"}
        = {"control_measurement_x", "control_measurement_y"}
    OBVIOUS
<1>7. Fine(t) /\ On(s) => Fine(x) /\ On(x)
    BY <1>3, <1>4 DEF Changes, After
<1>8. Fine(t) /\ On(s) => Settings(t.regs)["control_measurement_x"] = Settings(x.regs)["control_measurement_x"]
    BY <1>2, <1>4, <1>7, StaysHeld
<1> QED
    BY <1>1, <1>3, <1>4, <1>5, <1>6, <1>7, <1>8

PresetNames == {"data_rate", "rep_XY", "rep_Z"}

LEMMA PresetChanges ==
    ASSUME NEW s, UnderWay(s), NEW preset \in LOWPOWER..ENHANCED
    PROVE  /\ Changes(s, set_presetmode(s, preset), PresetNames)
           /\ Kept(s, set_presetmode(s, preset), {76, 81, 82})
           /\ Fine(set_presetmode(s, preset)) /\ On(s)
                => \A n \in PresetNames :
                      Settings(set_presetmode(s, preset).regs)[n] = Bits(Presets[preset][n])
<1> DEFINE p == Presets[preset]
           d == set_mag_field(s, "data_rate", Bits(p.data_rate))
           x == set_mag_field(d, "rep_XY", Bits(p.rep_XY))
           t == set_mag_field(x, "rep_Z", Bits(p.rep_Z))
<1>1. set_presetmode(s, preset) = t
    BY DEF set_presetmode
<1>2. /\ "data_rate" \in FieldNames /\ "rep_XY" \in FieldNames /\ "rep_Z" \in FieldNames
      /\ "data_rate" \in SliceNames \ {"rep_XY"} /\ "data_rate" \in SliceNames \ {"rep_Z"}
      /\ "rep_XY" \in SliceNames \ {"rep_Z"}
    BY DEF FieldNames, SliceNames
<1>3. /\ Truncated(SliceOf("data_rate"), Bits(p.data_rate)) = Bits(p.data_rate)
      /\ Truncated(SliceOf("rep_XY"), Bits(p.rep_XY)) = Bits(p.rep_XY)
      /\ Truncated(SliceOf("rep_Z"), Bits(p.rep_Z)) = Bits(p.rep_Z)
    BY PresetsFit
<1>4. MagFields["data_rate"].reg = 76 /\ MagFields["rep_XY"].reg = 81 /\ MagFields["rep_Z"].reg = 82
    BY <1>2, FieldsNamed, SlicesAre
<1>5. 75 \notin {76} /\ 75 \notin {81} /\ 75 \notin {82} /\ PowerReg = 75
    BY DEF PowerReg
<1> HIDE DEF p
<1>6. /\ Changes(s, d, {"data_rate"}) /\ UnderWay(d) /\ Kept(s, d, {76})
      /\ Fine(d) /\ On(s) => Settings(d.regs)["data_rate"] = Bits(p.data_rate)
  <2>1. Setting(s, d, {76}, "data_rate", Truncated(MagFields["data_rate"], Bits(p.data_rate)))
      BY <1>2, <1>4, FieldSet
  <2> QED
      BY <1>2, <1>3, <1>5, <2>1, FieldChanges DEF Setting, After
<1> HIDE DEF d
<1>7. /\ Changes(d, x, {"rep_XY"}) /\ UnderWay(x) /\ Kept(d, x, {81})
      /\ Fine(x) /\ On(d) => Settings(x.regs)["rep_XY"] = Bits(p.rep_XY)
  <2>1. Setting(d, x, {81}, "rep_XY", Truncated(MagFields["rep_XY"], Bits(p.rep_XY)))
      BY <1>2, <1>4, <1>6, FieldSet
  <2> QED
      BY <1>2, <1>3, <1>5, <1>6, <2>1, FieldChanges DEF Setting, After
<1> HIDE DEF x
<1>8. /\ Changes(x, t, {"rep_Z"}) /\ UnderWay(t) /\ Kept(x, t, {82})
      /\ Fine(t) /\ On(x) => Settings(t.regs)["rep_Z"] = Bits(p.rep_Z)
  <2>1. Setting(x, t, {82}, "rep_Z", Truncated(MagFields["rep_Z"], Bits(p.rep_Z)))
      BY <1>2, <1>4, <1>7, FieldSet
  <2> QED
      BY <1>2, <1>3, <1>5, <1>7, <2>1, FieldChanges DEF Setting, After
<1> HIDE DEF t
<1>9. Changes(s, t, PresetNames)
  <2>1. Changes(s, t, ({"data_rate"} \cup {"rep_XY"}) \cup {"rep_Z"})
      BY <1>6, <1>7, <1>8, ChangesAdd
  <2>2. ({"data_rate"} \cup {"rep_XY"}) \cup {"rep_Z"} = PresetNames
      BY DEF PresetNames
  <2> QED
      BY <2>1, <2>2
<1>10. Kept(s, t, {76, 81, 82})
    BY <1>6, <1>7, <1>8 DEF Kept
<1>11. ASSUME Fine(t), On(s)
       PROVE  /\ Settings(t.regs)["data_rate"] = Bits(p.data_rate)
              /\ Settings(t.regs)["rep_XY"] = Bits(p.rep_XY)
              /\ Settings(t.regs)["rep_Z"] = Bits(p.rep_Z)
  <2>1. Fine(x) /\ Fine(d)
      BY <1>7, <1>8, <1>11 DEF Changes, After
  <2>2. On(d) /\ On(x)
      BY <1>6, <1>7, <1>11, <2>1 DEF Changes
  <2>3. Settings(t.regs)["data_rate"] = Settings(x.regs)["data_rate"]
      BY <1>2, <1>8, <1>11, <2>2, StaysHeld
  <2>4. Settings(x.regs)["data_rate"] = Settings(d.regs)["data_rate"]
      BY <1>2, <1>7, <2>1, <2>2, StaysHeld
  <2>5. Settings(t.regs)["rep_XY"] = Settings(x.regs)["rep_XY"]
      BY <1>2, <1>8, <1>11, <2>2, StaysHeld
  <2> QED
      BY <1>6, <1>7, <1>8, <1>11, <2>1, <2>2, <2>3, <2>4, <2>5
<1>12. ASSUME Fine(t), On(s), NEW n \in PresetNames
       PROVE  Settings(t.regs)[n] = Bits(Presets[preset][n])
    BY <1>11, <1>12 DEF PresetNames, p
<1> QED
    BY <1>1, <1>9, <1>10, <1>12

-----------------------------------------------------------------------------
(***************************************************************************)
(* Bmm050: what is known of the settings and of the functional state       *)
(***************************************************************************)

\* The chip itself ends a self test, so that its bit is never known.
Learnable == FieldNames \ {"selftest"}
Knows(regs, known_) == \A k \in known_ : k[1] \in Learnable /\ Settings(regs)[k[1]] = k[2]

StateIn(regs, mode) ==
    mode # -1 =>
        IF mode = SUSPEND_MODE THEN ~Powered(regs)
        ELSE /\ Powered(regs)
             /\ \/ Settings(regs)["mode"] = Bits(mode)
                \/ mode = FORCED_MODE /\ Settings(regs)["mode"] = Bits(SLEEP_MODE)

MagInv ==
    /\ Regs(magRegs)
    /\ Knows(magRegs, magKnown)
    /\ ~Powered(magRegs) => magKnown = {}
    /\ wanted \in {-1} \cup (NORMAL_MODE..SLEEP_MODE)
    /\ ~magAttached => wanted = -1
    /\ StateIn(magRegs, wanted)

LEMMA MagInvImplies == MagInv => MagKept /\ MagInState
<1> SUFFICES ASSUME MagInv PROVE MagKept /\ MagInState
    OBVIOUS
<1>1. ASSUME NEW k \in magKnown
      PROVE  MagGet(k[1]) = k[2]
  <2>1. k[1] \in FieldNames /\ Settings(magRegs)[k[1]] = k[2]
      BY DEF MagInv, Knows, Learnable
  <2>2. k[1] \in SliceNames /\ SliceOf(k[1]) = MagFields[k[1]]
      BY <2>1, FieldsNamed
  <2> QED
      BY <2>1, <2>2 DEF Settings, MagGet
<1>2. MagInState
  <2>1. Settings(magRegs)["mode"] = GetBitslice(magRegs[\h4C], OPERATION_MODE)
    <3>1. "mode" \in SliceNames /\ SliceOf("mode") = OPERATION_MODE /\ OPERATION_MODE.reg = \h4C
        BY FieldsNamed DEF OPERATION_MODE, MagField
    <3> QED
        BY <3>1 DEF Settings
  <2> QED
      BY <2>1 DEF MagInv, StateIn, MagInState
<1> QED
    BY <1>1, <1>2 DEF MagKept

LEMMA Begun ==
    ASSUME MagInv, NEW miss, NEW content
    PROVE  /\ UnderWay(Begin(miss, content)) /\ Fine(Begin(miss, content))
           /\ Begin(miss, content).regs = magRegs
           /\ On(Begin(miss, content)) <=> Powered(magRegs)
BY DEF MagInv, Begin, UnderWay, Fine, On

\* What a call teaches is so, and what was known and is kept is still so.
LEMMA Learned ==
    ASSUME MagInv, NEW s, NEW t, NEW regs, NEW set, s.regs = magRegs, After(s, t),
           magRegs' = t.regs, Learn(t, regs, set),
           PowerReg \notin regs => Kept(s, t, regs),
           Fine(t) /\ On(t) => Knows(t.regs, set),
           Fine(t) /\ On(t) /\ On(s)
             => \A k \in magKnown : k[1] \notin {f[1] : f \in set}
                                    => Settings(t.regs)[k[1]] = Settings(s.regs)[k[1]]
    PROVE  Knows(magRegs', magKnown') /\ (~Powered(magRegs') => magKnown' = {})
<1>1. t.failed \in Nat /\ (Fine(t) <=> ~(t.failed > 0))
    BY DEF After, UnderWay, Fine
<1>2. CASE magKnown' = {}
    BY <1>2 DEF Knows
<1>3. CASE ~Fine(t) /\ magKnown' # {}
  <2>1. /\ PowerReg \notin regs
        /\ magKnown' = {k \in magKnown : MagFields[k[1]].reg \notin regs}
        /\ Powered(t.regs)
      BY <1>1, <1>3 DEF Learn
  <2>2. ASSUME NEW k \in magKnown, MagFields[k[1]].reg \notin regs
        PROVE  k[1] \in Learnable /\ Settings(t.regs)[k[1]] = k[2]
    <3>1. k[1] \in Learnable /\ Settings(magRegs)[k[1]] = k[2]
        BY DEF MagInv, Knows
    <3>2. k[1] \in SliceNames /\ SliceOf(k[1]).reg \in MagRegisters \ regs
        BY <2>2, <3>1, FieldsNamed, SlicesPlaced DEF Learnable
    <3>3. Settings(t.regs)[k[1]] = Settings(magRegs)[k[1]]
        BY <2>1, <3>2 DEF Settings, Kept
    <3> QED
        BY <3>1, <3>3
  <2> QED
      BY <2>1, <2>2 DEF Knows
<1>4. CASE Fine(t) /\ magKnown' # {}
  <2>1. /\ magKnown' = {k \in magKnown : k[1] \notin {f[1] : f \in set}} \cup set
        /\ Powered(t.regs)
      BY <1>1, <1>4 DEF Learn
  <2>2. ASSUME NEW k \in magKnown, k[1] \notin {f[1] : f \in set}
        PROVE  k[1] \in Learnable /\ Settings(t.regs)[k[1]] = k[2]
    <3>1. k[1] \in Learnable /\ Settings(magRegs)[k[1]] = k[2] /\ Powered(magRegs)
        BY DEF MagInv, Knows
    <3> QED
        BY <1>4, <2>1, <2>2, <3>1 DEF On
  <2>3. \A k \in set : k[1] \in Learnable /\ Settings(t.regs)[k[1]] = k[2]
      BY <1>4, <2>1 DEF Knows, On
  <2>4. \A k \in magKnown' : k[1] \in Learnable /\ Settings(t.regs)[k[1]] = k[2]
      BY <2>1, <2>2, <2>3
  <2> QED
      BY <2>1, <2>4 DEF Knows
<1> QED
    BY <1>2, <1>3, <1>4

LEMMA Wanted ==
    ASSUME NEW t, UnderWay(t), NEW regs, NEW mode, magRegs' = t.regs, Want(t, regs, mode),
           Fine(t) \/ {PowerReg, \h4C} \cap regs = {} => StateIn(t.regs, mode)
    PROVE  StateIn(magRegs', wanted') /\ wanted' \in {-1, mode}
<1>1. t.failed \in Nat /\ (Fine(t) <=> ~(t.failed > 0))
    BY DEF UnderWay, Fine
<1> QED
    BY <1>1 DEF Want, StateIn

LEMMA StateStays ==
    ASSUME NEW s, NEW t, NEW mode, StateIn(s.regs, mode), On(t) <=> On(s),
           On(s) => Settings(t.regs)["mode"] = Settings(s.regs)["mode"]
    PROVE  StateIn(t.regs, mode)
BY DEF StateIn, On

\* The parts of the invariant after a call.
LEMMA CallEnds ==
    ASSUME NEW t, UnderWay(t), magRegs' = t.regs, magAttached',
           wanted' \in {-1} \cup (NORMAL_MODE..SLEEP_MODE),
           Knows(magRegs', magKnown'), ~Powered(magRegs') => magKnown' = {},
           StateIn(magRegs', wanted')
    PROVE  MagInv'
BY DEF MagInv, UnderWay

\* How a call that leads from s to t ends, and what makes that keep the
\* invariant.
Ends(t, regs, set, spoilt, mode) ==
    magRegs' = t.regs /\ Learn(t, regs, set) /\ Want(t, spoilt, mode)

LEMMA CallKeeps ==
    ASSUME MagInv, magAttached', NEW s, NEW t, NEW regs, NEW set, NEW spoilt,
           NEW mode \in {-1} \cup (NORMAL_MODE..SLEEP_MODE),
           s.regs = magRegs, After(s, t), Ends(t, regs, set, spoilt, mode),
           PowerReg \notin regs => Kept(s, t, regs),
           Fine(t) /\ On(t) => Knows(t.regs, set),
           Fine(t) /\ On(t) /\ On(s)
             => \A k \in magKnown : k[1] \notin {f[1] : f \in set}
                                    => Settings(t.regs)[k[1]] = Settings(s.regs)[k[1]],
           Fine(t) \/ {PowerReg, \h4C} \cap spoilt = {} => StateIn(t.regs, mode)
    PROVE  MagInv'
<1>1. magRegs' = t.regs /\ Learn(t, regs, set) /\ Want(t, spoilt, mode) /\ UnderWay(t)
    BY DEF Ends, After
<1>2. Knows(magRegs', magKnown') /\ (~Powered(magRegs') => magKnown' = {})
    BY <1>1, Learned
<1>3. StateIn(magRegs', wanted') /\ wanted' \in {-1, mode}
    BY <1>1, Wanted
<1>4. wanted' \in {-1} \cup (NORMAL_MODE..SLEEP_MODE)
    BY <1>3
<1> QED
    BY <1>1, <1>2, <1>3, <1>4, CallEnds

\* What the invariant says of the names that are known.
LEMMA KnownNames ==
    ASSUME MagInv, NEW k \in magKnown
    PROVE  k[1] \in FieldNames /\ k[1] \in SliceNames /\ k[1] # "mode" /\ k[1] # "selftest"
BY FieldsNamed DEF MagInv, Knows, Learnable

LEMMA SetMagFieldKeeps == ASSUME MagInv, SetMagField PROVE MagInv'
<1>0. PICK n \in DOMAIN MagFields, argument \in MagArguments, miss \in Miss,
           content \in MagContents :
          Ends(set_mag_field(Begin(miss, content), n, Bits(argument)), {MagFields[n].reg},
               IF n = "selftest" THEN {} ELSE {<<n, Truncated(MagFields[n], Bits(argument))>>},
               {MagFields[n].reg}, wanted)
  <2>1. PICK n \in DOMAIN MagFields, argument \in MagArguments, miss \in Miss,
             content \in MagContents :
          LET value_ == Bits(argument)
              s_ == set_mag_field(Begin(miss, content), n, value_)
              regs_ == {MagFields[n].reg}
          IN  /\ Finish(s_, -s_.failed)
              /\ Learn(s_, regs_, IF n = "selftest" THEN {}
                                ELSE {<<n, Truncated(MagFields[n], value_)>>})
              /\ Want(s_, regs_, wanted)
      BY DEF SetMagField
  <2> QED
      BY <2>1 DEF Finish, Ends
<1>1. n \in FieldNames
    BY FieldsNamed
<1> DEFINE s == Begin(miss, content)
           bits == Bits(argument)
           t == set_mag_field(s, n, bits)
           regs == {MagFields[n].reg}
           set == IF n = "selftest" THEN {} ELSE {<<n, Truncated(MagFields[n], bits)>>}
<1>2. magAttached'
    BY DEF SetMagField, MayCall
<1>3. UnderWay(s) /\ s.regs = magRegs
    BY Begun
<1>4. Ends(t, regs, set, regs, wanted)
    BY <1>0
<1> HIDE DEF s, bits
<1>5. /\ Setting(s, t, regs, n, Truncated(MagFields[n], bits))
      /\ n \in SliceNames /\ SliceOf(n) = MagFields[n] /\ n # "mode"
    BY <1>1, <1>3, FieldSet, FieldsNamed
<1> HIDE DEF t
<1>6. /\ After(s, t)
      /\ PowerReg \notin regs => Kept(s, t, regs)
      /\ Fine(t) => (On(t) <=> On(s))
    BY <1>5 DEF Setting
<1>7. /\ Changes(s, t, {n})
      /\ Fine(t) /\ On(s) => Settings(t.regs)[n] = Truncated(MagFields[n], bits)
    BY <1>5, SettingChanges
<1>8. Fine(t) /\ On(t) => Knows(t.regs, set)
  <2>1. CASE n = "selftest"
      BY <2>1 DEF Knows
  <2>2. CASE n # "selftest"
    <3>1. set = {<<n, Truncated(MagFields[n], bits)>>} /\ n \in Learnable
        BY <1>1, <2>2 DEF Learnable
    <3>2. <<n, Truncated(MagFields[n], bits)>>[1] = n
          /\ <<n, Truncated(MagFields[n], bits)>>[2] = Truncated(MagFields[n], bits)
        OBVIOUS
    <3> QED
        BY <1>6, <1>7, <3>1, <3>2 DEF Knows
  <2> QED
      BY <2>1, <2>2
<1>9. Fine(t) /\ On(t) /\ On(s)
        => \A k \in magKnown : k[1] \notin {f[1] : f \in set}
                               => Settings(t.regs)[k[1]] = Settings(s.regs)[k[1]]
  <2> SUFFICES ASSUME Fine(t), On(s), NEW k \in magKnown, k[1] \notin {f[1] : f \in set}
               PROVE  Settings(t.regs)[k[1]] = Settings(s.regs)[k[1]]
      OBVIOUS
  <2>1. k[1] \in SliceNames /\ k[1] # "selftest"
      BY KnownNames
  <2>2. k[1] # n
    <3>1. CASE n = "selftest"
        BY <2>1, <3>1
    <3>2. CASE n # "selftest"
        BY <3>2
    <3> QED
        BY <3>1, <3>2
  <2> QED
      BY <1>7, <2>1, <2>2, StaysHeld
<1>10. Fine(t) \/ {PowerReg, \h4C} \cap regs = {} => StateIn(t.regs, wanted)
  <2>1. StateIn(s.regs, wanted)
      BY <1>3 DEF MagInv
  <2>2. CASE Fine(t)
    <3>1. On(s) => Settings(t.regs)["mode"] = Settings(s.regs)["mode"]
        BY <1>5, <1>7, <2>2, FieldsNamed, StaysHeld
    <3> QED
        BY <1>6, <2>1, <2>2, <3>1, StateStays
  <2>3. CASE {PowerReg, \h4C} \cap regs = {}
    <3>1. Kept(s, t, regs) /\ PowerReg \in MagRegisters \ regs /\ \h4C \in MagRegisters \ regs
        BY <1>6, <2>3 DEF MagRegisters
    <3>2. On(t) <=> On(s)
        BY <3>1 DEF Kept, On, Powered
    <3>3. Settings(t.regs)["mode"] = Settings(s.regs)["mode"]
      <4>1. "mode" \in SliceNames /\ SliceOf("mode").reg = \h4C
          BY FieldsNamed, SlicesAre
      <4> QED
          BY <3>1, <4>1 DEF Kept, Settings
    <3> QED
        BY <2>1, <3>2, <3>3, StateStays
  <2> QED
      BY <2>2, <2>3
<1>11. wanted \in {-1} \cup (NORMAL_MODE..SLEEP_MODE)
    BY DEF MagInv
<1> HIDE DEF set, regs
<1> QED
    BY <1>2, <1>3, <1>4, <1>6, <1>8, <1>9, <1>10, <1>11, CallKeeps

\* The settings that a preset makes.
Preset(preset) == {<<n, Bits(Presets[preset][n])>> : n \in PresetNames}

LEMMA PresetKnown ==
    ASSUME NEW regs, NEW preset,
           \A n \in PresetNames : Settings(regs)[n] = Bits(Presets[preset][n])
    PROVE  Knows(regs, Preset(preset))
<1>1. PresetNames \subseteq Learnable
    BY DEF PresetNames, Learnable, FieldNames
<1>2. ASSUME NEW k \in Preset(preset)
      PROVE  k[1] \in Learnable /\ Settings(regs)[k[1]] = k[2]
  <2>1. PICK n \in PresetNames : k = <<n, Bits(Presets[preset][n])>>
      BY <1>2 DEF Preset
  <2>2. k[1] = n /\ k[2] = Bits(Presets[preset][n])
      BY <2>1
  <2> QED
      BY <1>1, <2>2
<1> QED
    BY <1>2 DEF Knows

LEMMA PresetNamed ==
    ASSUME NEW preset, NEW n, n \notin {f[1] : f \in Preset(preset)}
    PROVE  n \notin PresetNames
<1> SUFFICES ASSUME n \in PresetNames PROVE FALSE
    OBVIOUS
<1>1. <<n, Bits(Presets[preset][n])>> \in Preset(preset)
    BY DEF Preset
<1>2. <<n, Bits(Presets[preset][n])>>[1] = n
    OBVIOUS
<1> QED
    BY <1>1, <1>2

LEMMA SetPresetKeeps == ASSUME MagInv, SetPreset PROVE MagInv'
<1>1. PICK preset \in LOWPOWER..ENHANCED, miss \in Miss, content \in MagContents :
          Ends(set_presetmode(Begin(miss, content), preset), {\h4C, \h51, \h52},
               Preset(preset), {\h4C}, wanted)
    BY DEF SetPreset, Finish, Ends, Preset, PresetNames
<1> DEFINE s == Begin(miss, content)
           t == set_presetmode(s, preset)
           regs == {\h4C, \h51, \h52}
<1>2. magAttached'
    BY DEF SetPreset, MayCall
<1>3. UnderWay(s) /\ s.regs = magRegs
    BY Begun
<1>4. Ends(t, regs, Preset(preset), {\h4C}, wanted)
    BY <1>1
<1> HIDE DEF s
<1>5. /\ Changes(s, t, PresetNames) /\ Kept(s, t, regs)
      /\ Fine(t) /\ On(s) => \A n \in PresetNames : Settings(t.regs)[n] = Bits(Presets[preset][n])
    BY <1>3, PresetChanges
<1> HIDE DEF t
<1>6. On(t) <=> On(s)
  <2>1. PowerReg \in MagRegisters \ regs
      BY DEF MagRegisters, PowerReg
  <2> QED
      BY <1>5, <2>1 DEF Kept, On, Powered
<1> HIDE DEF regs
<1>7. Fine(t) /\ On(t) => Knows(t.regs, Preset(preset))
    BY <1>5, <1>6, PresetKnown
<1>8. Fine(t) /\ On(t) /\ On(s)
        => \A k \in magKnown : k[1] \notin {f[1] : f \in Preset(preset)}
                               => Settings(t.regs)[k[1]] = Settings(s.regs)[k[1]]
  <2> SUFFICES ASSUME Fine(t), On(s), NEW k \in magKnown,
                      k[1] \notin {f[1] : f \in Preset(preset)}
               PROVE  Settings(t.regs)[k[1]] = Settings(s.regs)[k[1]]
      OBVIOUS
  <2>1. k[1] \in SliceNames \ PresetNames
      BY KnownNames, PresetNamed
  <2> QED
      BY <1>5, <2>1, StaysHeld
<1>9. Fine(t) \/ {PowerReg, \h4C} \cap {\h4C} = {} => StateIn(t.regs, wanted)
  <2>1. StateIn(s.regs, wanted)
      BY <1>3 DEF MagInv
  <2>2. {PowerReg, \h4C} \cap {\h4C} # {}
      OBVIOUS
  <2>3. ASSUME Fine(t), On(s)
        PROVE  Settings(t.regs)["mode"] = Settings(s.regs)["mode"]
    <3>1. "mode" \in SliceNames \ PresetNames
        BY FieldsNamed DEF PresetNames
    <3> QED
        BY <1>5, <2>3, <3>1, StaysHeld
  <2> QED
      BY <1>6, <2>1, <2>2, <2>3, StateStays
<1>10. wanted \in {-1} \cup (NORMAL_MODE..SLEEP_MODE)
    BY DEF MagInv
<1>11. After(s, t)
    BY <1>5 DEF Changes
<1> QED
    BY <1>2, <1>3, <1>4, <1>5, <1>7, <1>8, <1>9, <1>10, <1>11, CallKeeps

LEMMA SetFunctionalStateKeeps == ASSUME MagInv, SetFunctionalState PROVE MagInv'
<1>1. PICK mode \in NORMAL_MODE..SLEEP_MODE, miss \in Miss, content \in MagContents :
          Ends(set_functional_state(Begin(miss, content), mode), {PowerReg, \h4C}, {},
               {PowerReg}, mode)
    BY DEF SetFunctionalState, Finish, Ends
<1> DEFINE s == Begin(miss, content)
           t == set_functional_state(s, mode)
<1>2. magAttached'
    BY DEF SetFunctionalState, MayCall
<1>3. UnderWay(s) /\ s.regs = magRegs
    BY Begun
<1>4. Ends(t, {PowerReg, \h4C}, {}, {PowerReg}, mode)
    BY <1>1
<1> HIDE DEF s
<1>5. InMode(s, t, mode)
    BY <1>3, FunctionalState
<1> HIDE DEF t
<1>6. After(s, t)
    BY <1>5 DEF InMode
<1>7. Knows(t.regs, {})
    BY DEF Knows
<1>8. Fine(t) /\ On(t) /\ On(s)
        => \A k \in magKnown : k[1] \notin {f[1] : f \in {}}
                               => Settings(t.regs)[k[1]] = Settings(s.regs)[k[1]]
    BY <1>5, KnownNames DEF InMode
<1>9. Fine(t) => StateIn(t.regs, mode)
    BY <1>5 DEF InMode, StateIn, On
<1>10. {PowerReg, \h4C} \cap {PowerReg} # {} /\ PowerReg \in {PowerReg, \h4C}
    OBVIOUS
<1> QED
    BY <1>2, <1>3, <1>4, <1>6, <1>7, <1>8, <1>9, <1>10, CallKeeps

LEMMA SetMagPowerKeeps == ASSUME MagInv, SetMagPower PROVE MagInv'
<1> DEFINE Mode(on) == IF ~on THEN SUSPEND_MODE
                       ELSE IF wanted = SUSPEND_MODE THEN -1 ELSE wanted
<1>1. PICK on \in BOOLEAN, miss \in Miss, content \in MagContents :
          Ends(set_power_mode(Begin(miss, content), on), {PowerReg}, {}, {PowerReg}, Mode(on))
    BY DEF SetMagPower, Finish, Ends
<1> DEFINE s == Begin(miss, content)
           t == set_power_mode(s, on)
<1>2. magAttached'
    BY DEF SetMagPower, MayCall
<1>3. UnderWay(s) /\ s.regs = magRegs
    BY Begun
<1>4. {PowerReg, \h4C} \cap {PowerReg} # {} /\ PowerReg \in {PowerReg}
    OBVIOUS
<1>5. wanted \in {-1} \cup (NORMAL_MODE..SLEEP_MODE)
    BY DEF MagInv
<1>6. Knows(t.regs, {})
    BY DEF Knows
<1> HIDE DEF s
<1>7. CASE on = TRUE
  <2> DEFINE mode == IF wanted = SUSPEND_MODE THEN -1 ELSE wanted
             u == set_power_mode(s, TRUE)
  <2>1. t = u
      BY <1>7
  <2>2. Ends(u, {PowerReg}, {}, {PowerReg}, mode)
      BY <1>1, <1>7 DEF s
  <2>3. PowersOn(s, u)
      BY <1>3, PowerCalled
  <2> HIDE DEF u
  <2>4. Fine(u) /\ On(u) /\ On(s)
          => \A k \in magKnown : k[1] \notin {f[1] : f \in {}}
                                 => Settings(u.regs)[k[1]] = Settings(s.regs)[k[1]]
      BY <2>3 DEF PowersOn
  <2>5. Fine(u) => StateIn(u.regs, mode)
    <3>1. StateIn(s.regs, wanted)
        BY <1>3 DEF MagInv
    <3>2. Fine(u) /\ mode # -1 => On(s)
        BY <3>1 DEF StateIn, On
    <3>3. Fine(u) /\ mode # -1 => StateIn(u.regs, wanted)
      <4> SUFFICES ASSUME Fine(u), mode # -1 PROVE StateIn(u.regs, wanted)
          OBVIOUS
      <4>1. On(s) /\ On(u) /\ Settings(u.regs)["mode"] = Settings(s.regs)["mode"]
          BY <2>3, <3>2 DEF PowersOn
      <4> QED
          BY <3>1, <4>1, StateStays
    <3> QED
        BY <3>3 DEF StateIn
  <2>6. mode \in {-1} \cup (NORMAL_MODE..SLEEP_MODE)
      BY <1>5
  <2> HIDE DEF mode
  <2>7. After(s, u)
      BY <2>3 DEF PowersOn
  <2> QED
      BY <1>2, <1>3, <1>4, <1>6, <2>1, <2>2, <2>4, <2>5, <2>6, <2>7, CallKeeps
<1>8. CASE on = FALSE
  <2> DEFINE u == set_power_mode(s, FALSE)
  <2>1. t = u
      BY <1>8
  <2>2. Ends(u, {PowerReg}, {}, {PowerReg}, SUSPEND_MODE)
      BY <1>1, <1>8 DEF s
  <2>3. After(s, u) /\ (Fine(u) => ~On(u))
      BY <1>3, PowerCalled
  <2> HIDE DEF u
  <2>4. Fine(u) => StateIn(u.regs, SUSPEND_MODE)
      BY <2>3 DEF StateIn, On
  <2>5. SUSPEND_MODE \in {-1} \cup (NORMAL_MODE..SLEEP_MODE)
      BY DEF SUSPEND_MODE, NORMAL_MODE, SLEEP_MODE
  <2>6. Fine(u) /\ On(u) /\ On(s)
          => \A k \in magKnown : k[1] \notin {f[1] : f \in {}}
                                 => Settings(u.regs)[k[1]] = Settings(s.regs)[k[1]]
      BY <2>3
  <2> QED
      BY <1>2, <1>3, <1>4, <1>6, <2>1, <2>2, <2>3, <2>4, <2>5, <2>6, CallKeeps
<1> QED
    BY <1>7, <1>8

\* Nothing is known after a reset.
LEMMA SoftResetKeeps == ASSUME MagInv, SoftReset PROVE MagInv'
<1>1. PICK miss \in Miss, content \in MagContents :
          LET s0 == Begin(miss, content)
              byte == SetBitslice(ReadByte(s0, PowerReg, {0}), SOFT_RST_7, {0})
              t == UpdateField(UpdateField(s0, SOFT_RST_7, {0}, {0}), SOFT_RST_1, {0}, byte)
          IN  magRegs' = t.regs /\ magKnown' = {} /\ wanted' = -1
    BY DEF SoftReset, Finish
<1> DEFINE s == Begin(miss, content)
           byte == SetBitslice(ReadByte(s, PowerReg, {0}), SOFT_RST_7, {0})
           u == UpdateField(s, SOFT_RST_7, {0}, {0})
           t == UpdateField(u, SOFT_RST_1, {0}, byte)
<1>2. magRegs' = t.regs /\ magKnown' = {} /\ wanted' = -1
    BY <1>1
<1>3. SOFT_RST_7.reg \in MagRegisters /\ SOFT_RST_1.reg \in MagRegisters
    BY DEF SOFT_RST_7, SOFT_RST_1, MagField, MagRegisters
<1>4. UnderWay(s)
    BY Begun
<1> HIDE DEF s, byte
<1>5. UnderWay(u)
  <2>1. \E any : Writes(Transfer(s), u, SOFT_RST_7.reg, any)
      BY <1>3, <1>4, UpdateAfter
  <2> QED
      BY <2>1 DEF Writes, After
<1> HIDE DEF u
<1>6. UnderWay(t)
  <2>1. \E any : Writes(Transfer(u), t, SOFT_RST_1.reg, any)
      BY <1>3, <1>5, UpdateAfter
  <2> QED
      BY <2>1 DEF Writes, After
<1> HIDE DEF t
<1>7. magAttached'
    BY DEF SoftReset, MayCall
<1>8. Knows(magRegs', magKnown') /\ StateIn(magRegs', wanted')
    BY <1>2 DEF Knows, StateIn
<1>9. wanted' \in {-1} \cup (NORMAL_MODE..SLEEP_MODE)
    BY <1>2
<1> QED
    BY <1>2, <1>6, <1>7, <1>8, <1>9, CallEnds

\* A step that leaves the chip alone.
LEMMA QuietKeeps ==
    ASSUME MagInv, UNCHANGED <<magAttached, magRegs, magKnown, wanted>>
    PROVE  MagInv'
BY DEF MagInv, Regs, Knows, StateIn, Powered, Settings

LEMMA ReadsKeep == ASSUME MagInv, RejectMag \/ GetMag \/ GetPreset \/ MagNotAttached PROVE MagInv'
<1>1. CASE RejectMag
  <2>1. magRegs' = magRegs
      BY <1>1 DEF RejectMag, Finish, Begin
  <2> QED
      BY <1>1, <2>1, QuietKeeps DEF RejectMag
<1>2. CASE GetMag
  <2>1. PICK miss \in Miss : magRegs' = Transfer(Begin(miss, {})).regs
      BY <1>2 DEF GetMag, Finish
  <2>2. UnderWay(Begin(miss, {})) /\ Begin(miss, {}).regs = magRegs
      BY Begun
  <2>3. magRegs' = magRegs
      BY <2>1, <2>2, TransferAfter
  <2> QED
      BY <1>2, <2>3, QuietKeeps DEF GetMag
<1>3. CASE GetPreset
  <2>1. PICK miss \in Miss : magRegs' = get_presetmode(Begin(miss, {})).regs
      BY <1>3 DEF GetPreset, Finish
  <2> DEFINE s == Begin(miss, {})
  <2>2. UnderWay(s) /\ s.regs = magRegs
      BY Begun
  <2> HIDE DEF s
  <2>3. \A c : UnderWay(c) => UnderWay(Transfer(c)) /\ Transfer(c).regs = c.regs
      BY TransferAfter DEF After
  <2>4. /\ UnderWay(Transfer(s)) /\ Transfer(s).regs = magRegs
        /\ UnderWay(Transfer(Transfer(s))) /\ Transfer(Transfer(s)).regs = magRegs
      BY Zenon, <2>2, <2>3
  <2>5. get_presetmode(s).regs = magRegs
      BY Zenon, <2>3, <2>4 DEF get_presetmode
  <2>6. magRegs' = magRegs
      BY <2>1, <2>5 DEF s
  <2> QED
      BY <1>3, <2>6, QuietKeeps DEF GetPreset
<1>4. CASE MagNotAttached
    BY <1>4, QuietKeeps DEF MagNotAttached
<1> QED
    BY <1>1, <1>2, <1>3, <1>4

LEMMA ChangesMore ==
    ASSUME NEW s, NEW t, NEW names, NEW more, Changes(s, t, names), names \subseteq more
    PROVE  Changes(s, t, more)
BY DEF Changes

\* What the self test may change, and what it leaves.
TestNames == {"mode", "rep_Z", "advanced_selftest", "control_measurement_x",
              "control_measurement_y"}
TestSettings == {<<"rep_Z", Bits(2)>>, <<"advanced_selftest", {}>>,
                 <<"control_measurement_x", {}>>, <<"control_measurement_y", {}>>}

LEMMA TestRuns ==
    ASSUME NEW s, UnderWay(s), NEW s1, NEW z, NEW s2, NEW h, NEW s3, NEW a, NEW t,
           s1 = set_functional_state(s, SLEEP_MODE),
           z = set_mag_field(s1, "rep_Z", Bits(2)),
           s2 = Channels(z, 1),
           h = Shot(s2, 3),
           s3 = Shot(h, 2),
           a = set_mag_field(s3, "advanced_selftest", {}),
           t = Channels(a, 0)
    PROVE  /\ Changes(s, t, TestNames)
           /\ Fine(t) => /\ On(t)
                         /\ Settings(t.regs)["mode"] = Bits(FORCED_MODE)
                         /\ Settings(t.regs)["rep_Z"] = Bits(2)
                         /\ Settings(t.regs)["advanced_selftest"] = {}
                         /\ Settings(t.regs)["control_measurement_x"] = {}
                         /\ Settings(t.regs)["control_measurement_y"] = {}
<1>1. /\ Changes(s, s1, {"mode"}) /\ UnderWay(s1)
      /\ Fine(s1) => On(s1)
    BY StateChanges DEF Changes, After
<1>2. "rep_Z" \in FieldNames /\ "advanced_selftest" \in FieldNames
    BY DEF FieldNames
<1>3. /\ Truncated(SliceOf("rep_Z"), Bits(2)) = Bits(2)
      /\ \A f : Truncated(f, {}) = {}
      /\ Bits(0) = {}
  <2>1. \A f : Truncated(f, {}) = {}
      BY DEF Truncated
  <2>2. Bits(2) = {1} /\ SliceOf("rep_Z").len = 8 /\ Bits(0) = {}
      BY BitsFit, SlicesAre
  <2>3. 1 \in 0..(8 - 1)
      OBVIOUS
  <2>4. Truncated(SliceOf("rep_Z"), Bits(2)) = Bits(2)
      BY <2>2, <2>3 DEF Truncated
  <2> QED
      BY <2>1, <2>2, <2>4
<1>4. /\ Changes(s1, z, {"rep_Z"}) /\ UnderWay(z)
      /\ Fine(z) /\ On(s1) => Settings(z.regs)["rep_Z"] = Bits(2)
    BY <1>1, <1>2, <1>3, FieldChanges DEF Changes, After
<1>5. Changes(z, s2, {"control_measurement_x", "control_measurement_y"}) /\ UnderWay(s2)
    BY <1>4, ChannelsChange DEF Changes, After
<1>6. Changes(s2, h, {"advanced_selftest", "mode"}) /\ UnderWay(h)
    BY <1>5, ShotChanges DEF Changes, After
<1>7. /\ Changes(h, s3, {"advanced_selftest", "mode"}) /\ UnderWay(s3)
      /\ Fine(s3) => Settings(s3.regs)["mode"] = Bits(FORCED_MODE)
    BY <1>6, ShotChanges DEF Changes, After
<1>8. /\ Changes(s3, a, {"advanced_selftest"}) /\ UnderWay(a)
      /\ Fine(a) /\ On(s3) => Settings(a.regs)["advanced_selftest"] = {}
    BY <1>2, <1>3, <1>7, FieldChanges DEF Changes, After
<1>9. /\ Changes(a, t, {"control_measurement_x", "control_measurement_y"})
      /\ Fine(t) /\ On(a) => /\ Settings(t.regs)["control_measurement_x"] = {}
                             /\ Settings(t.regs)["control_measurement_y"] = {}
    BY <1>3, <1>8, ChannelsChange
<1> DEFINE switched == {"mode", "advanced_selftest", "control_measurement_x",
                        "control_measurement_y"}
<1>10. Changes(z, s3, switched)
  <2>1. Changes(z, s2, switched) /\ Changes(s2, h, switched) /\ Changes(h, s3, switched)
      BY <1>5, <1>6, <1>7, ChangesMore
  <2> HIDE DEF switched
  <2>2. switched \cup switched = switched
      OBVIOUS
  <2>3. Changes(z, h, switched)
      BY <2>1, <2>2, ChangesAdd
  <2> QED
      BY <2>1, <2>2, <2>3, ChangesAdd
<1>11. Changes(s3, t, {"advanced_selftest", "control_measurement_x", "control_measurement_y"})
  <2>1. Changes(s3, t, {"advanced_selftest"}
                          \cup {"control_measurement_x", "control_measurement_y"})
      BY <1>8, <1>9, ChangesAdd
  <2>2. {"advanced_selftest"} \cup {"control_measurement_x", "control_measurement_y"}
          = {"advanced_selftest", "control_measurement_x", "control_measurement_y"}
      OBVIOUS
  <2> QED
      BY <2>1, <2>2
<1>12. Changes(z, t, switched)
  <2>1. Changes(s3, t, switched)
      BY <1>11, ChangesMore
  <2> HIDE DEF switched
  <2>2. switched \cup switched = switched
      OBVIOUS
  <2> QED
      BY <1>10, <2>1, <2>2, ChangesAdd
<1>13. Changes(s, t, TestNames)
  <2>1. Changes(s, s1, TestNames) /\ Changes(s1, z, TestNames) /\ Changes(z, t, TestNames)
      BY <1>1, <1>4, <1>12, ChangesMore DEF TestNames
  <2>2. TestNames \cup TestNames = TestNames
      OBVIOUS
  <2>3. Changes(s, z, TestNames)
      BY <2>1, <2>2, ChangesAdd
  <2> QED
      BY <2>1, <2>2, <2>3, ChangesAdd
<1>14. ASSUME Fine(t)
       PROVE  /\ On(t)
              /\ Settings(t.regs)["mode"] = Bits(FORCED_MODE)
              /\ Settings(t.regs)["rep_Z"] = Bits(2)
              /\ Settings(t.regs)["advanced_selftest"] = {}
              /\ Settings(t.regs)["control_measurement_x"] = {}
              /\ Settings(t.regs)["control_measurement_y"] = {}
  <2>1. Fine(a) /\ Fine(s3)
      BY <1>8, <1>9, <1>14 DEF Changes, After
  <2>2. Fine(z) /\ Fine(s1)
      BY <1>4, <1>12, <1>14 DEF Changes, After
  <2>3. On(s1) /\ On(z)
      BY <1>1, <1>4, <2>2 DEF Changes
  <2>4. On(s3)
      BY <1>10, <2>1, <2>3 DEF Changes
  <2>5. On(a)
      BY <1>8, <2>1, <2>4 DEF Changes
  <2>6. On(t)
      BY <1>9, <1>14, <2>5 DEF Changes
  <2>7. /\ "mode" \in SliceNames /\ "rep_Z" \in SliceNames
        /\ "advanced_selftest" \in SliceNames
      BY DEF SliceNames, FieldNames
  <2>8. Settings(t.regs)["mode"] = Settings(s3.regs)["mode"]
      BY <1>11, <1>14, <2>4, <2>7, StaysHeld
  <2>9. Settings(t.regs)["rep_Z"] = Settings(z.regs)["rep_Z"]
      BY <1>12, <1>14, <2>3, <2>7, StaysHeld
  <2>10. Settings(t.regs)["advanced_selftest"] = Settings(a.regs)["advanced_selftest"]
      BY <1>9, <1>14, <2>5, <2>7, StaysHeld
  <2> QED
      BY <1>4, <1>7, <1>8, <1>9, <1>14, <2>1, <2>2, <2>3, <2>4, <2>5, <2>6, <2>8, <2>9, <2>10
<1> QED
    BY <1>13, <1>14

LEMMA PerformAdvancedSelftestKeeps == ASSUME MagInv, PerformAdvancedSelftest PROVE MagInv'
<1>1. PICK miss \in Miss, content \in MagContents :
          LET s1_ == set_functional_state(Begin(miss, content), SLEEP_MODE)
              s2_ == Channels(set_mag_field(s1_, "rep_Z", Bits(2)), 1)
              s3_ == Shot(Shot(s2_, 3), 2)
              s_ == Channels(set_mag_field(s3_, "advanced_selftest", {}), 0)
          IN  /\ Finish(s_, -s_.failed)
              /\ Learn(s_, MagRegisters,
                      {<<"rep_Z", Bits(2)>>, <<"advanced_selftest", {}>>,
                       <<"control_measurement_x", {}>>,
                       <<"control_measurement_y", {}>>})
              /\ Want(s_, MagRegisters, FORCED_MODE)
    BY DEF PerformAdvancedSelftest
<1> DEFINE s == Begin(miss, content)
           s1 == set_functional_state(s, SLEEP_MODE)
           z == set_mag_field(s1, "rep_Z", Bits(2))
           s2 == Channels(z, 1)
           h == Shot(s2, 3)
           s3 == Shot(h, 2)
           a == set_mag_field(s3, "advanced_selftest", {})
           t == Channels(a, 0)
<1>2. Ends(t, MagRegisters, TestSettings, MagRegisters, FORCED_MODE)
    BY <1>1 DEF Finish, Ends, TestSettings
<1>3. magAttached'
    BY DEF PerformAdvancedSelftest, MayCall
<1>4. UnderWay(s) /\ s.regs = magRegs
    BY Begun
<1> HIDE DEF s
<1>5. /\ Changes(s, t, TestNames)
      /\ Fine(t) => /\ On(t)
                    /\ Settings(t.regs)["mode"] = Bits(FORCED_MODE)
                    /\ Settings(t.regs)["rep_Z"] = Bits(2)
                    /\ Settings(t.regs)["advanced_selftest"] = {}
                    /\ Settings(t.regs)["control_measurement_x"] = {}
                    /\ Settings(t.regs)["control_measurement_y"] = {}
    BY <1>4, TestRuns
<1> HIDE DEF t
<1>6. Fine(t) /\ On(t) => Knows(t.regs, TestSettings)
  <2>1. /\ "rep_Z" \in Learnable /\ "advanced_selftest" \in Learnable
        /\ "control_measurement_x" \in Learnable /\ "control_measurement_y" \in Learnable
      BY DEF Learnable, FieldNames
  <2> QED
      BY <1>5, <2>1 DEF Knows, TestSettings
<1>7. Fine(t) /\ On(t) /\ On(s)
        => \A k \in magKnown : k[1] \notin {f[1] : f \in TestSettings}
                               => Settings(t.regs)[k[1]] = Settings(s.regs)[k[1]]
  <2> SUFFICES ASSUME Fine(t), On(s), NEW k \in magKnown,
                      k[1] \notin {f[1] : f \in TestSettings}
               PROVE  Settings(t.regs)[k[1]] = Settings(s.regs)[k[1]]
      OBVIOUS
  <2>1. k[1] \in SliceNames /\ k[1] # "mode"
      BY KnownNames
  <2>2. /\ k[1] # "rep_Z" /\ k[1] # "advanced_selftest"
        /\ k[1] # "control_measurement_x" /\ k[1] # "control_measurement_y"
    <3>1. \A f \in TestSettings : k[1] # f[1]
        OBVIOUS
    <3> QED
        BY <3>1 DEF TestSettings
  <2>3. k[1] \in SliceNames \ TestNames
      BY <2>1, <2>2 DEF TestNames
  <2> QED
      BY <1>5, <2>3, StaysHeld
<1>8. Fine(t) \/ {PowerReg, \h4C} \cap MagRegisters = {} => StateIn(t.regs, FORCED_MODE)
  <2>1. {PowerReg, \h4C} \cap MagRegisters # {}
      BY DEF MagRegisters
  <2>2. FORCED_MODE # SUSPEND_MODE
      BY DEF FORCED_MODE, SUSPEND_MODE
  <2> QED
      BY <1>5, <2>1, <2>2 DEF StateIn, On
<1>9. /\ FORCED_MODE \in {-1} \cup (NORMAL_MODE..SLEEP_MODE)
      /\ PowerReg \in MagRegisters
    BY DEF FORCED_MODE, NORMAL_MODE, SLEEP_MODE, MagRegisters
<1>10. After(s, t)
    BY <1>5 DEF Changes
<1> QED
    BY <1>2, <1>3, <1>4, <1>6, <1>7, <1>8, <1>9, <1>10, CallKeeps

LEMMA Bmm050InitRuns ==
    ASSUME MagInv, Bmm050Init
    PROVE  \E miss \in Miss : \E t :
              /\ magOutcome'.status = -t.failed
              /\ trim' = TrimsRead(miss.at - 3)
              /\ Ends(t, MagRegisters, Preset(REGULAR), MagRegisters, wanted)
              /\ Fine(t) => miss.at \notin 4..14
              /\ \E s : /\ s.regs = magRegs /\ After(s, t)
                        /\ Fine(t) => On(t) /\ Knows(t.regs, Preset(REGULAR))
                        /\ Fine(t) /\ On(s) => \A n \in SliceNames \ PresetNames :
                                                  Settings(t.regs)[n] = Settings(s.regs)[n]
<1>1. PICK miss \in Miss, content \in MagContents :
          LET s1_ == set_power_mode(Begin(miss, content), TRUE)
              s2_ == Transfer(s1_)
              s3_ == [s2_ EXCEPT !.n = @ + 11,
                                 !.failed = IF miss.at \in 4..14 THEN 1 ELSE @]
              s_ == set_presetmode(s3_, REGULAR)
          IN  /\ Finish(s_, InitStatus(s_, s3_.failed))
              /\ trim' = TrimsRead(miss.at - 3)
              /\ Learn(s_, MagRegisters,
                      {<<n, Bits(Presets[REGULAR][n])>> :
                          n \in {"data_rate", "rep_XY", "rep_Z"}})
              /\ Want(s_, MagRegisters, wanted)
    BY DEF Bmm050Init
<1> DEFINE s == Begin(miss, content)
           s1 == set_power_mode(s, TRUE)
           s2 == Transfer(s1)
           s3 == [s2 EXCEPT !.n = @ + 11, !.failed = IF miss.at \in 4..14 THEN 1 ELSE @]
           t == set_presetmode(s3, REGULAR)
<1>2. /\ Ends(t, MagRegisters, Preset(REGULAR), MagRegisters, wanted)
      /\ magOutcome'.status = -t.failed
      /\ trim' = TrimsRead(miss.at - 3)
    BY <1>1 DEF Finish, Ends, Preset, PresetNames, InitStatus
<1>3. UnderWay(s) /\ s.regs = magRegs
    BY Begun
<1> HIDE DEF s
<1>4. PowersOn(s, s1) /\ After(s, s1) /\ UnderWay(s1)
    BY <1>3, PowerCalled DEF PowersOn, After
<1> HIDE DEF s1
<1>5. UnderWay(s2) /\ After(s1, s2) /\ s2.regs = s1.regs
    BY <1>4, TransferAfter DEF After
<1> HIDE DEF s2
<1>6. /\ UnderWay(s3) /\ s3.regs = s2.regs
      /\ Fine(s3) => Fine(s2) /\ miss.at \notin 4..14
  <2>1. DOMAIN s2 = {"regs", "n", "failed", "miss", "content"} /\ s2.failed \in Nat
        /\ Regs(s2.regs)
      BY <1>5 DEF UnderWay
  <2>2. /\ DOMAIN s3 = {"regs", "n", "failed", "miss", "content"}
        /\ s3.regs = s2.regs
        /\ s3.failed = IF miss.at \in 4..14 THEN 1 ELSE s2.failed
      BY <2>1
  <2> HIDE DEF s3
  <2> QED
      BY <2>1, <2>2 DEF UnderWay, Fine
<1> HIDE DEF s3
<1>7. REGULAR \in LOWPOWER..ENHANCED
    BY DEF REGULAR, LOWPOWER, ENHANCED
<1>8. /\ Changes(s3, t, PresetNames)
      /\ Fine(t) /\ On(s3) => \A n \in PresetNames : Settings(t.regs)[n] = Bits(Presets[REGULAR][n])
    BY <1>6, <1>7, PresetChanges
<1> HIDE DEF t
<1>9. After(s, t) /\ (Fine(t) => Fine(s3) /\ Fine(s1))
    BY <1>4, <1>5, <1>6, <1>8 DEF Changes, After
<1>10. ASSUME Fine(t)
       PROVE  /\ On(t) /\ Knows(t.regs, Preset(REGULAR))
              /\ On(s) => \A n \in SliceNames \ PresetNames : Settings(t.regs)[n] = Settings(s.regs)[n]
  <2>1. On(s1) /\ On(s3) /\ Settings(s3.regs) = Settings(s1.regs)
      BY <1>4, <1>5, <1>6, <1>9, <1>10 DEF PowersOn, On
  <2>2. On(t) /\ Knows(t.regs, Preset(REGULAR))
      BY <1>8, <1>10, <2>1, PresetKnown DEF Changes
  <2>3. On(s) => Settings(s3.regs) = Settings(s.regs)
      BY <1>4, <1>9, <1>10, <2>1 DEF PowersOn
  <2>4. \A n \in SliceNames \ PresetNames : Settings(t.regs)[n] = Settings(s3.regs)[n]
      BY <1>8, <1>10, <2>1 DEF Changes
  <2> QED
      BY <2>2, <2>3, <2>4
<1>11. /\ Fine(t) => miss.at \notin 4..14
       /\ \E s_ : /\ s_.regs = magRegs /\ After(s_, t)
                  /\ Fine(t) => On(t) /\ Knows(t.regs, Preset(REGULAR))
                  /\ Fine(t) /\ On(s_) => \A n \in SliceNames \ PresetNames :
                                             Settings(t.regs)[n] = Settings(s_.regs)[n]
    BY <1>3, <1>6, <1>9, <1>10
<1> QED
    BY <1>2, <1>11

LEMMA Bmm050InitKeeps == ASSUME MagInv, Bmm050Init PROVE MagInv'
<1>1. PICK t : /\ Ends(t, MagRegisters, Preset(REGULAR), MagRegisters, wanted)
               /\ \E s : /\ s.regs = magRegs /\ After(s, t)
                         /\ Fine(t) => On(t) /\ Knows(t.regs, Preset(REGULAR))
                         /\ Fine(t) /\ On(s) => \A n \in SliceNames \ PresetNames :
                                                   Settings(t.regs)[n] = Settings(s.regs)[n]
    BY Bmm050InitRuns
<1>2. PICK s : /\ s.regs = magRegs /\ After(s, t)
               /\ Fine(t) => On(t) /\ Knows(t.regs, Preset(REGULAR))
               /\ Fine(t) /\ On(s) => \A n \in SliceNames \ PresetNames :
                                         Settings(t.regs)[n] = Settings(s.regs)[n]
    BY <1>1
<1>3. magAttached' /\ wanted = -1
    BY DEF Bmm050Init, MagInv
<1>4. -1 \in {-1} \cup (NORMAL_MODE..SLEEP_MODE) /\ PowerReg \in MagRegisters
    BY DEF MagRegisters
<1>5. StateIn(t.regs, wanted)
    BY <1>3 DEF StateIn
<1>6. Fine(t) /\ On(t) /\ On(s)
        => \A k \in magKnown : k[1] \notin {f[1] : f \in Preset(REGULAR)}
                               => Settings(t.regs)[k[1]] = Settings(s.regs)[k[1]]
  <2>1. \A k \in magKnown : k[1] \notin {f[1] : f \in Preset(REGULAR)}
                            => k[1] \in SliceNames \ PresetNames
      BY KnownNames, PresetNamed
  <2> QED
      BY <1>2, <2>1
<1> QED
    BY <1>1, <1>2, <1>3, <1>4, <1>5, <1>6, CallKeeps

\* A forced measurement that ends changes the operation mode only.
LEMMA MeasurementEndsKeeps == ASSUME MagInv, MeasurementEnds PROVE MagInv'
<1>1. /\ "mode" \in SliceNames /\ SliceOf("mode") = OPERATION_MODE
      /\ OPERATION_MODE.reg = \h4C /\ \h4C \in MagRegisters /\ \h4C # PowerReg
      /\ PowerReg \in MagRegisters
    BY FieldsNamed DEF OPERATION_MODE, MagField, MagRegisters, PowerReg
<1>2. /\ DOMAIN magRegs = MagRegisters
      /\ Powered(magRegs) /\ Settings(magRegs)["mode"] = Bits(FORCED_MODE)
    BY <1>1 DEF MeasurementEnds, MagInv, Regs, Settings
<1>3. /\ DOMAIN magRegs' = MagRegisters
      /\ magRegs'[\h4C] = SetBitslice(magRegs[\h4C], OPERATION_MODE, Bits(SLEEP_MODE))
      /\ \A r \in MagRegisters \ {\h4C} : magRegs'[r] = magRegs[r]
    BY <1>1, <1>2 DEF MeasurementEnds
<1>4. /\ Settings(magRegs')["mode"] = Bits(SLEEP_MODE)
      /\ \A n \in SliceNames : n # "mode" => Settings(magRegs')[n] = Settings(magRegs)[n]
  <2>1. Sets(magRegs, magRegs', "mode", Truncated(OPERATION_MODE, Bits(SLEEP_MODE)))
      BY <1>1, <1>2, <1>3, SliceWritten
  <2>2. Truncated(OPERATION_MODE, Bits(SLEEP_MODE)) = Bits(SLEEP_MODE)
    <3>1. SLEEP_MODE \in 0..3
        BY DEF SLEEP_MODE
    <3> QED
        BY <3>1, ModesFit
  <2>3. Sets(magRegs, magRegs', "mode", Bits(SLEEP_MODE))
      BY <2>1, <2>2
  <2> QED
      BY <1>1, <2>3 DEF Sets, Settings
<1>5. magRegs'[PowerReg] = magRegs[PowerReg]
    BY <1>1, <1>3
<1>6. Regs(magRegs') /\ Powered(magRegs')
    BY <1>2, <1>3, <1>5 DEF MagInv, Regs, Powered
<1>7. Knows(magRegs', magKnown)
    BY <1>4, KnownNames DEF MagInv, Knows
<1>8. StateIn(magRegs', wanted)
  <2>1. CASE wanted = -1
      BY <2>1 DEF StateIn
  <2>2. CASE wanted # -1
    <3>1. /\ wanted # SUSPEND_MODE
          /\ \/ Settings(magRegs)["mode"] = Bits(wanted)
             \/ wanted = FORCED_MODE
        BY <1>2, <2>2 DEF MagInv, StateIn
    <3>2. wanted \in 0..3 /\ FORCED_MODE \in 0..3
        BY <2>2 DEF MagInv, NORMAL_MODE, SLEEP_MODE, FORCED_MODE
    <3>3. wanted = FORCED_MODE
        BY <1>2, <3>1, <3>2, ModesFit
    <3> QED
        BY <1>4, <1>6, <3>1, <3>3 DEF StateIn
  <2> QED
      BY <2>1, <2>2
<1>9. UNCHANGED <<magAttached, magKnown, wanted>>
    BY DEF MeasurementEnds
<1> QED
    BY <1>6, <1>7, <1>8, <1>9 DEF MagInv

LEMMA MagInvInit == MagInit => MagInv
<1> SUFFICES ASSUME MagInit PROVE MagInv
    OBVIOUS
<1>1. PICK content \in MagContents :
          magRegs = [r \in MagRegisters |-> IF r = PowerReg THEN {} ELSE content]
    BY DEF MagInit
<1>2. PowerReg \in MagRegisters
    BY DEF MagRegisters
<1>3. DOMAIN magRegs = MagRegisters /\ magRegs[PowerReg] = {}
    BY <1>1, <1>2
<1>4. Regs(magRegs)
    BY <1>3 DEF Regs
<1>5. magKnown = {} /\ wanted = -1
    BY DEF MagInit
<1> QED
    BY <1>4, <1>5 DEF MagInv, Knows, StateIn

LEMMA MagInvStep == MagInv /\ [MagNext]_magVars => MagInv'
<1> SUFFICES ASSUME MagInv, [MagNext]_magVars PROVE MagInv'
    OBVIOUS
<1>1. CASE Bmm050Init
    BY <1>1, Bmm050InitKeeps
<1>2. CASE MeasurementEnds
    BY <1>2, MeasurementEndsKeeps
<1>3. CASE SetMagField
    BY <1>3, SetMagFieldKeeps
<1>4. CASE SetPreset
    BY <1>4, SetPresetKeeps
<1>5. CASE SetFunctionalState
    BY <1>5, SetFunctionalStateKeeps
<1>6. CASE SetMagPower
    BY <1>6, SetMagPowerKeeps
<1>7. CASE SoftReset
    BY <1>7, SoftResetKeeps
<1>8. CASE PerformAdvancedSelftest
    BY <1>8, PerformAdvancedSelftestKeeps
<1>9. CASE RejectMag \/ GetMag \/ GetPreset \/ MagNotAttached
    BY <1>9, ReadsKeep
<1>10. CASE UNCHANGED magVars
    BY <1>10, QuietKeeps DEF magVars
<1> QED
    BY <1>1, <1>2, <1>3, <1>4, <1>5, <1>6, <1>7, <1>8, <1>9, <1>10 DEF MagNext

LEMMA MagInvHolds == MagSpec => []MagInv
<1> QED
    BY MagInvInit, MagInvStep, PTL DEF MagSpec

\* A setting of the magnetometer reads back as it was last set with success,
\* through everything that is set besides it and every call that fails
\* elsewhere, until the power goes off.
THEOREM MagSettingsKept == MagSpec => []MagKept
<1>1. MagInv => MagKept
    BY MagInvImplies
<1> QED
    BY <1>1, MagInvHolds, PTL

\* The chip is in the functional state that was set last with success.
THEOREM FunctionalStateKept == MagSpec => []MagInState
<1>1. MagInv => MagInState
    BY MagInvImplies
<1> QED
    BY <1>1, MagInvHolds, PTL

LEMMA TrimsNotMissed ==
    ASSUME MagInv, Bmm050Init, magOutcome'.status = 0, NEW i \in 1..11
    PROVE  trim'[i] = Trims[i]
<1>0. PICK miss \in Miss : \E t :
          /\ magOutcome'.status = -t.failed
          /\ trim' = TrimsRead(miss.at - 3)
          /\ Fine(t) => miss.at \notin 4..14
          /\ \E s : After(s, t)
    BY Bmm050InitRuns
<1>1. PICK t : /\ magOutcome'.status = -t.failed
               /\ trim' = TrimsRead(miss.at - 3)
               /\ Fine(t) => miss.at \notin 4..14
               /\ \E s : After(s, t)
    BY <1>0
<1>2. t.failed \in Nat
    BY <1>1 DEF After, UnderWay
<1>3. Fine(t)
    BY <1>1, <1>2 DEF Fine
<1>4. miss.at \in Int
    BY MagAssumption DEF Miss
<1>5. i # miss.at - 3
    BY <1>1, <1>3, <1>4
<1>6. trim'[i] = IF i # miss.at - 3 THEN Trims[i]
                 ELSE IF i < 7 THEN trim[i] ELSE IF i = 7 THEN "none" ELSE Trims[i - 1]
    BY <1>1 DEF TrimsRead
<1> QED
    BY <1>5, <1>6

\* An initialisation that reports success has read every trim value from its
\* own registers.
THEOREM TrimsWhole == MagSpec => TrimWhole
<1> DEFINE Whole == ~magAttached /\ magAttached' /\ magOutcome'.status = 0
                      => \A t \in 1..11 : trim'[t] = Trims[t]
<1>1. MagInv /\ [MagNext]_magVars => [Whole]_magVars
  <2> SUFFICES ASSUME MagInv, MagNext, ~magAttached, magAttached', magOutcome'.status = 0,
                      NEW t \in 1..11
               PROVE  trim'[t] = Trims[t]
      OBVIOUS
  <2>1. Bmm050Init
      BY DEF MagNext, MagNotAttached, MeasurementEnds, SetMagField, SetPreset,
             SetFunctionalState, SetMagPower, SoftReset, RejectMag, GetMag,
             GetPreset, PerformAdvancedSelftest, MayCall
  <2> QED
      BY <2>1, TrimsNotMissed
<1> QED
    BY <1>1, MagInvHolds, PTL DEF MagSpec, TrimWhole

-----------------------------------------------------------------------------
(***************************************************************************)
(* Bmm050Data                                                              *)
(***************************************************************************)

\* X and Y, and Z, at the top of their words.
LEMMA ThirteenBits ==
    ASSUME NEW x \in Int, -4096 <= x, x <= 4095
    PROVE  /\ (x % 8192) * 8 \in Int
           /\ 0 <= (x % 8192) * 8 /\ (x % 8192) * 8 <= 65535
           /\ Complement((x % 8192) * 8) = x * 8
<1>1. CASE x >= 0
  <2>1. x % 8192 = x
      BY <1>1
  <2>2. (x % 8192) * 8 = x * 8
      BY <2>1
  <2>3. x * 8 \in Int /\ 0 <= x * 8 /\ x * 8 < 32768
      BY <1>1
  <2>4. Complement(x * 8) = x * 8
      BY <2>3, Complements
  <2>5. x * 8 <= 65535
      BY <2>3
  <2> QED
      BY <2>2, <2>3, <2>4, <2>5
<1>2. CASE x < 0
  <2>1. x % 8192 = x + 8192
      BY <1>2
  <2>2. (x % 8192) * 8 = x * 8 + 65536
      BY <2>1
  <2>3. x * 8 + 65536 \in Int /\ 32768 <= x * 8 + 65536 /\ x * 8 + 65536 <= 65535
      BY <1>2
  <2>4. Complement(x * 8 + 65536) = (x * 8 + 65536) - 65536
      BY <2>3, Complements
  <2>5. 0 <= x * 8 + 65536 /\ (x * 8 + 65536) - 65536 = x * 8
      BY <2>3
  <2> QED
      BY <2>2, <2>3, <2>4, <2>5
<1> QED
    BY <1>1, <1>2

LEMMA FifteenBits ==
    ASSUME NEW x \in Int, -16384 <= x, x <= 16383
    PROVE  /\ (x % 32768) * 2 \in Int
           /\ 0 <= (x % 32768) * 2 /\ (x % 32768) * 2 <= 65535
           /\ Complement((x % 32768) * 2) = x * 2
<1>1. CASE x >= 0
  <2>1. x % 32768 = x
      BY <1>1
  <2>2. (x % 32768) * 2 = x * 2
      BY <2>1
  <2>3. x * 2 \in Int /\ 0 <= x * 2 /\ x * 2 < 32768
      BY <1>1
  <2>4. Complement(x * 2) = x * 2
      BY <2>3, Complements
  <2>5. x * 2 <= 65535
      BY <2>3
  <2> QED
      BY <2>2, <2>3, <2>4, <2>5
<1>2. CASE x < 0
  <2>1. x % 32768 = x + 32768
      BY <1>2
  <2>2. (x % 32768) * 2 = x * 2 + 65536
      BY <2>1
  <2>3. x * 2 + 65536 \in Int /\ 32768 <= x * 2 + 65536 /\ x * 2 + 65536 <= 65535
      BY <1>2
  <2>4. Complement(x * 2 + 65536) = (x * 2 + 65536) - 65536
      BY <2>3, Complements
  <2>5. 0 <= x * 2 + 65536 /\ (x * 2 + 65536) - 65536 = x * 2
      BY <2>3
  <2> QED
      BY <2>2, <2>3, <2>4, <2>5
<1> QED
    BY <1>1, <1>2

\* What the driver joins from the two bytes of a word is its number.
JoinsTo(l, s, bits, x) == Joined(l, s, bits) = x

LEMMA ThirteenJoined ==
    ASSUME NEW s \in Int, NEW l \in Int, NEW x \in Int,
           s * 256 + l = x * 8
    PROVE  JoinsTo(l, s, 13, x)
<1>1. l = 8 * (x - 32 * s)
    OBVIOUS
<1>2. \A q \in Int : (8 * q) \div 8 = q
    OBVIOUS
<1>3. x - 32 * s \in Int
    OBVIOUS
<1>4. l \div 8 = x - 32 * s
    BY <1>1, <1>2, <1>3
<1>5. s * 32 + (x - 32 * s) = x
    OBVIOUS
<1>6. Joined(l, s, 13) = s * 32 + l \div 8
    BY DEF Joined
<1> QED
    BY <1>4, <1>5, <1>6 DEF JoinsTo

LEMMA FifteenJoined ==
    ASSUME NEW s \in Int, NEW l \in Int, NEW x \in Int,
           s * 256 + l = x * 2
    PROVE  JoinsTo(l, s, 15, x)
<1>1. l = 2 * (x - 128 * s)
    OBVIOUS
<1>2. \A q \in Int : (2 * q) \div 2 = q
    OBVIOUS
<1>3. x - 128 * s \in Int
    OBVIOUS
<1>4. l \div 2 = x - 128 * s
    BY <1>1, <1>2, <1>3
<1>5. s * 128 + (x - 128 * s) = x
    OBVIOUS
<1>6. Joined(l, s, 15) = s * 128 + l \div 2
    BY DEF Joined
<1> QED
    BY <1>4, <1>5, <1>6 DEF JoinsTo

LEMMA FourteenJoined ==
    ASSUME NEW s \in Int, NEW l \in Int, NEW x \in Int,
           s * 256 + l = x * 4 + 1
    PROVE  JoinsTo(l, s, 14, x)
<1>1. l = 4 * (x - 64 * s) + 1
    OBVIOUS
<1>2. \A q \in Int : (4 * q + 1) \div 4 = q
    OBVIOUS
<1>3. x - 64 * s \in Int
    OBVIOUS
<1>4. l \div 4 = x - 64 * s
    BY <1>1, <1>2, <1>3
<1>5. s * 64 + (x - 64 * s) = x
    OBVIOUS
<1>6. Joined(l, s, 14) = s * 64 + l \div 4
    BY DEF Joined
<1> QED
    BY <1>4, <1>5, <1>6 DEF JoinsTo

\* The bytes of a frame.
LEMMA FrameBytes ==
    ASSUME NEW m
    PROVE  /\ Frame(m)[1] = ((m.x % 8192) * 8) % 256
           /\ Frame(m)[2] = ((m.x % 8192) * 8) \div 256
           /\ Frame(m)[3] = ((m.y % 8192) * 8) % 256
           /\ Frame(m)[4] = ((m.y % 8192) * 8) \div 256
           /\ Frame(m)[5] = ((m.z % 32768) * 2) % 256
           /\ Frame(m)[6] = ((m.z % 32768) * 2) \div 256
           /\ Frame(m)[7] = ((m.r % 16384) * 4 + 1) % 256
           /\ Frame(m)[8] = ((m.r % 16384) * 4 + 1) \div 256
<1> DEFINE Word1(number, bits) == (number % 2^bits) * 2^(16 - bits)
           words == <<Word1(m.x, 13), Word1(m.y, 13), Word1(m.z, 15),
                      Word1(m.r, 14) + Ready>>
<1>1. Frame(m) = [k \in 1..8 |-> IF k % 2 = 1 THEN words[(k + 1) \div 2] % 256
                                 ELSE words[k \div 2] \div 256]
    BY DEF Frame
<1>2. /\ words[1] = (m.x % 8192) * 8
      /\ words[2] = (m.y % 8192) * 8
      /\ words[3] = (m.z % 32768) * 2
      /\ words[4] = (m.r % 16384) * 4 + 1
    BY DEF Ready
<1> HIDE DEF words
<1>3. \A k \in 1..8 : Frame(m)[k] = IF k % 2 = 1 THEN words[(k + 1) \div 2] % 256
                                   ELSE words[k \div 2] \div 256
    BY <1>1
<1>4. /\ Frame(m)[1] = words[1] % 256 /\ Frame(m)[2] = words[1] \div 256
      /\ Frame(m)[3] = words[2] % 256 /\ Frame(m)[4] = words[2] \div 256
      /\ Frame(m)[5] = words[3] % 256 /\ Frame(m)[6] = words[3] \div 256
      /\ Frame(m)[7] = words[4] % 256 /\ Frame(m)[8] = words[4] \div 256
    BY <1>3
<1> QED
    BY <1>2, <1>4

Flip(x) == x \in Int /\ -2^12 <= x /\ x <= 2^12 - 1
Hall(x) == x \in Int /\ -2^14 <= x /\ x <= 2^14 - 1
Resistance(x) == x \in Int /\ 0 <= x /\ x <= 2^14 - 1

LEMMA FlipRead ==
    ASSUME NEW x, Flip(x), NEW w, w = (x % 8192) * 8
    PROVE  JoinsTo(w % 256, SignedByte(w \div 256), 13, x)
<1>1. /\ w \in Int /\ 0 <= w /\ w <= 65535
      /\ Complement(w) = x * 8
    BY ThirteenBits DEF Flip
<1>2. Complement(w) = SignedByte(w \div 256) * 256 + (w % 256)
    BY DEF Complement, Signed, SignedByte
<1>3. SignedByte(w \div 256) \in Int /\ w % 256 \in Int /\ x \in Int
    BY <1>1, Complements DEF Signed, SignedByte, Flip
<1> QED
    BY <1>1, <1>2, <1>3, ThirteenJoined

LEMMA HallRead ==
    ASSUME NEW x, Hall(x), NEW w, w = (x % 32768) * 2
    PROVE  JoinsTo(w % 256, SignedByte(w \div 256), 15, x)
<1>1. /\ w \in Int /\ 0 <= w /\ w <= 65535
      /\ Complement(w) = x * 2
    BY FifteenBits DEF Hall
<1>2. Complement(w) = SignedByte(w \div 256) * 256 + (w % 256)
    BY DEF Complement, Signed, SignedByte
<1>3. SignedByte(w \div 256) \in Int /\ w % 256 \in Int /\ x \in Int
    BY <1>1, Complements DEF Signed, SignedByte, Hall
<1> QED
    BY <1>1, <1>2, <1>3, FifteenJoined

LEMMA ResistanceJoined ==
    ASSUME NEW x \in Int, NEW w \in Int, (w \div 256) * 256 + (w % 256) = x * 4 + 1
    PROVE  JoinsTo(w % 256, w \div 256, 14, x)
<1>1. w \div 256 \in Int /\ w % 256 \in Int
    OBVIOUS
<1> QED
    BY Zenon, <1>1, FourteenJoined

LEMMA ResistanceRead ==
    ASSUME NEW x, Resistance(x)
    PROVE  JoinsTo(((x % 16384) * 4 + 1) % 256, ((x % 16384) * 4 + 1) \div 256, 14, x)
<1>1. x \in Int /\ x % 16384 = x
    BY DEF Resistance
<1>2. (x % 16384) * 4 + 1 = x * 4 + 1
    BY <1>1
<1>3. x * 4 + 1 \in Int /\ 0 <= x * 4 + 1 /\ x * 4 + 1 <= 65535
    BY DEF Resistance
<1>4. ((x * 4 + 1) \div 256) * 256 + ((x * 4 + 1) % 256) = x * 4 + 1
    BY <1>3, Complements
<1>5. JoinsTo((x * 4 + 1) % 256, (x * 4 + 1) \div 256, 14, x)
    BY <1>1, <1>3, <1>4, ResistanceJoined
<1> QED
    BY <1>2, <1>5

\* The four numbers are read as they were measured.
LEMMA FrameRead ==
    ASSUME NEW m \in MagMeasurements
    PROVE  RawXyz(Frame(m)) = [x |-> m.x, y |-> m.y, z |-> m.z, r |-> m.r]
<1>1. Flip(m.x) /\ Flip(m.y) /\ Hall(m.z) /\ Resistance(m.r)
  <2>1. m.x \in MagneticXY /\ m.y \in MagneticXY /\ m.z \in MagneticZ /\ m.r \in Resistances
      BY DEF MagMeasurements
  <2>2. \A x \in FLIP_OVERFLOW_ADCVAL .. -1 - FLIP_OVERFLOW_ADCVAL : Flip(x)
      BY DEF Flip, FLIP_OVERFLOW_ADCVAL
  <2>3. \A x \in HALL_OVERFLOW_ADCVAL .. -1 - HALL_OVERFLOW_ADCVAL : Hall(x)
      BY DEF Hall, HALL_OVERFLOW_ADCVAL
  <2>4. \A x \in 0..(2^14 - 1) : Resistance(x)
      BY DEF Resistance
  <2>5. Flip(m.x) /\ Flip(m.y)
    <3>1. \A x \in MagneticXY : x \in FLIP_OVERFLOW_ADCVAL .. -1 - FLIP_OVERFLOW_ADCVAL
        BY MagDataAssumption
    <3> QED
        BY Zenon, <2>1, <2>2, <3>1
  <2>6. Hall(m.z)
    <3>1. \A x \in MagneticZ : x \in HALL_OVERFLOW_ADCVAL .. -1 - HALL_OVERFLOW_ADCVAL
        BY MagDataAssumption
    <3> QED
        BY Zenon, <2>1, <2>3, <3>1
  <2>7. Resistance(m.r)
    <3>1. \A x \in Resistances : x \in 0..(2^14 - 1)
        BY Zenon, MagDataAssumption
    <3> QED
        BY Zenon, <2>1, <2>4, <3>1
  <2> QED
      BY <2>5, <2>6, <2>7
<1>2. /\ Joined(Frame(m)[1], SignedByte(Frame(m)[2]), 13) = m.x
      /\ Joined(Frame(m)[3], SignedByte(Frame(m)[4]), 13) = m.y
    BY <1>1, FrameBytes, FlipRead DEF JoinsTo
<1>3. Joined(Frame(m)[5], SignedByte(Frame(m)[6]), 15) = m.z
    BY <1>1, FrameBytes, HallRead DEF JoinsTo
<1>4. Joined(Frame(m)[7], Frame(m)[8], 14) = m.r
    BY <1>1, FrameBytes, ResistanceRead DEF JoinsTo
<1> QED
    BY <1>2, <1>3, <1>4 DEF RawXyz, Axes13

MagReadInv ==
    /\ magnetic \in MagMeasurements
    /\ DOMAIN magReading = {"call", "status", "value", "of"}
    /\ magReading.status = 0 /\ magReading.call \in {"s16", "s32", "float"}
         => /\ magReading.of \in MagMeasurements
            /\ magReading.value =
                  Compensated(magReading.call, RawXyz(Frame(magReading.of)))

Returns(call, result) ==
    \E failed \in BOOLEAN :
       magReading' =
         IF failed THEN [magReading EXCEPT !.call = call, !.status = -1]
         ELSE [call |-> call, status |-> 0, value |-> result, of |-> magnetic]

\* The compensation depends on the trim values alone.
LEMMA SameCompensation ==
    ASSUME NEW form, NEW raw, UNCHANGED trims
    PROVE  Compensated(form, raw)' = Compensated(form, raw)
<1>1. \A r : DivisorIsZero(form, r)' <=> DivisorIsZero(form, r)
    BY Zenon DEF DivisorIsZero
<1>2. \A axis, x, r : GivenUp(axis, x, r)' <=> GivenUp(axis, x, r)
    BY Zenon DEF GivenUp
<1>3. \A axis, x, r : compensate(form, axis, x, r)' = compensate(form, axis, x, r)
    BY Zenon, <1>1, <1>2 DEF compensate
<1> QED
    BY Zenon, <1>3 DEF Compensated

\* The calls that return what was read as it is oriented on the chip, and the
\* others.
LEMMA MagReadStep ==
    ASSUME MagReadInv, NEW call, NEW result, UNCHANGED <<magnetic, trims>>,
           call \in {"s16", "s32", "float"} =>
             result = Compensated(call, RawXyz(Frame(magnetic))),
           Returns(call, result)
    PROVE  MagReadInv'
<1>1. CASE magReading' = [magReading EXCEPT !.call = call, !.status = -1]
  <2>1. /\ DOMAIN magReading' = {"call", "status", "value", "of"}
        /\ magReading'.status = -1
    <3>1. DOMAIN magReading = {"call", "status", "value", "of"}
        BY DEF MagReadInv
    <3> QED
        BY <1>1, <3>1
  <2>2. -1 # 0
      OBVIOUS
  <2> QED
      BY <2>1, <2>2 DEF MagReadInv
<1>2. CASE magReading' = [call |-> call, status |-> 0, value |-> result, of |-> magnetic]
  <2>1. /\ DOMAIN magReading' = {"call", "status", "value", "of"}
        /\ magReading'.call = call /\ magReading'.value = result /\ magReading'.of = magnetic
      BY Zenon, <1>2
  <2>2. magnetic \in MagMeasurements /\ magnetic' = magnetic
      BY DEF MagReadInv
  <2>3. ASSUME call \in {"s16", "s32", "float"}
        PROVE  magReading'.value = Compensated(magReading.call, RawXyz(Frame(magReading.of)))'
    <3>1. PICK m \in MagMeasurements : m = magnetic
        BY <2>2
    <3>2. result = Compensated(call, RawXyz(Frame(m)))
        BY <2>3, <3>1
    <3>3. Compensated(call, RawXyz(Frame(m)))' = Compensated(call, RawXyz(Frame(m)))
        BY SameCompensation
    <3>4. magReading'.of = m
        BY <2>1, <3>1
    <3>5. Compensated(magReading.call, RawXyz(Frame(magReading.of)))'
            = Compensated(call, RawXyz(Frame(m)))'
        BY Zenon, <2>1, <3>4
    <3> QED
        BY <2>1, <3>2, <3>3, <3>5
  <2> QED
      BY Zenon, <2>1, <2>2, <2>3 DEF MagReadInv
<1> QED
    BY <1>1, <1>2 DEF Returns

LEMMA MagReadInvInductive == MagDataSpec => []MagReadInv
<1>1. MagDataInit => MagReadInv
    BY DEF MagDataInit, MagReadInv
<1>2. MagReadInv /\ [MagDataNext]_magDataVars => MagReadInv'
  <2> SUFFICES ASSUME MagReadInv, [MagDataNext]_magDataVars
               PROVE  MagReadInv'
      OBVIOUS
  <2>0. ASSUME UNCHANGED <<trims, magReading>>, magnetic' \in MagMeasurements
        PROVE  MagReadInv'
    <3>1. PICK c, m : c = magReading.call /\ m = magReading.of
        OBVIOUS
    <3>2. Compensated(c, RawXyz(Frame(m)))' = Compensated(c, RawXyz(Frame(m)))
        BY <2>0, SameCompensation
    <3>3. /\ Compensated(magReading.call, RawXyz(Frame(magReading.of)))'
               = Compensated(c, RawXyz(Frame(m)))'
          /\ Compensated(magReading.call, RawXyz(Frame(magReading.of)))
               = Compensated(c, RawXyz(Frame(m)))
        BY Zenon, <2>0, <3>1
    <3> QED
        BY Zenon, <2>0, <3>2, <3>3 DEF MagReadInv
  <2>1. CASE MeasureField
      BY <2>0, <2>1 DEF MeasureField
  <2>2. CASE UNCHANGED magDataVars
      BY <2>0, <2>2 DEF magDataVars, MagReadInv
  <2>11. ~("remapped s16" \in {"s16", "s32", "float"}) /\ ~("remapped s32" \in {"s16", "s32", "float"})
         /\ ~("remapped float" \in {"s16", "s32", "float"}) /\ ~("remapped raw" \in {"s16", "s32", "float"})
      BY Zenon
  <2>3. CASE read_mag_data_XYZ
    <3>1. /\ Returns("s16", Compensated("s16", RawXyz(Frame(magnetic))))
          /\ UNCHANGED <<magnetic, trims>>
        BY <2>3 DEF read_mag_data_XYZ, ReadMag, Returns
    <3> QED
        BY <3>1, MagReadStep
  <2>4. CASE read_mag_data_XYZ_s32
    <3>1. /\ Returns("s32", Compensated("s32", RawXyz(Frame(magnetic))))
          /\ UNCHANGED <<magnetic, trims>>
        BY <2>4 DEF read_mag_data_XYZ_s32, ReadMag, Returns
    <3> QED
        BY <3>1, MagReadStep
  <2>5. CASE read_mag_data_XYZ_float
    <3>1. /\ Returns("float", Compensated("float", RawXyz(Frame(magnetic))))
          /\ UNCHANGED <<magnetic, trims>>
        BY <2>5 DEF read_mag_data_XYZ_float, ReadMag, Returns
    <3> QED
        BY <3>1, MagReadStep
  <2>6. CASE raw_xyz
    <3>1. /\ Returns("raw", Uncompensated(RawXyz(Frame(magnetic))))
          /\ UNCHANGED <<magnetic, trims>>
        BY <2>6 DEF raw_xyz, ReadMag, Returns
    <3> QED
        BY <3>1, MagReadStep
  <2>7. CASE read_bmx055_remapped_mag_data_XYZ
    <3>1. /\ Returns("remapped s16", Compensated("s16", RemappedS16(Frame(magnetic))))
          /\ UNCHANGED <<magnetic, trims>>
        BY Zenon, <2>7 DEF read_bmx055_remapped_mag_data_XYZ, ReadMag, Returns
    <3> QED
        BY Zenon, <3>1, MagReadStep, <2>11
  <2>8. CASE read_bmx055_remapped_mag_data_XYZ_s32
    <3>1. /\ Returns("remapped s32", Compensated("s32", Remapped(Frame(magnetic))))
          /\ UNCHANGED <<magnetic, trims>>
        BY Zenon, <2>8 DEF read_bmx055_remapped_mag_data_XYZ_s32, ReadMag, Returns
    <3> QED
        BY Zenon, <3>1, MagReadStep, <2>11
  <2>9. CASE read_bmx055_remapped_mag_data_XYZ_float
    <3>1. /\ Returns("remapped float", Compensated("float", Remapped(Frame(magnetic))))
          /\ UNCHANGED <<magnetic, trims>>
        BY Zenon, <2>9 DEF read_bmx055_remapped_mag_data_XYZ_float, ReadMag, Returns
    <3> QED
        BY Zenon, <3>1, MagReadStep, <2>11
  <2>10. CASE bmx055_remapped_raw_xyz
    <3>1. /\ Returns("remapped raw", Uncompensated(Remapped(Frame(magnetic))))
          /\ UNCHANGED <<magnetic, trims>>
        BY Zenon, <2>10 DEF bmx055_remapped_raw_xyz, ReadMag, Returns
    <3> QED
        BY Zenon, <3>1, MagReadStep, <2>11
  <2> QED
      BY <2>1, <2>2, <2>3, <2>4, <2>5, <2>6, <2>7, <2>8, <2>9, <2>10 DEF MagDataNext
<1> QED
    BY <1>1, <1>2, PTL DEF MagDataSpec

\* For all that the magnetometer may measure and all trim values: each axis of
\* a call that has succeeded is computed from its own measurement and the
\* resistance of the same moment, but for the cases that MagDecoded names.
THEOREM FieldDecoded == MagDataSpec => []MagDecoded
<1>1. MagReadInv => MagDecoded
  <2> SUFFICES ASSUME MagReadInv, magReading.status = 0,
                      magReading.call \in {"s16", "s32", "float"}
               PROVE  MagDecoded
      BY DEF MagDecoded
  <2> DEFINE m == magReading.of
             v == magReading.value
             form == magReading.call
  <2>1. RawXyz(Frame(m)) = [x |-> m.x, y |-> m.y, z |-> m.z, r |-> m.r]
      BY FrameRead DEF MagReadInv
  <2>2. v = Compensated(form, [x |-> m.x, y |-> m.y, z |-> m.z, r |-> m.r])
      BY <2>1 DEF MagReadInv
  <2>3. /\ v.r = m.r /\ v.z = compensate(form, "z", m.z, m.r)
        /\ \A a \in {"x", "y"} : v[a] = compensate(form, a, m[a], m.r)
      BY <2>2 DEF Compensated
  <2> HIDE DEF m, v, form
  <2>4. GivenUp("z", m.z, m.r) <=>
          m.z = HALL_OVERFLOW_ADCVAL \/ (m.r = 0 \/ trims.xyz1 = 0)
            \/ trims.z1 = 0 \/ trims.z2 = 0
      BY DEF GivenUp
  <2>5. \A a \in {"x", "y"} :
          GivenUp(a, m[a], m.r) <=>
            m[a] = FLIP_OVERFLOW_ADCVAL \/ (m.r = 0 \/ trims.xyz1 = 0)
      BY DEF GivenUp
  <2> QED
      BY Zenon, <2>3, <2>4, <2>5 DEF MagDecoded, compensate, m, v, form
<1> QED
    BY <1>1, MagReadInvInductive, PTL

-----------------------------------------------------------------------------
(***************************************************************************)
(* Ms5637                                                                  *)
(***************************************************************************)
Coefficients == 1..COEFFICIENT_NUMBERS
AllRead == \A i \in Coefficients : eeprom_coeff[i] = "chip"

\* Coefficients that count as read are the chip's and are not read again; the
\* conversion that is called the temperature is of the temperature or zero.
SampleInv ==
    /\ msStep \in {"probe", "reset", "suspended", "idle", "eeprom",
                   "temperature", "pressure"}
    /\ coeff_read => AllRead
    /\ msStep = "eeprom" => ~coeff_read
    /\ msStep \in {"temperature", "pressure"} => coeff_read
    /\ adc_temperature \in {"zero", "temperature"}
    /\ sample.status = "ok" => coeff_read /\ sample.made = {"temperature", "pressure"}

\* What a conversion leaves to be read.
LEMMA ConversionReads ==
    ASSUME NEW kind, conversion_and_read_adc(kind)
    PROVE  adc' \in {kind, "zero"}
BY DEF conversion_and_read_adc, Converted

LEMMA SampleInvInit == MsInit => SampleInv
BY DEF MsInit, SampleInv

LEMMA SampleInvStep == SampleInv /\ [MsNext]_msVars => SampleInv'
<1> SUFFICES ASSUME SampleInv, [MsNext]_msVars PROVE SampleInv'
    OBVIOUS
<1> USE DEF SampleInv, AllRead, Coefficients
<1>1. CASE Probe
    BY <1>1 DEF Probe
<1>2. CASE Reset
    BY <1>2 DEF Reset
<1>3. CASE BeginSample
    BY <1>3 DEF BeginSample
<1>4. CASE read_eeprom
    BY <1>4 DEF read_eeprom, EndSample, CrcCheck
<1>5. CASE read_eeprom_fails
    BY <1>5 DEF read_eeprom_fails, EndSample
<1>6. CASE ReadTemperature
    BY <1>6, ConversionReads DEF ReadTemperature
<1>7. CASE ReadPressure
    <2>1. adc' \in {"pressure", "zero"}
        BY <1>7, ConversionReads DEF ReadPressure
    <2>2. BothRead({adc_temperature, adc'})
             => {adc_temperature, adc'} = {"temperature", "pressure"}
        BY <2>1 DEF BothRead
    <2> QED
        BY <1>7, <2>2 DEF ReadPressure, EndSample
<1>8. CASE ConversionFails
    BY <1>8 DEF ConversionFails, EndSample
<1>9. CASE UNCHANGED msVars
    BY <1>9 DEF msVars
<1> QED
    BY <1>1, <1>2, <1>3, <1>4, <1>5, <1>6, <1>7, <1>8, <1>9 DEF MsNext

\* Whatever fails, and at every resolution: a sample that is reported was made
\* from coefficients that are all the chip's and from one conversion of each
\* kind that was over.
THEOREM SamplesSound == MsSpec => []PressureSound
<1>1. SampleInv => PressureSound
    BY DEF SampleInv, PressureSound, AllRead, Coefficients
<1> QED
    BY SampleInvInit, SampleInvStep, <1>1, PTL DEF MsSpec

\* The sleep for a conversion, of which the first tick may come at once, is
\* not shorter than the conversion.
WaitsLongEnough == ConversionTime <= (Ticks(conversion_time(Osr)) - 1) * TickMs

\* A sample without faults has what it needs at each step.
AnswerInv ==
    /\ SampleInv
    /\ samples \in Nat
    /\ msStep \in {"probe", "reset"} => samples = 0
    /\ msStep = "pressure" /\ faultless => adc_temperature = "temperature"
    /\ PressureAnswers

\* A conversion in which nothing fails is over when it is read.
LEMMA ConversionOver ==
    ASSUME WaitsLongEnough, NEW kind, conversion_and_read_adc(kind), faultless'
    PROVE  adc' = kind /\ UNCHANGED faultless
<1>1. PICK elapsed \in Slept(conversion_time(Osr)) :
          \/ Ok /\ adc' = Converted(kind, elapsed)
          \/ faultless' = FALSE
    BY DEF conversion_and_read_adc
<1>2. conversion_time(Osr) \in {1, 2, 3, 5, 9, 40}
    BY PressureAssumption DEF conversion_time
<1>3. Ticks(conversion_time(Osr)) \in Int
    BY <1>2 DEF Ticks, TickMs
<1>4. elapsed >= ConversionTime
    BY <1>3, PressureAssumption DEF Slept, WaitsLongEnough, TickMs
<1> QED
    BY <1>1, <1>4 DEF Converted, Ok

LEMMA AnswerInvStep ==
    ASSUME WaitsLongEnough, AnswerInv, [MsNext]_msVars
    PROVE  AnswerInv'
<1> SampleInv'
    BY SampleInvStep DEF AnswerInv
<1> USE DEF AnswerInv, PressureAnswers, SampleInv
<1>1. CASE Probe
    BY <1>1 DEF Probe
<1>2. CASE Reset
    BY <1>2 DEF Reset
<1>3. CASE BeginSample
    BY <1>3 DEF BeginSample
<1>4. CASE read_eeprom
    <2>1. ~CrcCheck => faultless' = FALSE
        BY <1>4 DEF read_eeprom, CrcCheck
    <2> QED
        BY <1>4, <2>1 DEF read_eeprom, EndSample
<1>5. CASE read_eeprom_fails
    BY <1>5 DEF read_eeprom_fails, EndSample, Failed
<1>6. CASE ReadTemperature
    BY <1>6, ConversionOver DEF ReadTemperature
<1>7. CASE ReadPressure
    <2>1. faultless' => adc' = "pressure" /\ adc_temperature = "temperature"
        BY <1>7, ConversionOver DEF ReadPressure
    <2>2. faultless' => BothRead({adc_temperature, adc'})
        BY <2>1 DEF BothRead
    <2> QED
        BY <1>7, <2>2 DEF ReadPressure, EndSample
<1>8. CASE ConversionFails
    BY <1>8 DEF ConversionFails, EndSample, Failed
<1>9. CASE UNCHANGED msVars
    BY <1>9 DEF msVars
<1> QED
    BY <1>1, <1>2, <1>3, <1>4, <1>5, <1>6, <1>7, <1>8, <1>9 DEF MsNext

\* If the wait for a conversion is long enough at the resolution in use, every
\* sample in which nothing fails is reported.
THEOREM SamplesAnswered == ASSUME WaitsLongEnough PROVE MsSpec => []PressureAnswers
<1>1. MsInit => AnswerInv
    BY SampleInvInit DEF MsInit, AnswerInv, PressureAnswers
<1>2. AnswerInv /\ [MsNext]_msVars => AnswerInv'
    BY AnswerInvStep
<1>3. AnswerInv => PressureAnswers
    BY DEF AnswerInv
<1> QED
    BY <1>1, <1>2, <1>3, PTL DEF MsSpec

-----------------------------------------------------------------------------
(***************************************************************************)
(* Ens210                                                                  *)
(***************************************************************************)

\* A fault is counted, so that it differs from a transfer that goes well.
FaultsCounted == ensFaults \in Nat

LEMMA FaultSeen == FaultsCounted /\ EnsFault => ensFaults' # ensFaults /\ FaultsCounted'
BY DEF FaultsCounted, EnsFault

\* Outside the reading of the identity the chip saves power, unless restoring
\* it has failed twice.
PowerKept ==
    /\ ensStep \in {"idle", "wait", "read", "ids", "restore first", "restore"}
    /\ awake \in BOOLEAN /\ lowPower \in BOOLEAN
    /\ ensStep \in {"idle", "wait", "read"} => awake = TRUE \/ lowPower = TRUE

PowerInv == FaultsCounted /\ PowerKept

\* What writing the power mode leaves.
LEMMA PowerWritten ==
    ASSUME FaultsCounted, NEW low \in BOOLEAN, SysCtrlSet(low), lowPower \in BOOLEAN
    PROVE  /\ lowPower' \in BOOLEAN
           /\ ensFaults' = ensFaults => lowPower' = low
<1>1. CASE EnsOk /\ lowPower' = low
    BY <1>1
<1>2. CASE EnsFault /\ lowPower' \in {lowPower, low}
    BY <1>2, FaultSeen
<1> QED
    BY <1>1, <1>2 DEF SysCtrlSet

LEMMA FaultsCountedStep ==
    ASSUME FaultsCounted, [EnsNext]_ensVars
    PROVE  FaultsCounted'
<1>1. UNCHANGED ensFaults \/ EnsFault
    BY DEF EnsNext, SensStart, Wait, THValGet, OtherCall, IdsWake, IdsRead,
           IdsRestore, SysCtrlSet, EnsOk, ensVars
<1> QED
    BY <1>1, FaultSeen DEF FaultsCounted

LEMMA PowerInvStep == ASSUME PowerInv, [EnsNext]_ensVars PROVE PowerInv'
<1> USE DEF PowerInv, PowerKept
<1> FaultsCounted'
    BY FaultsCountedStep
<1>1. CASE SensStart
    BY <1>1 DEF SensStart
<1>2. CASE Wait
    BY <1>2 DEF Wait
<1>3. CASE THValGet
    BY <1>3 DEF THValGet
<1>4. CASE OtherCall
    BY <1>4 DEF OtherCall
<1>5. CASE IdsWake
    BY <1>5, PowerWritten DEF IdsWake, OnError
<1>6. CASE IdsRead
    BY <1>6 DEF IdsRead, OnError
<1>7. CASE IdsRestore
    BY <1>7, PowerWritten DEF IdsRestore
<1>8. CASE UNCHANGED ensVars
    BY <1>8 DEF ensVars
<1> QED
    BY <1>1, <1>2, <1>3, <1>4, <1>5, <1>6, <1>7, <1>8 DEF EnsNext

\* Whichever transfers fail, between two calls the chip saves power, unless
\* enabling that failed at both attempts of the last reading of the identity.
THEOREM PowerRestored == EnsSpec => []LowPowerRestored
<1>1. EnsInit => PowerInv
  <2>1. EnsInit => FaultsCounted
      BY DEF EnsInit, FaultsCounted
  <2> QED
      BY <2>1 DEF EnsInit, PowerInv, PowerKept
<1>2. PowerInv => LowPowerRestored
    BY DEF PowerInv, PowerKept, LowPowerRestored
<1> QED
    BY <1>1, <1>2, PowerInvStep, PTL DEF EnsSpec

\* When the values are read, those that are marked valid are of the
\* measurement that was just started.
FreshInv ==
    /\ val \in [Quantities -> Nat]
    /\ last \in [Quantities -> Nat]
    /\ ensSamples \in Nat
    /\ ensStep = "read" => \A q \in valid : val[q] = ensSamples

LEMMA FreshInvStep == ASSUME FreshInv, [EnsNext]_ensVars PROVE FreshInv'
<1> USE DEF FreshInv
<1>1. CASE SensStart
    BY <1>1 DEF SensStart
<1>2. CASE Wait
    BY <1>2 DEF Wait, Quantities
<1>3. CASE THValGet
    BY <1>3 DEF THValGet
<1>4. CASE OtherCall
    BY <1>4 DEF OtherCall
<1>5. CASE IdsWake
    BY <1>5 DEF IdsWake, OnError
<1>6. CASE IdsRead
    BY <1>6 DEF IdsRead, OnError
<1>7. CASE IdsRestore
    BY <1>7 DEF IdsRestore
<1>8. CASE UNCHANGED ensVars
    BY <1>8 DEF ensVars
<1> QED
    BY <1>1, <1>2, <1>3, <1>4, <1>5, <1>6, <1>7, <1>8 DEF EnsNext

\* However long a measurement takes, a value that is taken is of the
\* measurement that was just started.
THEOREM ValuesFresh == EnsSpec => ValueFresh
<1>1. EnsInit => FreshInv
    BY DEF EnsInit, FreshInv
<1>2. ASSUME FreshInv, EnsNext, NEW q \in Quantities, last'[q] # last[q]
      PROVE  last'[q] = ensSamples
  <2>1. THValGet
      BY <1>2 DEF EnsNext, SensStart, Wait, OtherCall, IdsWake, IdsRead, IdsRestore
  <2> QED
      BY <1>2, <2>1 DEF FreshInv, THValGet, Usable
<1>3. FreshInv /\ [EnsNext]_ensVars =>
          [\A q \in Quantities : last'[q] # last[q] => last'[q] = ensSamples]_ensVars
    BY <1>2
<1> QED
    BY <1>1, <1>3, FreshInvStep, PTL DEF EnsSpec, ValueFresh

-----------------------------------------------------------------------------
(***************************************************************************)
(* Microphone                                                              *)
(***************************************************************************)

\* The callback has handed the buffer over, the transform has not begun.
Pending == "fft" \in micFlags \/ (adcAt = "batch" /\ "fft" \in actual)

\* The window that the transform is working on: what it has read, and the
\* rest as it is still in the buffer.
Rebuilt == [i \in 1..FFT_SIZE |-> IF i <= Len(Output) THEN Output[i] ELSE sampleBuf[i]]

\* The full windows that the program still holds whole.
Held == {w \in {sampleBuf} : Pending}
          \cup {w \in {Rebuilt} : adcAt = "fft"}
          \cup {w \in {Output} : adcAt = "average"}

\* No full window is lost or torn before it is averaged, and what is averaged
\* is one of them, as the callback has filled it.
WindowsKept == due = Held
AverageWhole == adcAt = "average" => Output \in due

\* Where the thread is in a window.
PlaceInv ==
    /\ data \in Nat
    /\ fftCount \in 0..(FFT_SIZE - 1)
    /\ sampleBuf \in [1..FFT_SIZE -> Nat]
    /\ Output \in Seq(Nat)
    /\ adcAt = "fft" => Len(Output) < FFT_SIZE
    /\ adcAt = "average" => Len(Output) = FFT_SIZE

\* The next window begins with a sample that is later than all of the last.
LaterInv ==
    /\ sampleBuf[1] <= data
    /\ Len(Output) > 0 => Output[1] <= data
    /\ adcAt = "average" /\ (Pending \/ fftCount > 0) => Output[1] < sampleBuf[1]

\* The callback fills the buffer, or the thread has it, and then the callback
\* begins at its first place.
TurnInv ==
    /\ sampling \in BOOLEAN
    /\ adcAt \in {"get", "batch", "fft", "average", "transfer"}
    /\ sampling = TRUE <=> (~Pending /\ adcAt # "fft")
    /\ "fft" \in micFlags => adcAt # "fft" /\ ~(adcAt = "batch" /\ "fft" \in actual)
    /\ Pending \/ adcAt = "fft" => fftCount = 0

WindowInv == PlaceInv /\ LaterInv /\ TurnInv /\ WindowsKept

\* What a sample does to the window, by whose turn it is.
LEMMA SampleFills ==
    ASSUME WindowInv, Sample
    PROVE  /\ data' = data + 1
           /\ UNCHANGED <<adcAt, actual, Output>>
           /\ \/ /\ sampling # TRUE
                 /\ UNCHANGED <<sampleBuf, fftCount, sampling, due>>
                 /\ "fft" \in micFlags' <=> "fft" \in micFlags
              \/ /\ sampling = TRUE /\ ~(fftCount + 1 >= FFT_SIZE)
                 /\ sampleBuf' = [sampleBuf EXCEPT ![fftCount + 1] = data']
                 /\ fftCount' = fftCount + 1
                 /\ UNCHANGED <<sampling, due>>
                 /\ "fft" \in micFlags' <=> "fft" \in micFlags
              \/ /\ sampling = TRUE /\ fftCount + 1 >= FFT_SIZE
                 /\ sampleBuf' = [sampleBuf EXCEPT ![fftCount + 1] = data']
                 /\ fftCount' = 0
                 /\ sampling' = FALSE
                 /\ due' = due \cup {sampleBuf'}
                 /\ "fft" \in micFlags'
<1>1. PICK batch \in SUBSET {"batch"}, fft \in SUBSET {"fft"} :
          /\ Window(fft)
          /\ micFlags' = micFlags \union batch \union fft
    BY DEF Sample
<1>2. data' = data + 1 /\ UNCHANGED <<adcAt, actual, Output>>
    BY DEF Sample, threadVars
<1>3. "fft" \in micFlags' <=> "fft" \in micFlags \/ "fft" \in fft
    BY <1>1
<1>4. sampling \in BOOLEAN
    BY DEF WindowInv, TurnInv
<1> HIDE DEF Sample, WindowInv
<1>5. CASE sampling # TRUE
    BY <1>1, <1>2, <1>3, <1>4, <1>5 DEF Window
<1>6. CASE sampling = TRUE /\ ~(fftCount + 1 >= FFT_SIZE)
    BY <1>1, <1>2, <1>3, <1>6 DEF Window
<1>7. CASE sampling = TRUE /\ fftCount + 1 >= FFT_SIZE
    BY <1>1, <1>2, <1>3, <1>7 DEF Window
<1> QED
    BY <1>5, <1>6, <1>7

LEMMA SampleWindow == ASSUME WindowInv, Sample PROVE WindowInv'
<1> USE MicAssumption
<1>1. /\ data' = data + 1
      /\ UNCHANGED <<adcAt, actual, Output>>
    BY SampleFills
<1>2. CASE /\ sampling # TRUE
           /\ UNCHANGED <<sampleBuf, fftCount, sampling, due>>
           /\ "fft" \in micFlags' <=> "fft" \in micFlags
  <2>1. Pending' <=> Pending
      BY <1>1, <1>2 DEF Pending
  <2>2. PlaceInv' /\ LaterInv'
      BY <1>1, <1>2, <2>1 DEF WindowInv, PlaceInv, LaterInv
  <2>3. TurnInv'
      BY <1>1, <1>2, <2>1 DEF WindowInv, TurnInv
  <2>4. WindowsKept'
      BY <1>1, <1>2, <2>1 DEF WindowInv, WindowsKept, Held, Rebuilt
  <2> QED
      BY <2>2, <2>3, <2>4 DEF WindowInv
<1>3. CASE /\ sampling = TRUE /\ ~(fftCount + 1 >= FFT_SIZE)
           /\ sampleBuf' = [sampleBuf EXCEPT ![fftCount + 1] = data']
           /\ fftCount' = fftCount + 1
           /\ UNCHANGED <<sampling, due>>
           /\ "fft" \in micFlags' <=> "fft" \in micFlags
  <2>1. ~Pending /\ ~Pending' /\ adcAt # "fft"
      BY <1>1, <1>3 DEF Pending, WindowInv, TurnInv
  <2>2. PlaceInv'
      BY <1>1, <1>3 DEF WindowInv, PlaceInv
  <2>3. fftCount = 0 \/ sampleBuf'[1] = sampleBuf[1]
      BY <1>1, <1>3 DEF WindowInv, PlaceInv
  <2>4. LaterInv'
      BY <1>1, <1>3, <2>1, <2>3 DEF WindowInv, PlaceInv, LaterInv
  <2>5. TurnInv'
      BY <1>1, <1>3, <2>1 DEF WindowInv, TurnInv, Pending
  <2>6. WindowsKept'
      BY <1>1, <1>3, <2>1 DEF WindowInv, WindowsKept, Held
  <2> QED
      BY <2>2, <2>4, <2>5, <2>6 DEF WindowInv
<1>4. CASE /\ sampling = TRUE /\ fftCount + 1 >= FFT_SIZE
           /\ sampleBuf' = [sampleBuf EXCEPT ![fftCount + 1] = data']
           /\ fftCount' = 0
           /\ sampling' = FALSE
           /\ due' = due \cup {sampleBuf'}
           /\ "fft" \in micFlags'
  <2>1. ~Pending /\ Pending' /\ adcAt # "fft"
      BY <1>1, <1>4 DEF Pending, WindowInv, TurnInv
  <2>2. PlaceInv'
      BY <1>1, <1>4 DEF WindowInv, PlaceInv
  <2>3. fftCount = 0 \/ sampleBuf'[1] = sampleBuf[1]
      BY <1>1, <1>4 DEF WindowInv, PlaceInv
  <2>4. LaterInv'
      BY <1>1, <1>4, <2>1, <2>3 DEF WindowInv, PlaceInv, LaterInv
  <2>5. TurnInv'
      BY <1>1, <1>4, <2>1 DEF WindowInv, TurnInv, Pending
  <2>6. WindowsKept'
      BY <1>1, <1>4, <2>1 DEF WindowInv, WindowsKept, Held
  <2> QED
      BY <2>2, <2>4, <2>5, <2>6 DEF WindowInv
<1> QED
    BY SampleFills, <1>2, <1>3, <1>4

\* A step of the transform reads the next sample before it destroys it, and
\* the last one gives the buffer back.
LEMMA TransformWindow == ASSUME WindowInv, Transform PROVE WindowInv'
<1> USE MicAssumption
<1> DEFINE next == Len(Output) + 1
<1>1. /\ adcAt = "fft"
      /\ Output' = Append(Output, sampleBuf[next])
      /\ sampleBuf' = [sampleBuf EXCEPT ![next] = 0]
      /\ sampling' = (sampling \/ Finished(next))
      /\ adcAt' = IF next = FFT_SIZE THEN "average" ELSE "fft"
      /\ UNCHANGED <<data, fftCount, micFlags, due>>
    BY DEF Transform, callbackVars
<1>2. next \in 1..FFT_SIZE
    BY <1>1 DEF WindowInv, PlaceInv
<1>3. PlaceInv'
    BY <1>1, <1>2 DEF WindowInv, PlaceInv
<1>4. ~Pending /\ ~Pending' /\ fftCount = 0
    BY <1>1 DEF WindowInv, TurnInv, Pending
<1>5. LaterInv'
    BY <1>1, <1>2, <1>4 DEF WindowInv, PlaceInv, LaterInv
<1>6. sampling' = TRUE <=> next = FFT_SIZE
  <2>1. sampling = FALSE
      BY <1>1 DEF WindowInv, TurnInv
  <2> QED
      BY <1>1, <2>1 DEF Finished
<1>7. TurnInv'
  <2>1. sampling' \in BOOLEAN
      BY <1>1
  <2> HIDE DEF next
  <2> QED
      BY <1>1, <1>4, <1>6, <2>1 DEF WindowInv, TurnInv, Pending
<1>8. \A i \in 1..FFT_SIZE :
         (IF i <= next THEN Output'[i] ELSE sampleBuf'[i]) = Rebuilt[i]
    BY <1>1, <1>2 DEF Rebuilt, WindowInv, PlaceInv
<1>9. Len(Output') = next
    BY <1>1 DEF WindowInv, PlaceInv
<1>10. Rebuilt' = Rebuilt
    BY <1>8, <1>9 DEF Rebuilt
<1>11. next = FFT_SIZE => Output' = Rebuilt
  <2> SUFFICES ASSUME next = FFT_SIZE PROVE Output' = Rebuilt
      OBVIOUS
  <2>1. Output' \in Seq(Nat)
      BY <1>3 DEF PlaceInv
  <2>2. Output' = [i \in 1..FFT_SIZE |-> Output'[i]]
      BY <1>9, <2>1
  <2>3. Rebuilt = [i \in 1..FFT_SIZE |-> Rebuilt[i]]
      BY DEF Rebuilt
  <2>4. \A i \in 1..FFT_SIZE : Output'[i] = Rebuilt[i]
      BY <1>8
  <2> QED
      BY <2>2, <2>3, <2>4
<1>12. WindowsKept'
  <2> HIDE DEF next
  <2> QED
      BY <1>1, <1>4, <1>10, <1>11 DEF WindowInv, WindowsKept, Held
<1> QED
    BY <1>3, <1>5, <1>7, <1>12 DEF WindowInv

LEMMA WindowInvStep == ASSUME WindowInv, [MicNext]_micVars PROVE WindowInv'
<1> USE MicAssumption DEF callbackVars, threadVars
<1>1. CASE UNCHANGED <<data, sampling, sampleBuf, fftCount, adcAt, actual, Output, due>>
           /\ ("fft" \in micFlags' <=> "fft" \in micFlags)
  <2>1. Pending' <=> Pending
      BY <1>1 DEF Pending
  <2>2. PlaceInv' /\ LaterInv'
      BY <1>1, <2>1 DEF WindowInv, PlaceInv, LaterInv
  <2>3. TurnInv'
      BY <1>1, <2>1 DEF WindowInv, TurnInv
  <2>4. WindowsKept'
      BY <1>1, <2>1 DEF WindowInv, WindowsKept, Held, Rebuilt
  <2> QED
      BY <2>2, <2>3, <2>4 DEF WindowInv
<1>2. CASE OtherFlag
    BY <1>1, <1>2 DEF OtherFlag
<1>3. CASE UNCHANGED micVars
    BY <1>1, <1>3 DEF micVars
<1>4. CASE GetFlags
  <2>1. /\ UNCHANGED <<data, sampling, sampleBuf, fftCount, Output, due>>
        /\ adcAt = "get" /\ adcAt' = "batch"
        /\ "fft" \notin micFlags'
        /\ "fft" \in actual' <=> "fft" \in micFlags
      BY <1>4 DEF GetFlags
  <2>2. Pending' <=> Pending
      BY <2>1 DEF Pending
  <2>3. PlaceInv' /\ LaterInv'
      BY <2>1, <2>2 DEF WindowInv, PlaceInv, LaterInv
  <2>4. TurnInv'
      BY <2>1, <2>2 DEF WindowInv, TurnInv
  <2>5. WindowsKept'
      BY <2>1, <2>2 DEF WindowInv, WindowsKept, Held
  <2> QED
      BY <2>3, <2>4, <2>5 DEF WindowInv
<1>5. CASE CountLevel
  <2>1. /\ UNCHANGED <<data, sampling, sampleBuf, fftCount, micFlags, actual, due>>
        /\ adcAt = "batch" /\ Output' = <<>>
        /\ adcAt' = IF "fft" \in actual THEN "fft" ELSE "transfer"
      BY <1>5 DEF CountLevel
  <2>2. PlaceInv' /\ LaterInv'
      BY <2>1 DEF WindowInv, PlaceInv, LaterInv
  <2>3. CASE "fft" \in actual
    <3>1. Pending /\ ~Pending'
        BY <2>1, <2>3 DEF Pending, WindowInv, TurnInv
    <3>2. TurnInv'
        BY <2>1, <2>3, <3>1 DEF WindowInv, TurnInv
    <3>3. Rebuilt' = sampleBuf
        BY <2>1 DEF Rebuilt, WindowInv, PlaceInv
    <3>4. WindowsKept'
        BY <2>1, <2>3, <3>1, <3>3 DEF WindowInv, WindowsKept, Held
    <3> QED
        BY <2>2, <3>2, <3>4 DEF WindowInv
  <2>4. CASE "fft" \notin actual
    <3>1. Pending' <=> Pending
        BY <2>1, <2>4 DEF Pending
    <3>2. TurnInv'
        BY <2>1, <2>4, <3>1 DEF WindowInv, TurnInv
    <3>3. WindowsKept'
        BY <2>1, <2>4, <3>1 DEF WindowInv, WindowsKept, Held
    <3> QED
        BY <2>2, <3>2, <3>3 DEF WindowInv
  <2> QED
      BY <2>3, <2>4
<1>6. CASE Average
  <2>1. /\ UNCHANGED <<data, sampling, sampleBuf, fftCount, micFlags, actual, Output>>
        /\ adcAt = "average" /\ adcAt' = "transfer"
        /\ due' = due \ {Output}
      BY <1>6 DEF Average
  <2>2. Pending' <=> Pending
      BY <2>1 DEF Pending
  <2>3. PlaceInv' /\ LaterInv'
      BY <2>1, <2>2 DEF WindowInv, PlaceInv, LaterInv
  <2>4. TurnInv'
      BY <2>1, <2>2 DEF WindowInv, TurnInv
  <2>5. Pending => sampleBuf # Output
    <3>1. Pending => Output[1] < sampleBuf[1]
        BY <2>1 DEF WindowInv, LaterInv
    <3>2. sampleBuf[1] \in Nat
        BY DEF WindowInv, PlaceInv
    <3> QED
        BY <3>1, <3>2
  <2>6. WindowsKept'
      BY <2>1, <2>2, <2>5 DEF WindowInv, WindowsKept, Held
  <2> QED
      BY <2>3, <2>4, <2>6 DEF WindowInv
<1>7. CASE AnswerNet
  <2>1. /\ UNCHANGED <<data, sampling, sampleBuf, fftCount, micFlags, actual, Output, due>>
        /\ adcAt = "transfer" /\ adcAt' = "get"
      BY <1>7 DEF AnswerNet
  <2>2. Pending' <=> Pending
      BY <2>1 DEF Pending
  <2>3. PlaceInv' /\ LaterInv'
      BY <2>1, <2>2 DEF WindowInv, PlaceInv, LaterInv
  <2>4. TurnInv'
      BY <2>1, <2>2 DEF WindowInv, TurnInv
  <2>5. WindowsKept'
      BY <2>1, <2>2 DEF WindowInv, WindowsKept, Held
  <2> QED
      BY <2>3, <2>4, <2>5 DEF WindowInv
<1> QED
    BY <1>2, <1>3, <1>4, <1>5, <1>6, <1>7, SampleWindow, TransformWindow
    DEF MicNext, AdcStep

\* The buffer passes between the interrupt and the thread by one flag, without
\* a lock: still every window that was filled is kept whole until it has been
\* averaged, once, and nothing else is averaged.
THEOREM WindowsHandedOver == MicSpec => [](WindowsKept /\ AverageWhole)
<1>1. MicInit => WindowInv
  <2> SUFFICES ASSUME MicInit PROVE WindowInv
      OBVIOUS
  <2> USE MicAssumption DEF MicInit
  <2>1. ~Pending
      BY DEF Pending
  <2>2. PlaceInv /\ LaterInv
      BY <2>1 DEF PlaceInv, LaterInv
  <2>3. TurnInv
      BY <2>1 DEF TurnInv
  <2>4. WindowsKept
      BY <2>1 DEF WindowsKept, Held
  <2> QED
      BY <2>2, <2>3, <2>4 DEF WindowInv
<1>2. WindowInv => WindowsKept /\ AverageWhole
    BY DEF WindowInv, WindowsKept, AverageWhole, Held
<1> QED
    BY <1>1, <1>2, WindowInvStep, PTL DEF MicSpec
=============================================================================
