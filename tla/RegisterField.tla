--------------------------- MODULE RegisterField ---------------------------
(***************************************************************************)
(* Registers of eight bits and the fields the Bosch drivers cut out of     *)
(* them.  A byte is the set of the numbers of its bits that are 1, so that *)
(* the masks and shifts of the BITSLICE macros are operations on sets.     *)
(***************************************************************************)
EXTENDS Integers

Bit == 0..7
Byte == SUBSET Bit

\* the byte of a number; its bits above the eighth do not fit
Bits(n) == {k \in Bit : (n \div 2^k) % 2 = 1}

\* a field: where it is, the arguments its setter accepts and how the setter
\* writes it
FieldRecord(Registers) ==
    [reg : Registers, pos : Bit, len : 1..8, accepts : SUBSET (0..255),
     via : {"update", "write", "fifo", "pair"}]

Mask(f) == f.pos .. (f.pos + f.len - 1)

GetBitslice(byte, f) == {k \in 0..(f.len - 1) : f.pos + k \in byte}

\* mutant: the bits outside the slice are lost
SetWithoutMask(byte, f, value) == {b \in Mask(f) : b - f.pos \in value}

\* a value too long for the slice is cut off
SetBitslice(byte, f, value) ==
    (byte \ Mask(f)) \cup {b \in Mask(f) : b - f.pos \in value}

Truncated(f, value) == value \cap 0..(f.len - 1)
=============================================================================
