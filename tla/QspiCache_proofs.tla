------------------------- MODULE QspiCache_proofs -------------------------
(***************************************************************************)
(* Proofs about QspiCache, for every size of the media: typing, and that   *)
(* without overlapping calls and failed fills it is a BlockDevice.         *)
(***************************************************************************)
EXTENDS QspiCache, TLAPS

Size == Units * SectorsPerUnit

\* Products are monotonic.
LEMMA Product ==
    ASSUME NEW s \in Nat, NEW a \in Int, NEW b \in Int, a <= b
    PROVE  s * a <= s * b
<1> DEFINE d == b - a
<1>1. d \in Nat /\ b = a + d
    OBVIOUS
<1>2. s * d \in Nat /\ s * a \in Int
    BY <1>1
<1>3. s * (a + d) = s * a + s * d
    BY <1>1
<1> QED
    BY <1>1, <1>2, <1>3

LEMMA SizeType == Size \in Nat /\ Size > 0
BY ConstantsAssumption DEF Size

\* lba >> 3 and lba & 0x7 are the two parts of an address.
LEMMA Address ==
    ASSUME NEW l \in Lbas
    PROVE  /\ Unit(l) \in 0..(Units - 1)
           /\ Sector(l) \in Sectors
           /\ Unit(l) * SectorsPerUnit + Sector(l) = l
<1> DEFINE q == l \div SectorsPerUnit
           r == l % SectorsPerUnit
<1>1. l \in Nat /\ l < Units * SectorsPerUnit
    BY SizeType DEF Lbas, Size
<1>2. q \in Int /\ r \in 0..(SectorsPerUnit - 1) /\ l = SectorsPerUnit * q + r
    BY <1>1, ConstantsAssumption
<1> HIDE DEF q, r
<1>3. q >= 0
    <2>1. SUFFICES ASSUME q <= -1 PROVE FALSE
        BY <1>2
    <2>2. SectorsPerUnit * q <= SectorsPerUnit * (-1)
        BY <2>1, <1>2, ConstantsAssumption, Product
    <2> QED
        BY <2>2, <1>1, <1>2, ConstantsAssumption
<1>4. q < Units
    <2>1. SUFFICES ASSUME q >= Units PROVE FALSE
        BY <1>2, ConstantsAssumption
    <2>2. SectorsPerUnit * Units <= SectorsPerUnit * q
        BY <2>1, <1>2, ConstantsAssumption, Product
    <2> QED
        BY <2>2, <1>1, <1>2, ConstantsAssumption
<1>5. SectorsPerUnit * q = q * SectorsPerUnit
    BY <1>2, ConstantsAssumption
<1> QED
    BY <1>1, <1>2, <1>3, <1>4, <1>5, ConstantsAssumption
    DEF Unit, Sector, Sectors, q, r

LEMMA UnitAddress ==
    ASSUME NEW u \in 0..(Units - 1), NEW p \in Sectors
    PROVE  u * SectorsPerUnit + p \in Lbas
<1>1. u * SectorsPerUnit \in Nat
    BY ConstantsAssumption
<1>2. u * SectorsPerUnit <= (Units - 1) * SectorsPerUnit
    BY ConstantsAssumption
<1>3. (Units - 1) * SectorsPerUnit = Units * SectorsPerUnit - SectorsPerUnit
    BY ConstantsAssumption
<1>4. p \in Nat /\ p < SectorsPerUnit
    BY ConstantsAssumption DEF Sectors
<1> QED
    BY <1>1, <1>2, <1>3, <1>4, SizeType, ConstantsAssumption DEF Lbas, Size

\* No two addresses have the same unit and sector.
LEMMA Distinct ==
    ASSUME NEW l \in Lbas, NEW m \in Lbas,
           Unit(l) = Unit(m), Sector(l) = Sector(m)
    PROVE  l = m
<1>1. Unit(l) * SectorsPerUnit + Sector(l) = l
    BY Address
<1>2. Unit(m) * SectorsPerUnit + Sector(m) = m
    BY Address
<1> QED
    BY <1>1, <1>2

-----------------------------------------------------------------------------
(* Typing *)

\* A call that still has a sector to read or write has one on the media.
CallOK(c) ==
    /\ c \in Calls
    /\ c.lba + c.left <= Size
    /\ c.pc \in {"cached", "direct", "retag", "fill", "modify"} => c.left > 0
    /\ c.pc \in {"erase", "program"} /\ c.kind # "flush" => c.left > 0
    /\ c.pc = "program" => c.page < SectorsPerUnit

TypeInv == TypeOK /\ \A t \in Threads : call[t] = Idle \/ CallOK(call[t])

\* A call with sectors left is at a sector of the media.
LEMMA AtSector ==
    ASSUME NEW c, CallOK(c), c.left > 0
    PROVE  c.lba \in Lbas
BY SizeType DEF CallOK, Calls, Lbas, Size

\* What is read into the cache are sectors.
LEMMA FillType ==
    ASSUME TypeOK, NEW d \in FlashUnit(last_subsect_num)
    PROVE  d \in [Sectors -> Data]
<1>1. CASE last_subsect_num \in 0..(Units - 1)
    <2>1. d = [p \in Sectors |-> flash[last_subsect_num * SectorsPerUnit + p]]
        BY <1>1 DEF FlashUnit
    <2>2. \A p \in Sectors : last_subsect_num * SectorsPerUnit + p \in Lbas
        BY <1>1, UnitAddress
    <2> QED
        BY <2>1, <2>2 DEF TypeOK
<1>2. CASE last_subsect_num \notin 0..(Units - 1)
    BY <1>2 DEF FlashUnit
<1> QED
    BY <1>1, <1>2

\* The next sector of a call, if there is one, is on the media.
LEMMA NextBlockOK ==
    ASSUME NEW c, CallOK(c), c.left > 0
    PROVE  CallOK(NextBlock(c))
<1>1. c.lba \in Nat /\ c.left \in Nat /\ c.lba + c.left <= Size
    BY DEF CallOK, Calls
<1>2. NextBlock(c) =
          [c EXCEPT !.pc = "block", !.lba = c.lba + 1, !.left = c.left - 1]
    BY DEF NextBlock
<1>3. /\ NextBlock(c) \in Calls
      /\ NextBlock(c).pc = "block"
      /\ NextBlock(c).lba = c.lba + 1
      /\ NextBlock(c).left = c.left - 1
    <2>1. c \in Calls /\ "block" \in Pcs /\ c.lba + 1 \in Nat
          /\ c.left - 1 \in Nat
        BY <1>1 DEF CallOK, Pcs
    <2> QED
        BY <2>1, <1>2 DEF Calls
<1> QED
    BY <1>1, <1>3, SizeType DEF CallOK

LEMMA NextPageOK ==
    ASSUME NEW c, CallOK(c), c.pc = "program"
    PROVE  CallOK(NextPage(c))
<1>1. c.page \in Nat /\ c.page < SectorsPerUnit /\ SectorsPerUnit \in Nat
    BY ConstantsAssumption DEF CallOK, Calls
<1>2. CASE c.page + 1 < SectorsPerUnit
    <2>1. NextPage(c) = [c EXCEPT !.page = c.page + 1]
        BY <1>2 DEF NextPage
    <2> QED
        BY <2>1, <1>1, <1>2 DEF CallOK, Calls
<1>3. CASE ~(c.page + 1 < SectorsPerUnit) /\ c.kind = "flush"
    <2>1. NextPage(c) = [c EXCEPT !.pc = "clear"]
        BY <1>3 DEF NextPage
    <2> QED
        BY <2>1, <1>3 DEF CallOK, Calls, Pcs
<1>4. CASE ~(c.page + 1 < SectorsPerUnit) /\ c.kind # "flush"
    <2>1. NextPage(c) = [c EXCEPT !.pc = "retag"]
        BY <1>4 DEF NextPage
    <2> QED
        BY <2>1, <1>4 DEF CallOK, Calls, Pcs
<1> QED
    BY <1>2, <1>3, <1>4

\* A step that leaves the other threads' calls alone and gives this thread a
\* well-typed one.
LEMMA OneCall ==
    ASSUME TypeInv, NEW t \in Threads, NEW c, c = Idle \/ CallOK(c),
           call' = [call EXCEPT ![t] = c]
    PROVE  /\ call' \in [Threads -> Calls \cup {Idle}]
           /\ \A u \in Threads : call'[u] = Idle \/ CallOK(call'[u])
<1>1. c \in Calls \cup {Idle}
    BY DEF CallOK
<1> QED
    BY <1>1 DEF TypeInv, TypeOK

LEMMA CallStep ==
    ASSUME TypeInv, NEW t \in Threads, NEW c, c = Idle \/ CallOK(c),
           call' = [call EXCEPT ![t] = c],
           (flash \in [Lbas -> Data]
            /\ last_subsect_num \in {-1} \cup 0..(Units - 1)
            /\ last_subsect_data \in [Sectors -> Data]
            /\ reply \in {<<>>} \cup (Lbas \X Data)
            /\ calls \in Nat /\ mishaps \in Nat)'
    PROVE  TypeInv'
<1>1. /\ call' \in [Threads -> Calls \cup {Idle}]
      /\ \A u \in Threads : call'[u] = Idle \/ CallOK(call'[u])
    BY OneCall
<1> QED
    BY <1>1 DEF TypeInv, TypeOK, CallOK

LEMMA BoundsType ==
    ASSUME TypeInv, NEW t \in Threads,
           ReadDirect(t) \/ Fill(t) \/ Erase(t) \/ Program(t)
    PROVE  calls' \in Nat /\ mishaps' \in Nat
<1>1. mishaps' = mishaps \/ mishaps' = mishaps + 1
    BY DEF ReadDirect, Fill, Erase, Program, Fail
<1>2. calls' = calls
    BY DEF ReadDirect, Fill, Erase, Program
<1> QED
    BY <1>1, <1>2 DEF TypeInv, TypeOK

LEMMA ReadType ==
    ASSUME TypeInv, NEW t \in Threads,
           End(t) \/ ReadBlock(t) \/ WriteBlock(t) \/ ReadCached(t)
           \/ ReadDirect(t)
    PROVE  TypeInv'
<1> DEFINE c == call[t]
<1>0. Idle.pc = "idle" /\ (c # Idle => CallOK(c) /\ c \in Calls)
    BY DEF TypeInv, Idle, CallOK
<1>1. CASE End(t)
    BY <1>1, CallStep DEF End, Return, bounds, TypeInv, TypeOK
<1>2. CASE ReadBlock(t)
    <2>1. PICK pc \in {"cached", "direct"} : call' = [call EXCEPT ![t].pc = pc]
        BY <1>2 DEF ReadBlock, Goto
    <2>2. CallOK([c EXCEPT !.pc = pc])
        BY <1>0, <1>2, <2>1 DEF ReadBlock, CallOK, Calls, Pcs
    <2> QED
        BY <1>2, <2>1, <2>2, CallStep
        DEF ReadBlock, bounds, TypeInv, TypeOK
<1>3. CASE WriteBlock(t)
    <2> DEFINE pc == CASE last_subsect_num = -1 -> "retag"
                       [] last_subsect_num = Unit(c.lba) -> "modify"
                       [] OTHER -> "erase"
    <2>0. pc \in {"retag", "modify", "erase"}
        OBVIOUS
    <2>1. pc \in {"retag", "modify", "erase"}
          /\ call' = [call EXCEPT ![t].pc = pc]
        BY <2>0, <1>3 DEF WriteBlock, Goto
    <2> HIDE DEF pc
    <2>2. CallOK([c EXCEPT !.pc = pc])
        BY <1>0, <1>3, <2>1 DEF WriteBlock, CallOK, Calls, Pcs
    <2> QED
        BY <1>3, <2>1, <2>2, CallStep
        DEF WriteBlock, bounds, TypeInv, TypeOK
<1>4. CASE ReadCached(t)
    <2>1. CallOK(c) /\ c.left > 0
        BY <1>0, <1>4 DEF ReadCached, CallOK
    <2>2. c.lba \in Lbas /\ Sector(c.lba) \in Sectors
        BY <2>1, AtSector, Address
    <2>3. reply' \in Lbas \X Data
        BY <1>4, <2>2 DEF ReadCached, TypeInv, TypeOK
    <2> QED
        BY <1>4, <2>1, <2>3, NextBlockOK, CallStep
        DEF ReadCached, bounds, TypeInv, TypeOK
<1>5. CASE ReadDirect(t)
    <2>1. CallOK(c) /\ c.left > 0
        BY <1>0, <1>5 DEF ReadDirect, CallOK
    <2>2. c.lba \in Lbas
        BY <2>1, AtSector
    <2>3. CASE /\ reply' = <<c.lba, flash[c.lba]>>
               /\ call' = [call EXCEPT ![t] = NextBlock(c)]
        <3>1. reply' \in Lbas \X Data
            BY <2>2, <2>3 DEF TypeInv, TypeOK
        <3> QED
            BY <1>5, <2>1, <2>3, <3>1, NextBlockOK, CallStep, BoundsType
            DEF ReadDirect, bounds, TypeInv, TypeOK
    <2>4. CASE Return(t) /\ UNCHANGED reply
        BY <1>5, <2>4, CallStep, BoundsType
        DEF ReadDirect, Return, bounds, TypeInv, TypeOK
    <2> QED
        BY <1>5, <2>3, <2>4 DEF ReadDirect
<1> QED
    BY <1>1, <1>2, <1>3, <1>4, <1>5

LEMMA WriteType ==
    ASSUME TypeInv, NEW t \in Threads, Retag(t) \/ Fill(t) \/ Modify(t)
    PROVE  TypeInv'
<1> DEFINE c == call[t]
<1>0. Idle.pc = "idle" /\ (c # Idle => CallOK(c) /\ c \in Calls)
    BY DEF TypeInv, Idle, CallOK
<1>1. CallOK(c) /\ c.left > 0
    BY <1>0 DEF Retag, Fill, Modify, CallOK
<1>2. c.lba \in Lbas /\ Sector(c.lba) \in Sectors
      /\ Unit(c.lba) \in 0..(Units - 1)
    BY <1>1, AtSector, Address
<1>3. CASE Retag(t)
    <2>1. CallOK([c EXCEPT !.pc = "fill"])
        BY <1>1 DEF CallOK, Calls, Pcs
    <2> QED
        BY <1>2, <1>3, <2>1, CallStep
        DEF Retag, Goto, bounds, TypeInv, TypeOK
<1>4. CASE Fill(t)
    <2>1. CallOK([c EXCEPT !.pc = "modify"])
        BY <1>1 DEF CallOK, Calls, Pcs
    <2>2. CASE /\ last_subsect_data' \in FlashUnit(last_subsect_num)
               /\ Goto(t, "modify")
        <3>1. last_subsect_data' \in [Sectors -> Data]
            BY <2>2, FillType DEF TypeInv
        <3> QED
            BY <1>4, <2>1, <2>2, <3>1, CallStep, BoundsType
            DEF Fill, Goto, bounds, TypeInv, TypeOK
    <2>3. CASE Return(t) /\ UNCHANGED last_subsect_data
        BY <1>4, <2>3, CallStep, BoundsType DEF Fill, Return, bounds, TypeInv, TypeOK
    <2> QED
        BY <1>4, <2>2, <2>3 DEF Fill
<1>5. CASE Modify(t)
    <2>1. last_subsect_data' \in [Sectors -> Data]
        BY <1>2, <1>5 DEF Modify, TypeInv, TypeOK, Data
    <2> QED
        BY <1>1, <1>5, <2>1, NextBlockOK, CallStep
        DEF Modify, bounds, TypeInv, TypeOK
<1> QED
    BY <1>3, <1>4, <1>5

LEMMA WriteBackType ==
    ASSUME TypeInv, NEW t \in Threads,
           Erase(t) \/ Program(t) \/ Clear(t) \/ Wipe(t)
    PROVE  TypeInv'
<1> DEFINE c == call[t]
<1>0. Idle.pc = "idle" /\ (c # Idle => CallOK(c) /\ c \in Calls)
    BY DEF TypeInv, Idle, CallOK
<1>1. CallOK(c)
    BY <1>0 DEF Erase, Program, Clear, Wipe
<1>2. CASE Erase(t)
    <2>1. flash' \in [Lbas -> Data]
        BY <1>2 DEF Erase, TypeInv, TypeOK, Data
    <2>2. CASE call' = [call EXCEPT ![t].pc = "program", ![t].page = 0]
        <3> DEFINE d == [[c EXCEPT !.pc = "program"] EXCEPT !.page = 0]
        <3>1. call' = [call EXCEPT ![t] = d]
            BY <2>2 DEF TypeInv, TypeOK
        <3>2. d \in Calls /\ d.pc = "program" /\ d.page = 0 /\ d.lba = c.lba
              /\ d.left = c.left /\ d.kind = c.kind
            <4>1. c \in Calls /\ "program" \in Pcs
                BY <1>1 DEF CallOK, Pcs
            <4> QED
                BY <4>1 DEF Calls
        <3>3. c.lba + c.left <= Size /\ (c.kind # "flush" => c.left > 0)
            BY <1>1, <1>2 DEF Erase, CallOK
        <3>4. CallOK(d)
            BY <3>2, <3>3, ConstantsAssumption DEF CallOK
        <3> QED
            BY <1>2, <2>1, <3>1, <3>4, CallStep, BoundsType
            DEF Erase, bounds, TypeInv, TypeOK
    <2>3. CASE Return(t)
        BY <1>2, <2>1, <2>3, CallStep, BoundsType
        DEF Erase, Return, bounds, TypeInv, TypeOK
    <2> QED
        BY <1>2, <2>2, <2>3 DEF Erase
<1>3. CASE Program(t)
    <2>1. CASE Fail("program") /\ Return(t) /\ UNCHANGED flash
        BY <1>3, <2>1, CallStep, BoundsType
        DEF Program, Return, bounds, TypeInv, TypeOK
    <2>2. ASSUME NEW any \in Data,
                 flash' = [l \in Lbas |->
                    IF Unit(l) = last_subsect_num /\ Sector(l) = c.page
                    THEN Programmed(flash[l], last_subsect_data[c.page], any)
                    ELSE flash[l]],
                 call' = [call EXCEPT ![t] = NextPage(c)]
          PROVE  TypeInv'
        <3>1. c.page \in Sectors /\ c.pc = "program"
            BY <1>1, <1>3, ConstantsAssumption
            DEF Program, CallOK, Calls, Sectors
        <3>2. flash' \in [Lbas -> Data]
            BY <2>2, <3>1 DEF Programmed, TypeInv, TypeOK
        <3>3. CallOK(NextPage(c))
            BY <1>1, <3>1, NextPageOK
        <3> QED
            BY <1>3, <2>2, <3>2, <3>3, CallStep, BoundsType
            DEF Program, bounds, TypeInv, TypeOK
    <2> QED
        BY <1>3, <2>1, <2>2 DEF Program
<1>4. CASE Clear(t)
    <2>1. CallOK([c EXCEPT !.pc = "wipe"])
        BY <1>1 DEF CallOK, Calls, Pcs
    <2> QED
        BY <1>4, <2>1, CallStep DEF Clear, Goto, bounds, TypeInv, TypeOK
<1>5. CASE Wipe(t)
    BY <1>5, CallStep DEF Wipe, Return, bounds, TypeInv, TypeOK, Data
<1> QED
    BY <1>2, <1>3, <1>4, <1>5

LEMMA ContinueType ==
    ASSUME TypeInv, NEW t \in Threads, Continue(t)
    PROVE  TypeInv'
BY ReadType, WriteType, WriteBackType DEF Continue

LEMMA BeginType ==
    ASSUME TypeInv, BeginFlush \/ \E t \in Threads : BeginCall(t)
    PROVE  TypeInv'
<1>1. CASE BeginFlush
    <2> DEFINE c == [pc |-> "erase", kind |-> "flush", lba |-> 0, left |-> 0,
                     page |-> 0]
    <2>1. CallOK(c)
        BY SizeType DEF CallOK, Calls, Pcs
    <2> QED
        BY <1>1, <2>1, CallStep, ConstantsAssumption DEF BeginFlush, bounds, TypeInv, TypeOK
<1>2. ASSUME NEW t \in Threads, BeginCall(t) PROVE TypeInv'
    <2>1. PICK kind \in {"read", "write"}, lba \in Lbas,
               blocks \in 1..MaxBlocks : Begin(t, kind, lba, blocks)
        BY <1>2 DEF BeginCall
    <2> DEFINE c == [pc |-> "block", kind |-> kind, lba |-> lba,
                     left |-> blocks, page |-> 0]
    <2>2. lba \in Nat /\ blocks \in Nat /\ lba + blocks <= Size
        BY <2>1, SizeType, ConstantsAssumption DEF Begin, Lbas, Size
    <2>3. CallOK(c)
        BY <2>2 DEF CallOK, Calls, Pcs
    <2>4. call' = [call EXCEPT ![t] = c] /\ calls' \in Nat
          /\ UNCHANGED <<flash, last_subsect_num, last_subsect_data, reply,
                         mishaps>>
        BY <2>1 DEF Begin, TypeInv, TypeOK
    <2> HIDE DEF c
    <2> QED
        BY <2>3, <2>4, CallStep DEF TypeInv, TypeOK
<1> QED
    BY <1>1, <1>2

LEMMA PowerCutType == TypeInv /\ PowerCut => TypeInv'
BY DEF PowerCut, Fail, TypeInv, TypeOK, CallOK, Data

LEMMA InitType == Init => TypeInv
<1> SUFFICES ASSUME Init PROVE TypeInv
    OBVIOUS
<1>1. flash \in [Lbas -> Data] /\ last_subsect_data \in [Sectors -> Data]
    BY DEF Init, Data
<1> QED
    BY <1>1 DEF Init, TypeInv, TypeOK, CallOK

LEMMA NextType ==
    ASSUME TypeInv, [Next]_vars PROVE TypeInv'
<1>1. CASE UNCHANGED vars
    BY <1>1 DEF vars, bounds, TypeInv, TypeOK, CallOK
<1> QED
    BY <1>1, ContinueType, BeginType, PowerCutType DEF Next

\* Every reachable state has the declared types, also when calls overlap.
THEOREM Typing == Spec => []TypeOK
<1>1. TypeInv /\ [Next]_vars => TypeInv'
    BY NextType
<1>2. TypeInv => TypeOK
    BY DEF TypeInv
<1> QED
    BY <1>1, <1>2, InitType, PTL DEF Spec

-----------------------------------------------------------------------------
(* The cache, when calls do not overlap *)

Serial == \A t, u \in Threads : call[t] # Idle /\ call[u] # Idle => t = u

InCache(l) == Unit(l) = last_subsect_num

\* the flash holds what the cache holds
Stored == \A l \in Lbas : InCache(l) => flash[l] = last_subsect_data[Sector(l)]

\* the erase unit has been erased, and programmed up to page p
Programming(p) ==
    \A l \in Lbas : InCache(l) =>
        flash[l] = IF Sector(l) < p THEN last_subsect_data[Sector(l)]
                   ELSE Erased

\* what a call may rely on at each of its steps
CacheOK(c) ==
    /\ c.pc \in {"fill", "modify", "cached"} => InCache(c.lba)
    /\ c.pc = "direct" => ~InCache(c.lba)
    /\ c.pc = "program" => Programming(c.page)
    /\ c.pc \in {"retag", "clear"} => Stored
    /\ c.pc = "wipe" => last_subsect_num = -1

CacheInv == TypeInv /\ Serial /\ \A t \in Threads : CacheOK(call[t])

LEMMA InitCache == Init => CacheInv
BY InitType DEF Init, CacheInv, Serial, CacheOK, Idle

\* Only the thread that goes on is in the driver.
LEMMA Alone ==
    ASSUME CacheInv, NEW t \in Threads, Continue(t)
    PROVE  /\ call[t] # Idle /\ CallOK(call[t]) /\ CacheOK(call[t])
           /\ \A u \in Threads \ {t} : call[u] = Idle /\ call'[u] = Idle
<1>1. call[t] # Idle
    BY DEF Continue, End, ReadBlock, WriteBlock, ReadCached, ReadDirect, Retag,
           Fill, Modify, Erase, Program, Clear, Wipe, Idle
<1>2. CallOK(call[t]) /\ CacheOK(call[t])
    BY <1>1 DEF CacheInv, TypeInv
<1>3. \A u \in Threads \ {t} : call[u] = Idle
    BY <1>1 DEF CacheInv, Serial
<1>4. \A u \in Threads \ {t} : call'[u] = call[u]
    <2> USE DEF CacheInv, TypeInv, TypeOK, Return, Goto
    <2>1. CASE End(t) \/ ReadBlock(t) \/ WriteBlock(t) \/ ReadCached(t)
        BY <2>1 DEF End, ReadBlock, WriteBlock, ReadCached
    <2>2. CASE ReadDirect(t) \/ Retag(t) \/ Fill(t) \/ Modify(t)
        BY <2>2 DEF ReadDirect, Fail, Retag, Fill, Modify
    <2>3. CASE Erase(t) \/ Program(t) \/ Clear(t) \/ Wipe(t)
        BY <2>3 DEF Erase, Fail, Program, Clear, Wipe
    <2> QED
        BY <2>1, <2>2, <2>3 DEF Continue
<1> QED
    BY <1>1, <1>2, <1>3, <1>4

\* So it is enough that it may rely on the cache at its next step.
LEMMA ContinueAlone ==
    ASSUME CacheInv, NEW t \in Threads, Continue(t), CacheOK(call[t])'
    PROVE  CacheInv'
<1>1. TypeInv'
    BY ContinueType DEF CacheInv
<1>2. \A u \in Threads \ {t} : call'[u] = Idle
    BY Alone
<1>3. Serial'
    BY <1>2 DEF Serial
<1>4. ASSUME NEW u \in Threads \ {t} PROVE CacheOK(call[u])'
    BY <1>2 DEF CacheOK, Idle
<1> QED
    BY <1>1, <1>3, <1>4 DEF CacheInv

\* Reading leaves the media alone.
LEMMA ReadCache ==
    ASSUME CacheInv, NEW t \in Threads,
           End(t) \/ ReadBlock(t) \/ ReadCached(t) \/ ReadDirect(t)
    PROVE  CacheInv'
<1> DEFINE c == call[t]
<1>1. Continue(t)
    BY DEF Continue
<1>2. CallOK(c) /\ CacheOK(c) /\ call \in [Threads -> Calls \cup {Idle}]
    BY <1>1, Alone DEF CacheInv, TypeInv, TypeOK
<1>3. call'[t] = Idle \/ call'[t].pc = "block" => CacheInv'
    BY <1>1, ContinueAlone DEF CacheOK, Idle
<1>4. CASE End(t) \/ ReadDirect(t) \/ ReadCached(t)
    BY <1>2, <1>3, <1>4
    DEF End, ReadDirect, ReadCached, Return, NextBlock, CallOK, Calls
<1>5. CASE ReadBlock(t)
    <2>1. PICK pc \in {"cached", "direct"} :
              /\ call' = [call EXCEPT ![t].pc = pc]
              /\ pc = "cached" <=> last_subsect_num = Unit(c.lba)
        BY <1>5 DEF ReadBlock, Goto
    <2>2. call'[t] = [c EXCEPT !.pc = pc] /\ c \in Calls
        BY <1>2, <2>1 DEF CallOK
    <2>3. call'[t].pc = pc /\ call'[t].lba = c.lba
        BY <2>2 DEF Calls
    <2>4. last_subsect_num' = last_subsect_num
        BY <1>5 DEF ReadBlock
    <2>5. CacheOK(call[t])'
        BY <2>1, <2>3, <2>4 DEF CacheOK, InCache
    <2> QED
        BY <1>1, <2>5, ContinueAlone
<1> QED
    BY <1>4, <1>5

LEMMA WriteCache ==
    ASSUME CacheInv, NEW t \in Threads,
           WriteBlock(t) \/ Retag(t) \/ Fill(t) \/ Modify(t)
    PROVE  CacheInv'
<1> DEFINE c == call[t]
<1>1. Continue(t)
    BY DEF Continue
<1>2. /\ CallOK(c) /\ CacheOK(c) /\ c \in Calls
      /\ call \in [Threads -> Calls \cup {Idle}]
    BY <1>1, Alone DEF CacheInv, TypeInv, TypeOK, CallOK
<1>3. SUFFICES CacheOK(call[t])'
    BY <1>1, ContinueAlone
<1>4. CASE WriteBlock(t)
    <2> DEFINE pc == CASE last_subsect_num = -1 -> "retag"
                       [] last_subsect_num = Unit(c.lba) -> "modify"
                       [] OTHER -> "erase"
    <2>1. call'[t] = [c EXCEPT !.pc = pc]
        BY <1>2, <1>4 DEF WriteBlock, Goto
    <2>2. call'[t].pc = pc /\ call'[t].lba = c.lba
        BY <1>2, <2>1 DEF Calls
    <2>3. /\ pc \in {"retag", "modify", "erase"}
          /\ pc = "retag" => last_subsect_num = -1
          /\ pc = "modify" => last_subsect_num = Unit(c.lba)
        OBVIOUS
    <2>4. UNCHANGED <<flash, last_subsect_num, last_subsect_data>>
        BY <1>4 DEF WriteBlock
    <2>5. last_subsect_num = -1 => Stored
        BY Address DEF Stored, InCache
    <2>6. Stored' = Stored
        BY <2>4 DEF Stored, InCache
    <2> HIDE DEF pc
    <2> QED
        BY <2>2, <2>3, <2>4, <2>5, <2>6 DEF CacheOK, InCache
<1>5. CASE Retag(t)
    <2>1. call'[t].pc = "fill" /\ call'[t].lba = c.lba
        BY <1>2, <1>5 DEF Retag, Goto, Calls
    <2> QED
        BY <1>5, <2>1 DEF Retag, CacheOK, InCache
<1>6. CASE Fill(t)
    <2>1. c.pc = "fill" /\ last_subsect_num' = last_subsect_num
        BY <1>6 DEF Fill, Fail
    <2>2. call'[t] = Idle \/ (call'[t].pc = "modify" /\ call'[t].lba = c.lba)
        BY <1>2, <1>6 DEF Fill, Fail, Goto, Return, Calls
    <2> QED
        BY <1>2, <2>1, <2>2 DEF CacheOK, InCache, Idle
<1>7. CASE Modify(t)
    <2>1. call'[t].pc = "block"
        BY <1>2, <1>7 DEF Modify, NextBlock, Calls
    <2> QED
        BY <2>1 DEF CacheOK
<1> QED
    BY <1>4, <1>5, <1>6, <1>7

LEMMA WriteBackCache ==
    ASSUME CacheInv, NEW t \in Threads,
           Erase(t) \/ Program(t) \/ Clear(t) \/ Wipe(t)
    PROVE  CacheInv'
<1> DEFINE c == call[t]
<1>1. Continue(t)
    BY DEF Continue
<1>2. /\ CallOK(c) /\ CacheOK(c) /\ c \in Calls
      /\ call \in [Threads -> Calls \cup {Idle}]
    BY <1>1, Alone DEF CacheInv, TypeInv, TypeOK, CallOK
<1>3. SUFFICES CacheOK(call[t])'
    BY <1>1, ContinueAlone
<1>4. CASE call'[t] = Idle
    BY <1>4 DEF CacheOK, Idle
<1>5. CASE Erase(t) /\ call'[t] # Idle
    <2>1. call'[t].pc = "program" /\ call'[t].page = 0
        BY <1>2, <1>5 DEF Erase, Fail, Return, Calls
    <2>2. \A l \in Lbas : InCache(l)' => flash'[l] = Erased
        BY <1>5 DEF Erase, Fail, InCache
    <2>3. \A l \in Lbas : ~(Sector(l) < 0)
        BY Address DEF Sectors
    <2>4. Programming(0)'
        BY <2>2, <2>3 DEF Programming
    <2> QED
        BY <2>1, <2>4 DEF CacheOK
<1>6. CASE Program(t) /\ call'[t] # Idle
    <2>1. PICK any \in Data :
              flash' = [l \in Lbas |->
                  IF Unit(l) = last_subsect_num /\ Sector(l) = c.page
                  THEN Programmed(flash[l], last_subsect_data[c.page], any)
                  ELSE flash[l]]
        BY <1>2, <1>6 DEF Program, Fail, Return
    <2>2. /\ call'[t] = NextPage(c)
          /\ UNCHANGED <<last_subsect_num, last_subsect_data>>
          /\ Programming(c.page) /\ c.pc = "program"
        BY <1>2, <1>6 DEF Program, Fail, Return, CacheOK
    <2>3. c.page \in Nat /\ c.page < SectorsPerUnit
        BY <1>2, <2>2 DEF CallOK, Calls
    <2>4. \A l \in Lbas : Sector(l) \in Nat /\ Sector(l) < SectorsPerUnit
        BY Address, ConstantsAssumption DEF Sectors
    <2>5. ASSUME NEW l \in Lbas, InCache(l)'
          PROVE  flash'[l] = IF Sector(l) < c.page + 1
                             THEN last_subsect_data[Sector(l)] ELSE Erased
        <3>1. InCache(l)
            BY <2>2, <2>5 DEF InCache
        <3>2. flash[l] = IF Sector(l) < c.page
                         THEN last_subsect_data[Sector(l)] ELSE Erased
            BY <2>2, <3>1 DEF Programming
        <3>3. CASE Sector(l) = c.page
            BY <2>1, <2>3, <3>1, <3>2, <3>3 DEF InCache, Programmed
        <3>4. CASE Sector(l) # c.page
            <4>1. flash'[l] = flash[l]
                BY <2>1, <3>4
            <4>2. Sector(l) < c.page <=> Sector(l) < c.page + 1
                BY <2>3, <2>4, <3>4
            <4> QED
                BY <3>2, <4>1, <4>2
        <3> QED
            BY <3>3, <3>4
    <2>6. CASE c.page + 1 < SectorsPerUnit
        <3>1. call'[t].pc = "program" /\ call'[t].page = c.page + 1
            BY <1>2, <2>2, <2>6 DEF NextPage, Calls
        <3>2. Programming(call[t].page)'
            BY <2>2, <2>5, <3>1 DEF Programming
        <3> QED
            BY <3>1, <3>2 DEF CacheOK
    <2>7. CASE ~(c.page + 1 < SectorsPerUnit)
        <3>1. call'[t].pc \in {"retag", "clear"}
            BY <1>2, <2>2, <2>7 DEF NextPage, Calls
        <3>2. \A l \in Lbas : Sector(l) < c.page + 1
            BY <2>3, <2>4, <2>7, ConstantsAssumption
        <3>3. Stored'
            BY <2>2, <2>5, <3>2 DEF Stored
        <3> QED
            BY <3>1, <3>3 DEF CacheOK
    <2> QED
        BY <2>6, <2>7
<1>7. CASE Clear(t)
    <2>1. call'[t].pc = "wipe" /\ last_subsect_num' = -1
        BY <1>2, <1>7 DEF Clear, Goto, Calls
    <2> QED
        BY <2>1 DEF CacheOK
<1>8. CASE Wipe(t)
    BY <1>2, <1>4, <1>8 DEF Wipe, Return
<1> QED
    BY <1>4, <1>5, <1>6, <1>7, <1>8

LEMMA NextCache ==
    ASSUME CacheInv, [SerialNext]_vars PROVE CacheInv'
<1>1. ASSUME NEW t \in Threads, Continue(t) PROVE CacheInv'
    BY <1>1, ReadCache, WriteCache, WriteBackCache DEF Continue
<1>2. ASSUME NEW t \in Threads, NoCall, BeginCall(t) PROVE CacheInv'
    <2>1. TypeInv'
        BY <1>2, BeginType DEF CacheInv
    <2>2. \A u \in Threads \ {t} : call'[u] = Idle
        BY <1>2 DEF NoCall, BeginCall, Begin
    <2>3. call'[t].pc = "block"
        BY <1>2 DEF BeginCall, Begin, CacheInv, TypeInv, TypeOK
    <2> QED
        BY <2>1, <2>2, <2>3 DEF CacheInv, Serial, CacheOK, Idle
<1>3. ASSUME NoCall, BeginFlush PROVE CacheInv'
    <2>1. TypeInv'
        BY <1>3, BeginType DEF CacheInv
    <2>2. \A u \in Threads \ {Flusher} : call'[u] = Idle
        BY <1>3 DEF NoCall, BeginFlush
    <2>3. call'[Flusher].pc = "erase"
        BY <1>3, ConstantsAssumption
        DEF BeginFlush, CacheInv, TypeInv, TypeOK
    <2> QED
        BY <2>1, <2>2, <2>3 DEF CacheInv, Serial, CacheOK, Idle
<1>4. CASE PowerCut
    <2>1. TypeInv' /\ \A u \in Threads : call'[u] = Idle
        BY <1>4, PowerCutType DEF PowerCut, Fail, CacheInv
    <2> QED
        BY <2>1 DEF CacheInv, Serial, CacheOK, Idle
<1>5. CASE UNCHANGED vars
    <2>1. TypeInv'
        BY <1>5, NextType DEF CacheInv
    <2>2. UNCHANGED <<flash, last_subsect_num, last_subsect_data, call>>
        BY <1>5 DEF vars
    <2> QED
        BY <2>1, <2>2
        DEF CacheInv, Serial, CacheOK, InCache, Programming, Stored
<1> QED
    BY <1>1, <1>2, <1>3, <1>4, <1>5 DEF SerialNext

-----------------------------------------------------------------------------
(* The driver is a block device *)

DeviceNext == Device!Next \/ UNCHANGED Device!vars

LEMMA InitDevice == Init => Device!Init
<1> SUFFICES ASSUME Init PROVE Device!Init
    OBVIOUS
<1>1. ~Filling /\ last_subsect_num = -1 /\ reply = <<>>
    BY DEF Init, Filling, Idle
<1>2. \A l \in Lbas : last_subsect_num # Unit(l)
    BY <1>1, Address
<1>3. flash \in [Lbas -> Data]
    BY DEF Init, Data
<1>4. Disk = flash
    BY <1>2, <1>3 DEF Disk
<1> QED
    BY <1>1, <1>2, <1>3, <1>4 DEF Device!Init

\* The steps that move only a call are invisible.
LEMMA Invisible ==
    ASSUME UNCHANGED <<flash, last_subsect_num, last_subsect_data, reply>>,
           Filling' = Filling
    PROVE  UNCHANGED Device!vars
BY DEF Device!vars, Disk

\* The cache is being filled when the one call in the driver fills it.
LEMMA FillingIs ==
    ASSUME CacheInv, NEW t \in Threads, Continue(t)
    PROVE  /\ Filling <=> call[t].pc = "fill"
           /\ Filling' <=> call'[t].pc = "fill"
<1>1. \A u \in Threads \ {t} : call[u].pc = "idle" /\ call'[u].pc = "idle"
    BY Alone DEF Idle
<1> QED
    BY <1>1 DEF Filling

\* When the cache is not being filled and the flash holds what it holds, a
\* sector is what the flash holds.
LEMMA DiskStored ==
    ASSUME TypeOK, Filling \/ Stored
    PROVE  Disk = flash
BY DEF TypeOK, Disk, Stored, InCache

LEMMA ReadDevice ==
    ASSUME CacheInv, NEW t \in Threads,
           End(t) \/ ReadBlock(t) \/ WriteBlock(t) \/ ReadCached(t)
           \/ ReadDirect(t)
    PROVE  DeviceNext
<1> DEFINE c == call[t]
<1>1. Continue(t)
    BY DEF Continue
<1>2. /\ CallOK(c) /\ CacheOK(c) /\ c \in Calls
      /\ call \in [Threads -> Calls \cup {Idle}]
    BY <1>1, Alone DEF CacheInv, TypeInv, TypeOK, CallOK
<1>3. c.pc # "fill"
    BY DEF End, ReadBlock, WriteBlock, ReadCached, ReadDirect
<1>4. call'[t].pc # "fill"
    <2>1. CASE End(t) \/ ReadCached(t) \/ ReadDirect(t)
        <3>1. call'[t] = Idle \/ call'[t] = NextBlock(c)
            BY <1>2, <2>1 DEF End, ReadCached, ReadDirect, Return
        <3>2. NextBlock(c).pc = "block"
            BY <1>2 DEF NextBlock, Calls
        <3> QED
            BY <3>1, <3>2 DEF Idle
    <2>2. CASE ReadBlock(t)
        BY <1>2, <2>2 DEF ReadBlock, Goto, Calls
    <2>3. CASE WriteBlock(t)
        <3> DEFINE pc == CASE last_subsect_num = -1 -> "retag"
                           [] last_subsect_num = Unit(c.lba) -> "modify"
                           [] OTHER -> "erase"
        <3>1. call'[t] = [c EXCEPT !.pc = pc]
            BY <1>2, <2>3 DEF WriteBlock, Goto
        <3>2. pc # "fill"
            OBVIOUS
        <3> QED
            BY <1>2, <3>1, <3>2 DEF Calls
    <2> QED
        BY <2>1, <2>2, <2>3
<1>5. ~Filling /\ ~Filling'
    BY <1>1, <1>3, <1>4, FillingIs
<1>6. UNCHANGED <<flash, last_subsect_num, last_subsect_data>>
    BY DEF End, ReadBlock, WriteBlock, ReadCached, ReadDirect
<1>7. CASE UNCHANGED reply
    <2>1. Filling' = Filling
        BY <1>5 DEF Filling
    <2> QED
        BY <1>6, <1>7, <2>1, Invisible DEF DeviceNext
<1>8. CASE reply' # reply
    <2>1. CASE ReadCached(t)
        <3>1. c.left > 0 /\ InCache(c.lba)
            BY <1>2, <2>1 DEF ReadCached, CallOK, CacheOK
        <3>2. c.lba \in Lbas
            BY <1>2, <3>1, AtSector
        <3>3. reply' = <<c.lba, Disk[c.lba]>>
            BY <1>5, <2>1, <3>1, <3>2 DEF ReadCached, Disk, InCache
        <3> QED
            BY <1>5, <1>6, <3>2, <3>3
            DEF DeviceNext, Device!Next, Device!Read, Disk
    <2>2. CASE ReadDirect(t)
        <3>1. c.left > 0 /\ ~InCache(c.lba)
            BY <1>2, <2>2 DEF ReadDirect, Fail, CallOK, CacheOK
        <3>2. c.lba \in Lbas
            BY <1>2, <3>1, AtSector
        <3>3. reply' = <<c.lba, Disk[c.lba]>>
            BY <1>8, <2>2, <3>1, <3>2 DEF ReadDirect, Fail, Disk, InCache
        <3> QED
            BY <1>5, <1>6, <3>2, <3>3
            DEF DeviceNext, Device!Next, Device!Read, Disk
    <2> QED
        BY <1>8, <2>1, <2>2 DEF End, ReadBlock, WriteBlock
<1> QED
    BY <1>7, <1>8

LEMMA WriteDevice ==
    ASSUME CacheInv, NEW t \in Threads, "fill" \notin Faults,
           Retag(t) \/ Fill(t) \/ Modify(t)
    PROVE  DeviceNext
<1> DEFINE c == call[t]
<1>1. Continue(t)
    BY DEF Continue
<1>2. /\ CallOK(c) /\ CacheOK(c) /\ c \in Calls
      /\ call \in [Threads -> Calls \cup {Idle}]
    BY <1>1, Alone DEF CacheInv, TypeInv, TypeOK, CallOK
<1>3. c.left > 0 /\ c.lba \in Lbas /\ TypeOK /\ TypeOK'
    BY <1>1, <1>2, AtSector, ContinueType
    DEF Retag, Fill, Modify, CallOK, CacheInv, TypeInv
<1>4. CASE Retag(t)
    <2>1. c.pc = "retag" /\ call'[t].pc = "fill"
        BY <1>2, <1>4 DEF Retag, Goto, Calls
    <2>2. Stored /\ Filling'
        BY <1>1, <1>2, <2>1, FillingIs DEF CacheOK
    <2>3. Disk = flash /\ Disk' = flash'
        <3>1. Disk = flash
            BY <1>3, <2>2, DiskStored
        <3>2. Disk' = flash'
            BY <1>3, <2>2 DEF TypeOK, Disk
        <3> QED
            BY <3>1, <3>2
    <2>4. UNCHANGED <<flash, reply>>
        BY <1>4 DEF Retag
    <2> QED
        BY <2>3, <2>4 DEF DeviceNext, Device!Next, Device!Expose
<1>5. CASE Fill(t)
    <2>1. c.pc = "fill" /\ InCache(c.lba)
        BY <1>2, <1>5 DEF Fill, Fail, CacheOK
    <2>2. last_subsect_num \in 0..(Units - 1)
        BY <1>3, <2>1, Address DEF InCache
    <2>3. /\ last_subsect_data' =
                [p \in Sectors |-> flash[last_subsect_num * SectorsPerUnit + p]]
          /\ Goto(t, "modify")
          /\ UNCHANGED <<flash, last_subsect_num, reply>>
        BY <1>5, <2>2 DEF Fill, Fail, FlashUnit
    <2>4. call'[t].pc = "modify"
        BY <1>2, <2>3 DEF Goto, Calls
    <2>5. Filling /\ ~Filling'
        BY <1>1, <2>1, <2>4, FillingIs
    <2>6. ASSUME NEW l \in Lbas, InCache(l)
          PROVE  last_subsect_data'[Sector(l)] = flash[l]
        BY <2>3, <2>6, Address DEF InCache
    <2>7. Disk' = flash
        BY <1>3, <2>3, <2>5, <2>6 DEF Disk, TypeOK, InCache
    <2>8. Disk = flash
        BY <1>3, <2>5, DiskStored
    <2> QED
        BY <2>3, <2>7, <2>8 DEF DeviceNext, Device!vars
<1>6. CASE Modify(t)
    <2>1. c.pc = "modify" /\ InCache(c.lba)
        BY <1>2, <1>6 DEF Modify, CacheOK
    <2>2. call'[t] = NextBlock(c)
        BY <1>2, <1>6 DEF Modify
    <2>3. call'[t].pc = "block"
        BY <1>2, <2>2 DEF NextBlock, Calls
    <2>4. ~Filling /\ ~Filling'
        BY <1>1, <2>1, <2>3, FillingIs
    <2>5. PICK v \in Values : last_subsect_data' =
              [last_subsect_data EXCEPT ![Sector(c.lba)] = v]
        BY <1>6 DEF Modify
    <2>6. UNCHANGED <<flash, last_subsect_num, reply>>
        BY <1>6 DEF Modify
    <2>7. Disk' = [Disk EXCEPT ![c.lba] = v]
        <3>1. ASSUME NEW l \in Lbas
              PROVE  Disk'[l] = IF l = c.lba THEN v ELSE Disk[l]
            <4>1. CASE l = c.lba
                BY <1>3, <2>1, <2>4, <2>5, <2>6, <4>1, Address
                DEF Disk, InCache, TypeOK
            <4>2. CASE l # c.lba /\ InCache(l)
                <5>1. Sector(l) # Sector(c.lba)
                    BY <1>3, <2>1, <4>2, Distinct DEF InCache
                <5> QED
                    BY <1>3, <2>4, <2>5, <2>6, <4>2, <5>1
                    DEF Disk, InCache, TypeOK
            <4>3. CASE ~InCache(l)
                BY <1>3, <2>1, <2>6, <4>3 DEF Disk, InCache
            <4> QED
                BY <4>1, <4>2, <4>3
        <3>2. Disk' = [l \in Lbas |-> Disk'[l]]
            BY DEF Disk
        <3>3. [Disk EXCEPT ![c.lba] = v] =
                  [l \in Lbas |-> IF l = c.lba THEN v ELSE Disk[l]]
            BY <1>3 DEF Disk
        <3> QED
            BY <3>1, <3>2, <3>3
    <2>8. Device!Write(c.lba, v)
        BY <1>3, <2>1, <2>6, <2>7 DEF Device!Write, InCache
    <2> QED
        BY <1>3, <2>8 DEF DeviceNext, Device!Next, Data
<1> QED
    BY <1>4, <1>5, <1>6

LEMMA WriteBackDevice ==
    ASSUME CacheInv, NEW t \in Threads,
           Erase(t) \/ Program(t) \/ Clear(t) \/ Wipe(t)
    PROVE  DeviceNext
<1> DEFINE c == call[t]
<1>1. Continue(t)
    BY DEF Continue
<1>2. /\ CallOK(c) /\ CacheOK(c) /\ c \in Calls
      /\ call \in [Threads -> Calls \cup {Idle}]
    BY <1>1, Alone DEF CacheInv, TypeInv, TypeOK, CallOK
<1>3. TypeOK /\ TypeOK'
    BY <1>1, ContinueType DEF CacheInv, TypeInv
<1>4. c.pc # "fill"
    BY DEF Erase, Fail, Program, Clear, Wipe
<1>5. call'[t].pc # "fill"
    <2>1. CASE Erase(t)
        BY <1>2, <2>1 DEF Erase, Fail, Return, Idle, Calls
    <2>2. CASE Program(t)
        <3>1. NextPage(c).pc # "fill"
            BY <1>2, <2>2 DEF Program, Fail, NextPage, Calls
        <3>2. call'[t] = Idle \/ call'[t] = NextPage(c)
            BY <1>2, <2>2 DEF Program, Fail, Return
        <3> QED
            BY <3>1, <3>2 DEF Idle
    <2>3. CASE Clear(t)
        BY <1>2, <2>3 DEF Clear, Goto, Calls
    <2>4. CASE Wipe(t)
        BY <1>2, <2>4 DEF Wipe, Return, Idle
    <2> QED
        BY <2>1, <2>2, <2>3, <2>4
<1>6. ~Filling /\ ~Filling'
    BY <1>1, <1>4, <1>5, FillingIs
<1>7. CASE Erase(t) \/ Program(t)
    <2>1. UNCHANGED <<last_subsect_num, last_subsect_data, reply>>
        BY <1>7 DEF Erase, Fail, Program
    <2>2. \A l \in Lbas : ~InCache(l) => flash'[l] = flash[l]
        BY <1>3, <1>7 DEF Erase, Fail, Program, InCache, TypeOK
    <2>3. Disk' = Disk
        BY <1>6, <2>1, <2>2 DEF Disk, InCache
    <2>4. flash' \in [Lbas -> Data]
        BY <1>3 DEF TypeOK
    <2>5. \A l \in Lbas \ {m \in Lbas : last_subsect_num = Unit(m)} :
              flash'[l] = flash[l]
        BY <2>2 DEF InCache
    <2>6. UNCHANGED {m \in Lbas : last_subsect_num = Unit(m)}
        BY <2>1
    <2>7. Device!WriteBack
        BY <2>1, <2>3, <2>4, <2>5, <2>6 DEF Device!WriteBack
    <2> QED
        BY <2>7 DEF DeviceNext, Device!Next
<1>8. CASE Clear(t)
    <2>1. Stored /\ last_subsect_num' = -1 /\ UNCHANGED <<flash, reply>>
        BY <1>2, <1>8 DEF Clear, CacheOK
    <2>2. Disk = flash
        BY <1>3, <2>1, DiskStored
    <2>3. \A l \in Lbas : last_subsect_num' # Unit(l)
        BY <2>1, Address
    <2>4. Disk' = flash'
        BY <1>3, <2>3 DEF Disk, TypeOK
    <2> QED
        BY <2>1, <2>2, <2>4 DEF DeviceNext, Device!Next, Device!Expose
<1>9. CASE Wipe(t)
    <2>1. last_subsect_num = -1 /\ UNCHANGED <<flash, last_subsect_num, reply>>
        BY <1>2, <1>9 DEF Wipe, CacheOK
    <2>2. \A l \in Lbas : last_subsect_num # Unit(l)
        BY <2>1, Address
    <2>3. Disk' = Disk
        BY <2>1, <2>2 DEF Disk
    <2> QED
        BY <2>1, <2>3 DEF DeviceNext, Device!vars
<1> QED
    BY <1>7, <1>8, <1>9

LEMMA OtherDevice ==
    ASSUME CacheInv,
           \/ NoCall /\ \E t \in Threads : BeginCall(t)
           \/ NoCall /\ BeginFlush
           \/ PowerCut
           \/ UNCHANGED vars
    PROVE  DeviceNext
<1>1. TypeOK /\ call \in [Threads -> Calls \cup {Idle}]
    BY DEF CacheInv, TypeInv, TypeOK
<1>2. CASE NoCall /\ \E t \in Threads : BeginCall(t)
    <2>1. ~Filling /\ ~Filling'
        BY <1>1, <1>2 DEF NoCall, BeginCall, Begin, Filling, Idle
    <2>2. UNCHANGED <<flash, last_subsect_num, last_subsect_data, reply>>
        BY <1>2 DEF BeginCall, Begin
    <2>3. Filling' = Filling
        BY <2>1 DEF Filling
    <2> QED
        BY <2>2, <2>3, Invisible DEF DeviceNext
<1>3. CASE NoCall /\ BeginFlush
    <2>1. ~Filling /\ ~Filling'
        BY <1>1, <1>3 DEF NoCall, BeginFlush, Filling, Idle
    <2>2. UNCHANGED <<flash, last_subsect_num, last_subsect_data, reply>>
        BY <1>3 DEF BeginFlush
    <2>3. Filling' = Filling
        BY <2>1 DEF Filling
    <2> QED
        BY <2>2, <2>3, Invisible DEF DeviceNext
<1>4. CASE PowerCut
    <2>1. last_subsect_num' = -1 /\ reply' = <<>> /\ UNCHANGED flash
        BY <1>4 DEF PowerCut, Fail
    <2>2. \A l \in Lbas : last_subsect_num' # Unit(l)
        BY <2>1, Address
    <2>3. Disk' = flash
        BY <1>1, <2>1, <2>2 DEF Disk, TypeOK
    <2>4. {l \in Lbas : last_subsect_num = Unit(l)}' = {}
        BY <2>2
    <2> QED
        BY <2>1, <2>3, <2>4 DEF DeviceNext, Device!Next, Device!PowerCut
<1>5. CASE UNCHANGED vars
    BY <1>5, Invisible DEF DeviceNext, vars, Filling
<1> QED
    BY <1>2, <1>3, <1>4, <1>5

\* For every size of the media: while calls do not overlap and units are read
\* into the cache without error, the driver is a write-back block device,
\* whatever erasure or programming fails and whenever the power is cut.
THEOREM Refinement ==
    ASSUME "fill" \notin Faults PROVE SerialSpec => DeviceSpec
<1>1. CacheInv /\ [SerialNext]_vars => CacheInv'
    BY NextCache
<1>2. CacheInv /\ [SerialNext]_vars => [Device!Next]_Device!vars
    <2>1. SUFFICES ASSUME CacheInv, [SerialNext]_vars PROVE DeviceNext
        BY DEF DeviceNext
    <2>2. ASSUME NEW t \in Threads, Continue(t) PROVE DeviceNext
        BY <2>1, <2>2, ReadDevice, WriteDevice, WriteBackDevice DEF Continue
    <2> QED
        BY <2>1, <2>2, OtherDevice DEF SerialNext
<1> QED
    BY <1>1, <1>2, InitCache, InitDevice, PTL
    DEF SerialSpec, DeviceSpec, Device!Spec
=============================================================================
