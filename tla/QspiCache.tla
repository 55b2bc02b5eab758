----------------------------- MODULE QspiCache -----------------------------
(***************************************************************************)
(* The media driver of the QSPI flash: one write-back cache of one erase   *)
(* unit (sub sector), without a lock, under the calls of FileX (read,      *)
(* write and flush requests, serialized by the media's mutex) and those of *)
(* the USB storage class (usb_media_read and usb_media_write).             *)
(*                                                                         *)
(* A step is one access to the flash or to the cache.  A page is taken to  *)
(* hold one sector.  The media is MEDIA_BASE at address 0.                 *)
(***************************************************************************)
EXTENDS Integers

CONSTANTS
    Threads,          \* the threads that call the driver
    Flusher,          \* the one among them that flushes: system_thread
    SectorsPerUnit,   \* sectors of 512 bytes in an erase unit of 4096
    Units,            \* the number of erase units of the media
    Values,           \* the contents of a sector that users write
    Erased,           \* a sector of bytes 0xFF
    Zero,             \* a sector of bytes 0x00
    MaxBlocks,        \* the most sectors a call reads or writes
    Faults,           \* what may go wrong: accesses to the flash, the power
    MaxCalls,         \* bound: the number of calls, flushes excepted
    MaxMishaps        \* bound: the number of times that something goes wrong

ASSUME ConstantsAssumption ==
    /\ Flusher \in Threads
    /\ SectorsPerUnit \in Nat \ {0}
    /\ Units \in Nat \ {0}
    /\ MaxBlocks \in Nat
    /\ Faults \subseteq {"read", "fill", "erase", "program", "power"}
    /\ MaxCalls \in Nat
    /\ MaxMishaps \in Nat

VARIABLES
    flash,              \* the flash chip
    last_subsect_num,   \* the unit in the cache, or -1
    last_subsect_data,  \* the cache
    call,               \* what each thread is doing in the driver
    reply,              \* the address and the value of the last sector read
    calls, mishaps      \* counters for the bounds

vars == <<flash, last_subsect_num, last_subsect_data, call, reply, calls,
          mishaps>>
bounds == <<calls, mishaps>>

-----------------------------------------------------------------------------
Lbas == 0..(Units * SectorsPerUnit - 1)
Sectors == 0..(SectorsPerUnit - 1)
Data == Values \cup {Erased, Zero}

\* mutant: the unit of an address is rounded up
UnitRoundedUp(lba) == (lba + 1) \div SectorsPerUnit

Unit(lba) == lba \div SectorsPerUnit         \* lba >> 3
Sector(lba) == lba % SectorsPerUnit          \* lba & 0x7

\* a unit of the media as it is read into the cache; the flash below and
\* above the media holds anything
FlashUnit(u) ==
    IF u \in 0..(Units - 1)
    THEN {[p \in Sectors |-> flash[u * SectorsPerUnit + p]]}
    ELSE [Sectors -> Data]

Idle == [pc |-> "idle"]

Pcs == {"block", "fill", "modify", "erase", "program", "retag", "cached",
        "direct", "clear", "wipe"}

Calls ==
    [pc : Pcs, kind : {"read", "write", "flush"}, lba : Nat, left : Nat,
     page : Nat]

Goto(t, pc) == call' = [call EXCEPT ![t].pc = pc]
Return(t) == call' = [call EXCEPT ![t] = Idle]

\* something goes wrong
Fail(fault) ==
    /\ fault \in Faults
    /\ mishaps < MaxMishaps
    /\ mishaps' = mishaps + 1

\* on to the next sector of the call
NextBlock(c) == [c EXCEPT !.pc = "block", !.lba = @ + 1, !.left = @ - 1]

Init ==
    /\ flash \in [Lbas -> Values]
    /\ last_subsect_num = -1
    /\ last_subsect_data = [p \in Sectors |-> Zero]
    /\ call = [t \in Threads |-> Idle]
    /\ reply = <<>>
    /\ calls = 0
    /\ mishaps = 0

-----------------------------------------------------------------------------
(* usb_media_read and usb_media_write *)

Begin(t, kind, lba, blocks) ==
    /\ call[t] = Idle
    /\ calls < MaxCalls
    /\ lba + blocks <= Units * SectorsPerUnit
    /\ call' = [call EXCEPT ![t] = [pc |-> "block", kind |-> kind, lba |-> lba,
                                    left |-> blocks, page |-> 0]]
    /\ calls' = calls + 1
    /\ UNCHANGED <<flash, last_subsect_num, last_subsect_data, reply,
                   mishaps>>

End(t) ==
    /\ call[t].pc = "block"
    /\ call[t].left = 0
    /\ Return(t)
    /\ UNCHANGED <<flash, last_subsect_num, last_subsect_data, reply, bounds>>

\* the tests of last_subsect_num at the head of both loops
ReadBlock(t) ==
    /\ call[t].pc = "block"
    /\ call[t].kind = "read"
    /\ call[t].left > 0
    /\ Goto(t, IF last_subsect_num = Unit(call[t].lba)
               THEN "cached" ELSE "direct")
    /\ UNCHANGED <<flash, last_subsect_num, last_subsect_data, reply, bounds>>

WriteBlock(t) ==
    /\ call[t].pc = "block"
    /\ call[t].kind = "write"
    /\ call[t].left > 0
    /\ Goto(t, CASE last_subsect_num = -1 -> "retag"
                 [] last_subsect_num = Unit(call[t].lba) -> "modify"
                 [] OTHER -> "erase")
    /\ UNCHANGED <<flash, last_subsect_num, last_subsect_data, reply, bounds>>

ReadCached(t) ==
    /\ call[t].pc = "cached"
    /\ reply' = <<call[t].lba, last_subsect_data[Sector(call[t].lba)]>>
    /\ call' = [call EXCEPT ![t] = NextBlock(@)]
    /\ UNCHANGED <<flash, last_subsect_num, last_subsect_data, bounds>>

ReadDirect(t) ==
    /\ call[t].pc = "direct"
    /\ \/ /\ reply' = <<call[t].lba, flash[call[t].lba]>>
          /\ call' = [call EXCEPT ![t] = NextBlock(@)]
          /\ UNCHANGED mishaps
       \/ /\ Fail("read")
          /\ Return(t)
          /\ UNCHANGED reply
    /\ UNCHANGED <<flash, last_subsect_num, last_subsect_data, calls>>

Retag(t) ==
    /\ call[t].pc = "retag"
    /\ last_subsect_num' = Unit(call[t].lba)
    /\ Goto(t, "fill")
    /\ UNCHANGED <<flash, last_subsect_data, reply, bounds>>

Fill(t) ==
    /\ call[t].pc = "fill"
    /\ \/ /\ last_subsect_data' \in FlashUnit(last_subsect_num)
          /\ Goto(t, "modify")
          /\ UNCHANGED mishaps
       \/ /\ Fail("fill")
          /\ Return(t)
          /\ UNCHANGED last_subsect_data
    /\ UNCHANGED <<flash, last_subsect_num, reply, calls>>

Modify(t) ==
    /\ call[t].pc = "modify"
    /\ \E v \in Values :
          last_subsect_data' =
              [last_subsect_data EXCEPT ![Sector(call[t].lba)] = v]
    /\ call' = [call EXCEPT ![t] = NextBlock(@)]
    /\ UNCHANGED <<flash, last_subsect_num, reply, bounds>>

-----------------------------------------------------------------------------
(* the write back, in usb_media_write and in usb_flush_media *)

BeginFlush ==
    /\ call[Flusher] = Idle
    /\ last_subsect_num # -1
    /\ call' = [call EXCEPT ![Flusher] = [pc |-> "erase", kind |-> "flush",
                                          lba |-> 0, left |-> 0, page |-> 0]]
    /\ UNCHANGED <<flash, last_subsect_num, last_subsect_data, reply, bounds>>

Erase(t) ==
    /\ call[t].pc = "erase"
    /\ flash' = [l \in Lbas |-> IF Unit(l) = last_subsect_num THEN Erased
                                ELSE flash[l]]
    /\ \/ /\ call' = [call EXCEPT ![t].pc = "program", ![t].page = 0]
          /\ UNCHANGED mishaps
       \/ Fail("erase") /\ Return(t)     \* its status cannot be read
    /\ UNCHANGED <<last_subsect_num, last_subsect_data, reply, calls>>

\* programming only clears bits: over anything but an erased sector, or one
\* that holds the same value, the outcome is taken to be any
Programmed(old, new, any) == IF old \in {Erased, new} THEN new ELSE any

\* mutant: the last page is not programmed
LastPageOmitted(c) ==
    IF c.page + 2 < SectorsPerUnit THEN [c EXCEPT !.page = @ + 1]
    ELSE [c EXCEPT !.pc = IF c.kind = "flush" THEN "clear" ELSE "retag"]

NextPage(c) ==
    IF c.page + 1 < SectorsPerUnit THEN [c EXCEPT !.page = @ + 1]
    ELSE [c EXCEPT !.pc = IF c.kind = "flush" THEN "clear" ELSE "retag"]

Program(t) ==
    LET p == call[t].page IN
    /\ call[t].pc = "program"
    /\ \/ /\ \E any \in Data :
                flash' = [l \in Lbas |->
                    IF Unit(l) = last_subsect_num /\ Sector(l) = p
                    THEN Programmed(flash[l], last_subsect_data[p], any)
                    ELSE flash[l]]
          /\ call' = [call EXCEPT ![t] = NextPage(@)]
          /\ UNCHANGED mishaps
       \/ /\ Fail("program")
          /\ Return(t)
          /\ UNCHANGED flash
    /\ UNCHANGED <<last_subsect_num, last_subsect_data, reply, calls>>

\* mutant: the cache is wiped, and still holds the unit
ClearOmitted(t) ==
    /\ call[t].pc = "clear"
    /\ Goto(t, "wipe")
    /\ UNCHANGED <<flash, last_subsect_num, last_subsect_data, reply, bounds>>

Clear(t) ==
    /\ call[t].pc = "clear"
    /\ last_subsect_num' = -1
    /\ Goto(t, "wipe")
    /\ UNCHANGED <<flash, last_subsect_data, reply, bounds>>

Wipe(t) ==
    /\ call[t].pc = "wipe"
    /\ last_subsect_data' = [p \in Sectors |-> Zero]
    /\ Return(t)
    /\ UNCHANGED <<flash, last_subsect_num, reply, bounds>>

-----------------------------------------------------------------------------
\* The power is cut and comes back; FX_DRIVER_INIT empties the cache.
PowerCut ==
    /\ Fail("power")
    /\ last_subsect_num' = -1
    /\ last_subsect_data' = [p \in Sectors |-> Zero]
    /\ call' = [t \in Threads |-> Idle]
    /\ reply' = <<>>
    /\ UNCHANGED <<flash, calls>>

BeginCall(t) ==
    \E kind \in {"read", "write"}, lba \in Lbas, blocks \in 1..MaxBlocks :
        Begin(t, kind, lba, blocks)

\* a thread goes on with its call
Continue(t) ==
    \/ End(t) \/ ReadBlock(t) \/ WriteBlock(t) \/ ReadCached(t)
    \/ ReadDirect(t) \/ Retag(t) \/ Fill(t) \/ Modify(t)
    \/ Erase(t) \/ Program(t) \/ Clear(t) \/ Wipe(t)

Next == \/ \E t \in Threads : BeginCall(t) \/ Continue(t)
        \/ BeginFlush
        \/ PowerCut

Spec == Init /\ [][Next]_vars

\* The behaviours in which calls do not overlap: those of FileX alone, whose
\* media mutex serializes its requests, as before the USB host is let in.
NoCall == \A t \in Threads : call[t] = Idle

SerialNext == \/ \E t \in Threads : Continue(t)
              \/ \E t \in Threads : NoCall /\ BeginCall(t)
              \/ NoCall /\ BeginFlush
              \/ PowerCut

SerialSpec == Init /\ [][SerialNext]_vars

\* system_thread flushes for ever, at the latest every 200 ticks
FairSpec == /\ SerialSpec
            /\ WF_vars(NoCall /\ BeginFlush)
            /\ \A t \in Threads : WF_vars(Continue(t))

-----------------------------------------------------------------------------
(* Properties *)

\* Every variable has its type.
TypeOK ==
    /\ flash \in [Lbas -> Data]
    /\ last_subsect_num \in {-1} \cup 0..(Units - 1)
    /\ last_subsect_data \in [Sectors -> Data]
    /\ call \in [Threads -> Calls \cup {Idle}]
    /\ reply \in {<<>>} \cup (Lbas \X Data)
    /\ calls \in Nat
    /\ mishaps \in Nat

Filling == \E t \in Threads : call[t].pc = "fill"

\* the contents of the media, as every caller should see them
Disk == [l \in Lbas |-> IF last_subsect_num = Unit(l) /\ ~Filling
                         THEN last_subsect_data[Sector(l)]
                         ELSE flash[l]]

Device == INSTANCE BlockDevice WITH
    Addresses <- Lbas,
    disk      <- Disk,
    stored    <- flash,
    exposed   <- {l \in Lbas : last_subsect_num = Unit(l)}

\* The driver is a write-back block device: what is written is read, and a
\* power cut can only disturb the erase unit in the cache.  It holds while
\* calls do not overlap and no unit fails to be read into the cache.
DeviceSpec == Device!Spec

\* What was written is in the flash in the end (system_thread_entry lines
\* 445-449: the loop that flushes), or lost in a power cut, also when write
\* backs fail half way and have to start over.
Flushed == last_subsect_num # -1 ~> last_subsect_num = -1

OnlyWritesStep ==
    Disk' # Disk => \/ \E t \in Threads : call[t].pc = "modify"
                    \/ PowerCut

\* The contents of the media change only when a sector is written, or by a
\* power cut: writing back and clearing the cache ("Write current cache to the
\* last subsector", "Clean up the cache", "Cache the subsector and modify it")
\* are invisible.
OnlyWritesChange == [][OnlyWritesStep]_vars
=============================================================================
