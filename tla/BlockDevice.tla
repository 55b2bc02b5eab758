---------------------------- MODULE BlockDevice ----------------------------
(***************************************************************************)
(* What a write-back block device promises: a sector reads as what was     *)
(* last written to it; a power cut gives every sector the value that was   *)
(* stored, which is its last value unless the sector is exposed, that is,  *)
(* in the part of the device that is being written back.                   *)
(***************************************************************************)
EXTENDS Naturals

CONSTANTS Addresses, Data

VARIABLES
    disk,       \* the sectors as their users see them
    stored,     \* the sectors as a power cut leaves them
    exposed,    \* the sectors that may differ between the two
    reply       \* the address and the value of the last sector read

vars == <<disk, stored, exposed, reply>>

Init == /\ disk \in [Addresses -> Data]
        /\ stored = disk
        /\ exposed = {}
        /\ reply = <<>>

Write(a, v) ==
    /\ a \in exposed
    /\ disk' = [disk EXCEPT ![a] = v]
    /\ UNCHANGED <<stored, exposed, reply>>

Read(a) ==
    /\ reply' = <<a, disk[a]>>
    /\ UNCHANGED <<disk, stored, exposed>>

WriteBack ==
    /\ stored' \in [Addresses -> Data]
    /\ \A a \in Addresses \ exposed : stored'[a] = stored[a]
    /\ UNCHANGED <<disk, exposed, reply>>

\* only a device that is written back entirely may expose another part
Expose ==
    /\ stored = disk
    /\ exposed' \in SUBSET Addresses
    /\ UNCHANGED <<disk, stored, reply>>

PowerCut ==
    /\ disk' = stored
    /\ exposed' = {}
    /\ UNCHANGED stored
    /\ reply' = <<>>

Next == \/ \E a \in Addresses, v \in Data : Write(a, v)
        \/ \E a \in Addresses : Read(a)
        \/ WriteBack
        \/ Expose
        \/ PowerCut

Spec == Init /\ [][Next]_vars
=============================================================================
