---------------------------- MODULE I2cBus_proofs ----------------------------
(***************************************************************************)
(* Proofs about I2cBus, for every number of threads and requests: the bus  *)
(* mutex keeps the slave address of a transfer until the transfer is over. *)
(***************************************************************************)
EXTENDS I2cBus, SequenceTheorems, TLAPS

Steps == {"idle", "get", "queued", "address", "write", "read", "put"}
Jobs == [kind : Kinds, step : Steps, tries : Nat,
         result : {"ok", "size", "driver", "write", "read"},
         parts : SUBSET {"write", "read"}]

BusTypes ==
    /\ owner \in Threads \union {NoThread}
    /\ waiting \in Seq(Threads)
    /\ job \in [Threads -> Jobs]
    /\ heard \in [Threads -> SUBSET {Device[t] : t \in Threads}]

\* A thread between its tx_mutex_get and its tx_mutex_put is the owner.
Transfers(t) == job[t].step \in {"address", "write", "read", "put"}
OwnerTransfers == \A t \in Threads : Transfers(t) => owner = t

\* Who waits is in the queue once.
QueueWaits ==
    /\ \A i \in 1..Len(waiting) : job[waiting[i]].step = "queued"
    /\ \A i, j \in 1..Len(waiting) : i # j => waiting[i] # waiting[j]

\* The controller has the address of the thread whose parts are under way.
AddressSet == \A t \in Threads : job[t].step \in {"write", "read"} => slave = Device[t]

BusInv == BusTypes /\ OwnerTransfers /\ QueueWaits /\ AddressSet /\ OwnDevice

LEMMA PartsType == Parts \in [Kinds -> SUBSET {"write", "read"}]
BY DEF Parts, Kinds

LEMMA IdleType == Idle \in Jobs /\ Idle.step = "idle"
BY DEF Idle, Jobs, Steps, Kinds, Parts

LEMMA BusInvInit == BusInit => BusInv
BY IdleType DEF BusInit, BusInv, BusTypes, OwnerTransfers, Transfers, QueueWaits,
   AddressSet, OwnDevice

\* A step of one thread that does not touch the queue.
LEMMA OneThread ==
    ASSUME BusInv, NEW t \in Threads, NEW record \in Jobs,
           job' = [job EXCEPT ![t] = record],
           job[t].step # "queued", UNCHANGED waiting
    PROVE  /\ job' \in [Threads -> Jobs] /\ job'[t] = record
           /\ \A u \in Threads \ {t} : job'[u] = job[u]
           /\ QueueWaits'
<1>1. /\ job' \in [Threads -> Jobs] /\ job'[t] = record
      /\ \A u \in Threads \ {t} : job'[u] = job[u]
    BY DEF BusInv, BusTypes
<1>2. \A i \in 1..Len(waiting) : waiting[i] \in Threads /\ waiting[i] # t
    BY DEF BusInv, BusTypes, QueueWaits
<1> QED
    BY <1>1, <1>2 DEF BusInv, QueueWaits

LEMMA RequestInv == ASSUME BusInv, NEW t \in Threads, Request(t) PROVE BusInv'
<1>1. PICK record \in Jobs : /\ job' = [job EXCEPT ![t] = record]
                             /\ record.step \in {"idle", "get"}
    <2>1. PICK kind \in Kinds :
             \/ job' = [job EXCEPT ![t] = [Idle EXCEPT !.kind = kind, !.step = "get"]]
             \/ job' = [job EXCEPT ![t] = [Idle EXCEPT !.kind = kind, !.result = "size"]]
             \/ job' = [job EXCEPT ![t] = [Idle EXCEPT !.kind = kind, !.parts = Parts[kind]]]
        BY DEF Request
    <2>2. /\ [Idle EXCEPT !.kind = kind, !.step = "get"] \in Jobs
          /\ [Idle EXCEPT !.kind = kind, !.result = "size"] \in Jobs
          /\ [Idle EXCEPT !.kind = kind, !.parts = Parts[kind]] \in Jobs
        BY IdleType, PartsType DEF Jobs, Steps
    <2>3. /\ [Idle EXCEPT !.kind = kind, !.step = "get"].step = "get"
          /\ [Idle EXCEPT !.kind = kind, !.result = "size"].step = "idle"
          /\ [Idle EXCEPT !.kind = kind, !.parts = Parts[kind]].step = "idle"
        BY DEF Idle
    <2> QED
        BY <2>1, <2>2, <2>3
<1>2. /\ job[t].step = "idle" /\ UNCHANGED <<owner, waiting, slave>>
      /\ heard' = [heard EXCEPT ![t] = {}]
    BY DEF Request
<1>3. /\ job' \in [Threads -> Jobs] /\ job'[t] = record
      /\ \A u \in Threads \ {t} : job'[u] = job[u]
      /\ QueueWaits'
    BY <1>1, <1>2, OneThread
<1> QED
    BY <1>1, <1>2, <1>3 DEF BusInv, BusTypes, OwnerTransfers, Transfers, AddressSet, OwnDevice

LEMMA GetInv == ASSUME BusInv, NEW t \in Threads, GetMutex(t) PROVE BusInv'
<1>1. job[t].step = "get" /\ UNCHANGED <<slave, heard>>
    BY DEF GetMutex
<1>2. \A step \in Steps : [job[t] EXCEPT !.step = step] \in Jobs
                          /\ [job[t] EXCEPT !.step = step].step = step
    BY DEF BusInv, BusTypes, Jobs
<1>3. CASE owner = NoThread
    <2>1. /\ owner' = t /\ UNCHANGED waiting
          /\ job' = [job EXCEPT ![t] = [job[t] EXCEPT !.step = "address"]]
        BY <1>3 DEF GetMutex, Goto, BusInv, BusTypes
    <2>2. /\ job' \in [Threads -> Jobs] /\ job'[t].step = "address"
          /\ \A u \in Threads \ {t} : job'[u] = job[u]
          /\ QueueWaits'
        BY <1>1, <1>2, <2>1, OneThread DEF Steps
    <2>3. \A u \in Threads : ~Transfers(u)
        BY <1>3, BusAssumption DEF BusInv, OwnerTransfers, NoThread
    <2> QED
        BY <1>1, <2>1, <2>2, <2>3
        DEF BusInv, BusTypes, OwnerTransfers, Transfers, AddressSet, OwnDevice
<1>4. CASE owner # NoThread
    <2>1. /\ UNCHANGED owner /\ waiting' = Append(waiting, t)
          /\ job' = [job EXCEPT ![t] = [job[t] EXCEPT !.step = "queued"]]
        BY <1>4 DEF GetMutex, Goto, BusInv, BusTypes
    <2>2. /\ job' \in [Threads -> Jobs] /\ job'[t].step = "queued"
          /\ \A u \in Threads \ {t} : job'[u] = job[u]
        BY <1>2, <2>1 DEF BusInv, BusTypes, Steps
    <2>3. /\ waiting' \in Seq(Threads) /\ Len(waiting) \in Nat
          /\ Len(waiting') = Len(waiting) + 1
          /\ \A i \in 1..Len(waiting) : waiting'[i] = waiting[i]
          /\ waiting'[Len(waiting) + 1] = t
        BY <2>1 DEF BusInv, BusTypes
    <2>4. \A i \in 1..Len(waiting) : waiting[i] \in Threads /\ waiting[i] # t
        BY <1>1 DEF BusInv, BusTypes, QueueWaits
    <2>5. QueueWaits'
        <3>1. \A i \in 1..Len(waiting') : job'[waiting'[i]].step = "queued"
            BY <2>2, <2>3, <2>4 DEF BusInv, QueueWaits
        <3>2. \A i, j \in 1..Len(waiting') : i # j => waiting'[i] # waiting'[j]
            BY <2>3, <2>4 DEF BusInv, QueueWaits
        <3> QED
            BY <3>1, <3>2 DEF QueueWaits
    <2> QED
        BY <1>1, <2>1, <2>2, <2>3, <2>5
        DEF BusInv, BusTypes, OwnerTransfers, Transfers, AddressSet, OwnDevice
<1> QED
    BY <1>3, <1>4

LEMMA AddressInv == ASSUME BusInv, NEW t \in Threads, SetAddress(t) PROVE BusInv'
<1>1. job[t].step = "address" /\ UNCHANGED <<owner, waiting, heard>>
    BY DEF SetAddress
<1>2. PICK record \in Jobs :
          /\ job' = [job EXCEPT ![t] = record]
          /\ \/ record.step \in {"write", "read"} /\ slave' = Device[t]
             \/ record.step = "put" /\ UNCHANGED slave
    <2> DEFINE step == IF "write" \in Parts[job[t].kind] THEN "write" ELSE "read"
               sent == [job[t] EXCEPT !.parts = {}, !.step = step]
               ended == [job[t] EXCEPT !.step = "put", !.result = "driver"]
    <2>1. \/ job' = [job EXCEPT ![t] = sent] /\ slave' = Device[t]
          \/ job' = [job EXCEPT ![t] = ended] /\ UNCHANGED slave
        BY DEF SetAddress, EndAttempt, BusInv, BusTypes
    <2>2. /\ sent \in Jobs /\ sent.step \in {"write", "read"}
          /\ ended \in Jobs /\ ended.step = "put"
        BY DEF BusInv, BusTypes, Jobs, Steps
    <2> QED
        BY <2>1, <2>2
<1>3. /\ job' \in [Threads -> Jobs] /\ job'[t] = record
      /\ \A u \in Threads \ {t} : job'[u] = job[u]
      /\ QueueWaits'
    BY <1>1, <1>2, OneThread
<1>4. \A u \in Threads \ {t} : ~Transfers(u)
    BY <1>1 DEF BusInv, OwnerTransfers, Transfers
<1> QED
    BY <1>1, <1>2, <1>3, <1>4
    DEF BusInv, BusTypes, OwnerTransfers, Transfers, AddressSet, OwnDevice

LEMMA PartInv ==
    ASSUME BusInv, NEW t \in Threads, NEW part \in {"write", "read"}, DoPart(t, part)
    PROVE  BusInv'
<1>1. /\ job[t].step = part /\ UNCHANGED <<owner, waiting, slave>>
      /\ heard' = [heard EXCEPT ![t] = @ \union {slave}]
    BY DEF DoPart
<1>2. slave = Device[t]
    BY <1>1 DEF BusInv, AddressSet
<1>3. PICK record \in Jobs : /\ job' = [job EXCEPT ![t] = record]
                             /\ record.step \in {"read", "put"}
    <2> DEFINE parts == job[t].parts \union {part}
               step == IF "read" \in Parts[job[t].kind] \ parts THEN "read" ELSE "put"
               done == [job[t] EXCEPT !.parts = parts, !.step = step, !.result = "ok"]
               ended == [job[t] EXCEPT !.step = "put", !.result = part]
    <2>1. job' = [job EXCEPT ![t] = done] \/ job' = [job EXCEPT ![t] = ended]
        BY DEF DoPart, FailPart, EndAttempt, BusInv, BusTypes
    <2>2. /\ done \in Jobs /\ done.step \in {"read", "put"}
          /\ ended \in Jobs /\ ended.step = "put"
        BY DEF BusInv, BusTypes, Jobs, Steps
    <2> QED
        BY <2>1, <2>2
<1>4. /\ job' \in [Threads -> Jobs] /\ job'[t] = record
      /\ \A u \in Threads \ {t} : job'[u] = job[u]
      /\ QueueWaits'
    BY <1>1, <1>3, OneThread
<1>5. owner = t
    BY <1>1 DEF BusInv, OwnerTransfers, Transfers
<1>6. heard' \in [Threads -> SUBSET {Device[u] : u \in Threads}] /\ OwnDevice'
    BY <1>1, <1>2 DEF BusInv, BusTypes, OwnDevice
<1> QED
    BY <1>1, <1>2, <1>3, <1>4, <1>5, <1>6
    DEF BusInv, BusTypes, OwnerTransfers, Transfers, AddressSet

\* The mutex goes to the thread that waits longest, or to nobody.
LEMMA PutInv == ASSUME BusInv, NEW t \in Threads, PutMutex(t) PROVE BusInv'
<1>1. job[t].step = "put" /\ UNCHANGED <<slave, heard>>
    BY DEF PutMutex
<1>2. PICK after \in Jobs :
          /\ after.step \in {"get", "idle"}
          /\ job' = [u \in Threads |->
                        IF u = t THEN after
                        ELSE IF u = owner' THEN [job[u] EXCEPT !.step = "address"]
                        ELSE job[u]]
    <2> DEFINE again == job[t].result # "ok" /\ job[t].tries + 1 < RETRIES
               after == [job[t] EXCEPT !.tries = @ + 1,
                                       !.step = IF again THEN "get" ELSE "idle"]
    <2>1. after \in Jobs /\ after.step \in {"get", "idle"}
        <3>1. \A step \in {"get", "idle"}, tries \in Nat :
                  /\ [job[t] EXCEPT !.tries = tries, !.step = step] \in Jobs
                  /\ [job[t] EXCEPT !.tries = tries, !.step = step].step = step
            BY DEF BusInv, BusTypes, Jobs, Steps
        <3>2. job[t].tries + 1 \in Nat
            BY DEF BusInv, BusTypes, Jobs
        <3>3. (IF again THEN "get" ELSE "idle") \in {"get", "idle"}
            OBVIOUS
        <3> QED
            BY <3>1, <3>2, <3>3
    <2> QED
        BY <2>1 DEF PutMutex
<1>3. \A u \in Threads \ {t} : ~Transfers(u)
    BY <1>1 DEF BusInv, OwnerTransfers, Transfers
<1>4. \A u \in Threads : [job[u] EXCEPT !.step = "address"] \in Jobs
                         /\ [job[u] EXCEPT !.step = "address"].step = "address"
    BY DEF BusInv, BusTypes, Jobs, Steps
<1>5. job' \in [Threads -> Jobs]
    BY <1>2, <1>4 DEF BusInv, BusTypes
<1>6. CASE waiting = <<>>
    <2>1. owner' = NoThread /\ waiting' = <<>>
        BY <1>6 DEF PutMutex, Release
    <2>2. job'[t] = after /\ \A u \in Threads \ {t} : job'[u] = job[u]
        BY <1>2, <2>1, BusAssumption DEF NoThread
    <2> QED
        BY <1>1, <1>2, <1>3, <1>5, <2>1, <2>2
        DEF BusInv, BusTypes, OwnerTransfers, Transfers, QueueWaits, AddressSet, OwnDevice
<1>7. CASE waiting # <<>>
    <2> DEFINE h == Head(waiting)
    <2>1. owner' = h /\ waiting' = Tail(waiting)
        BY <1>7 DEF PutMutex, Release
    <2>2. /\ h \in Threads /\ waiting' \in Seq(Threads)
          /\ Len(waiting) \in Nat /\ Len(waiting) > 0
          /\ Len(waiting') = Len(waiting) - 1
          /\ \A i \in 1..Len(waiting') : waiting'[i] = waiting[i + 1]
          /\ h = waiting[1]
        BY <1>7, <2>1 DEF BusInv, BusTypes
    <2>3. job[h].step = "queued" /\ h # t
        BY <1>1, <2>2 DEF BusInv, QueueWaits
    <2> HIDE DEF h
    <2>4. /\ job'[t] = after /\ job'[h].step = "address"
          /\ \A u \in Threads \ {t, h} : job'[u] = job[u]
        BY <1>2, <1>4, <2>1, <2>2, <2>3
    <2>5. QueueWaits'
        <3>1. \A i \in 1..Len(waiting') :
                  /\ i + 1 \in 1..Len(waiting) /\ i + 1 # 1
                  /\ waiting'[i] = waiting[i + 1] /\ waiting[i + 1] \in Threads
            BY <2>2 DEF BusInv, BusTypes
        <3>2. 1 \in 1..Len(waiting)
            BY <2>2
        <3>3. \A i \in 1..Len(waiting') :
                  job[waiting'[i]].step = "queued" /\ waiting'[i] # h /\ waiting'[i] # t
            BY <1>1, <2>2, <3>1, <3>2 DEF BusInv, QueueWaits
        <3>4. \A i \in 1..Len(waiting') : job'[waiting'[i]].step = "queued"
            BY <2>4, <3>1, <3>3
        <3>5. \A i, j \in 1..Len(waiting') : i # j => waiting'[i] # waiting'[j]
            <4> SUFFICES ASSUME NEW i \in 1..Len(waiting'), NEW j \in 1..Len(waiting'), i # j
                         PROVE  waiting'[i] # waiting'[j]
                OBVIOUS
            <4>1. i + 1 # j + 1
                BY <2>2
            <4> QED
                BY <3>1, <4>1 DEF BusInv, QueueWaits
        <3> QED
            BY <3>4, <3>5 DEF QueueWaits
    <2> QED
        BY <1>1, <1>2, <1>3, <1>5, <2>1, <2>2, <2>4, <2>5
        DEF BusInv, BusTypes, OwnerTransfers, Transfers, AddressSet, OwnDevice
<1> QED
    BY <1>6, <1>7

LEMMA BusInvStep == BusInv /\ [BusNext]_busVars => BusInv'
<1> SUFFICES ASSUME BusInv, [BusNext]_busVars PROVE BusInv'
    OBVIOUS
<1>1. CASE UNCHANGED busVars
    BY <1>1 DEF busVars, BusInv, BusTypes, OwnerTransfers, Transfers, QueueWaits,
       AddressSet, OwnDevice
<1> QED
    BY <1>1, RequestInv, GetInv, AddressInv, PartInv, PutInv DEF BusNext, BusStep

\* However the requests of the threads and their retries meet: no part of a
\* transfer reaches another device than the thread's own.
THEOREM DevicesOwned == BusSpec => []OwnDevice
<1>1. BusInv => OwnDevice
    BY DEF BusInv
<1> QED
    BY BusInvInit, BusInvStep, <1>1, PTL DEF BusSpec

-----------------------------------------------------------------------------
(* What an attempt has sent, along its steps.                               *)

Whole(j) ==
    /\ j.step = "write" => j.parts = {} /\ "write" \in Parts[j.kind]
    /\ j.step = "read" => j.parts = Parts[j.kind] \ {"read"} /\ "read" \in Parts[j.kind]
    /\ j.step = "put" /\ j.result = "ok" => j.parts = Parts[j.kind]
    /\ j.step = "idle" /\ j.result = "ok" /\ j.tries > 0 => j.parts = Parts[j.kind]

WholeInv == \A t \in Threads : Whole(job[t])

\* The three kinds of request.
LEMMA PartsCases == \A kind \in Kinds : Parts[kind] \in {{"write"}, {"write", "read"}, {"read"}}
BY DEF Parts, Kinds

LEMMA RequestWhole == ASSUME BusInv, WholeInv, NEW t \in Threads, Request(t) PROVE WholeInv'
<1>1. PICK kind \in Kinds :
         \/ job' = [job EXCEPT ![t] = [Idle EXCEPT !.kind = kind, !.step = "get"]]
         \/ job' = [job EXCEPT ![t] = [Idle EXCEPT !.kind = kind, !.result = "size"]]
         \/ job' = [job EXCEPT ![t] = [Idle EXCEPT !.kind = kind, !.parts = Parts[kind]]]
    BY DEF Request
<1>2. /\ Whole([Idle EXCEPT !.kind = kind, !.step = "get"])
      /\ Whole([Idle EXCEPT !.kind = kind, !.result = "size"])
      /\ Whole([Idle EXCEPT !.kind = kind, !.parts = Parts[kind]])
    BY DEF Whole, Idle
<1> QED
    BY <1>1, <1>2 DEF WholeInv, BusInv, BusTypes

\* Before the address is set, whatever an earlier attempt sent does not count.
LEMMA GetWhole == ASSUME BusInv, WholeInv, NEW t \in Threads, GetMutex(t) PROVE WholeInv'
<1>1. PICK step \in {"address", "queued"} : job' = [job EXCEPT ![t] = [job[t] EXCEPT !.step = step]]
    BY DEF GetMutex, Goto, BusInv, BusTypes
<1>2. Whole([job[t] EXCEPT !.step = step])
    BY DEF Whole, BusInv, BusTypes, Jobs
<1> QED
    BY <1>1, <1>2 DEF WholeInv, BusInv, BusTypes

LEMMA AddressWhole == ASSUME BusInv, WholeInv, NEW t \in Threads, SetAddress(t) PROVE WholeInv'
<1> DEFINE step == IF "write" \in Parts[job[t].kind] THEN "write" ELSE "read"
           sent == [job[t] EXCEPT !.parts = {}, !.step = step]
           ended == [job[t] EXCEPT !.step = "put", !.result = "driver"]
<1>1. job' = [job EXCEPT ![t] = sent] \/ job' = [job EXCEPT ![t] = ended]
    BY DEF SetAddress, EndAttempt, BusInv, BusTypes
<1>2. Whole(sent)
    <2>1. sent.step = step /\ sent.parts = {} /\ sent.kind = job[t].kind /\ job[t].kind \in Kinds
        BY DEF BusInv, BusTypes, Jobs
    <2>2. CASE "write" \in Parts[job[t].kind]
        BY <2>1, <2>2 DEF Whole
    <2>3. CASE "write" \notin Parts[job[t].kind]
        <3>1. Parts[job[t].kind] = {"read"}
            BY <2>1, <2>3, PartsCases
        <3> QED
            BY <2>1, <2>3, <3>1 DEF Whole
    <2> QED
        BY <2>2, <2>3
<1>3. Whole(ended)
    BY DEF Whole, BusInv, BusTypes, Jobs
<1> QED
    BY <1>1, <1>2, <1>3 DEF WholeInv, BusInv, BusTypes

LEMMA PartWhole ==
    ASSUME BusInv, WholeInv, NEW t \in Threads, NEW part \in {"write", "read"}, DoPart(t, part)
    PROVE  WholeInv'
<1> DEFINE parts == job[t].parts \cup {part}
           more == "read" \in Parts[job[t].kind] \ parts
           next == IF more THEN "read" ELSE "put"
           sent == [job[t] EXCEPT !.parts = parts, !.step = next, !.result = "ok"]
           ended == [job[t] EXCEPT !.step = "put", !.result = part]
<1>1. job' = [job EXCEPT ![t] = sent] \/ job' = [job EXCEPT ![t] = ended]
    BY DEF DoPart, FailPart, EndAttempt, BusInv, BusTypes
<1>2. Whole(sent)
    <2>1. /\ sent.step = next /\ sent.parts = parts /\ sent.kind = job[t].kind
          /\ job[t].kind \in Kinds
        BY DEF BusInv, BusTypes, Jobs
    <2>2. /\ Whole(job[t]) /\ job[t].step = part
          /\ Parts[job[t].kind] \in {{"write"}, {"write", "read"}, {"read"}}
        BY <2>1, PartsCases DEF DoPart, WholeInv
    <2>3. CASE part = "write"
        <3>1. parts = {"write"} /\ "write" \in Parts[job[t].kind]
            BY <2>2, <2>3 DEF Whole
        <3>2. CASE more
            BY <2>1, <2>2, <3>1, <3>2 DEF Whole
        <3>3. CASE ~more
            BY <2>1, <2>2, <3>1, <3>3 DEF Whole
        <3> QED
            BY <3>2, <3>3
    <2>4. CASE part = "read"
        <3>1. parts = Parts[job[t].kind] /\ ~more
            BY <2>2, <2>4 DEF Whole
        <3> QED
            BY <2>1, <3>1 DEF Whole
    <2> QED
        BY <2>3, <2>4
<1>3. Whole(ended)
    BY DEF Whole, BusInv, BusTypes, Jobs
<1> QED
    BY <1>1, <1>2, <1>3 DEF WholeInv, BusInv, BusTypes

LEMMA PutWhole == ASSUME BusInv, WholeInv, NEW t \in Threads, PutMutex(t) PROVE WholeInv'
<1> DEFINE again == job[t].result # "ok" /\ job[t].tries + 1 < RETRIES
           step == IF again THEN "get" ELSE "idle"
           after == [job[t] EXCEPT !.tries = job[t].tries + 1, !.step = step]
<1>1. job' = [u \in Threads |-> IF u = t THEN after
                                ELSE IF u = owner' THEN [job[u] EXCEPT !.step = "address"]
                                ELSE job[u]]
    BY DEF PutMutex
<1>2. Whole(after)
    <2>1. /\ after.step = step /\ after.parts = job[t].parts /\ after.kind = job[t].kind
          /\ after.result = job[t].result /\ step \in {"get", "idle"}
        BY DEF BusInv, BusTypes, Jobs
    <2>2. job[t].step = "put" /\ Whole(job[t])
        BY DEF PutMutex, WholeInv
    <2> HIDE DEF step, after
    <2> QED
        BY <2>1, <2>2 DEF Whole
<1>3. \A u \in Threads : Whole([job[u] EXCEPT !.step = "address"])
    BY DEF Whole, BusInv, BusTypes, Jobs
<1> HIDE DEF after
<1> QED
    BY <1>1, <1>2, <1>3 DEF WholeInv

LEMMA WholeStep == BusInv /\ WholeInv /\ [BusNext]_busVars => WholeInv'
<1> SUFFICES ASSUME BusInv, WholeInv, [BusNext]_busVars PROVE WholeInv'
    OBVIOUS
<1>1. CASE UNCHANGED busVars
    BY <1>1 DEF busVars, WholeInv
<1> QED
    BY <1>1, RequestWhole, GetWhole, AddressWhole, PartWhole, PutWhole DEF BusNext, BusStep

\* A request answered with success was carried out whole by its last attempt,
\* whatever the earlier ones left half done.
THEOREM AnsweredWhole == BusSpec => []TransferWhole
<1>1. BusInit => WholeInv
    BY DEF BusInit, WholeInv, Whole, Idle
<1>2. WholeInv => TransferWhole
    BY DEF WholeInv, Whole, TransferWhole
<1> QED
    BY BusInvInit, BusInvStep, <1>1, WholeStep, <1>2, PTL DEF BusSpec
=============================================================================
