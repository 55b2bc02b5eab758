------------------------------- MODULE I2cBus -------------------------------
(***************************************************************************)
(* The I2C bus, shared by the threads of the sensors.  The controller      *)
(* keeps one slave address; a transfer sets it and then writes, reads, or  *)
(* writes and reads, under the bus mutex.  A transfer that fails is tried  *)
(* again, up to three times, and the mutex is given back in between.       *)
(***************************************************************************)
EXTENDS Integers, Sequences, SequencesExt

CONSTANTS
    Threads,      \* the threads of the sensors
    Device,       \* for each thread, the address of its sensor
    MaxRequests   \* bound: the number of requests

ASSUME BusAssumption ==
    /\ "none" \notin Threads
    /\ \A t \in Threads : Device[t] # 0
    /\ MaxRequests \in Nat

RETRIES == 3
NoThread == "none"

\* write: bmc150_write, I2C_Write; register: a register is written and read
\* after a repeated start, bmc150_read and I2C_Read; fetch: only a read,
\* i2c_master_read_packet_wait
Parts == [write |-> {"write"}, register |-> {"write", "read"},
          fetch |-> {"read"}]
Kinds == DOMAIN Parts

VARIABLES
    owner,      \* the thread that has the mutex
    waiting,    \* those that wait for it, first come first served
    slave,      \* the address in the controller
    job,        \* for each thread, its request and how far it is
    heard,      \* history: the devices that got a part of the request
    requests    \* counter for the bound

busVars == <<owner, waiting, slave, job, heard, requests>>

Idle == [kind |-> "write", step |-> "idle", tries |-> 0, result |-> "ok",
         parts |-> {}]
Goto(t, step) == job' = [job EXCEPT ![t].step = step]

-----------------------------------------------------------------------------
(* A request.  Nothing is sent for one that is too long, and nothing for    *)
(* one without data, which succeeds.                                        *)

Request(t) ==
    /\ job[t].step = "idle"
    /\ requests < MaxRequests
    /\ requests' = requests + 1
    /\ \E kind \in Kinds :
         \/ job' = [job EXCEPT ![t] = [Idle EXCEPT !.kind = kind,
                                           !.step = "get"]]
         \/ job' = [job EXCEPT ![t] = [Idle EXCEPT !.kind = kind,
                                           !.result = "size"]]
         \/ /\ kind # "register"
            /\ job' = [job EXCEPT ![t] = [Idle EXCEPT !.kind = kind,
                                              !.parts = Parts[kind]]]
    /\ heard' = [heard EXCEPT ![t] = {}]
    /\ UNCHANGED <<owner, waiting, slave>>

\* mutant: the mutex is not taken
GetNothing(t) ==
    /\ job[t].step = "get"
    /\ Goto(t, "address")
    /\ UNCHANGED <<owner, waiting, slave, heard, requests>>

GetMutex(t) ==
    /\ job[t].step = "get"
    /\ IF owner = NoThread
       THEN owner' = t /\ Goto(t, "address") /\ UNCHANGED waiting
       ELSE waiting' = Append(waiting, t) /\ Goto(t, "queued")
            /\ UNCHANGED owner
    /\ UNCHANGED <<slave, heard, requests>>

\* goto end
EndAttempt(t, result) ==
    job' = [job EXCEPT ![t].step = "put", ![t].result = result]

SetAddress(t) ==
    /\ job[t].step = "address"
    /\ \/ /\ slave' = Device[t]
          /\ job' = [job EXCEPT ![t].parts = {},
                ![t].step = IF "write" \in Parts[job[t].kind] THEN "write"
                                                              ELSE "read"]
       \/ EndAttempt(t, "driver") /\ UNCHANGED slave
    /\ UNCHANGED <<owner, waiting, heard, requests>>

\* mutant: after a write that failed the read is made all the same
GoOnAfter(t, part) == job' = [job EXCEPT ![t].step = "read"]

FailPart(t, part) == EndAttempt(t, part)

\* the parts of a transfer, in their order: which device hears them is up to
\* the address in the controller
DoPart(t, part) ==
    /\ job[t].step = part
    /\ heard' = [heard EXCEPT ![t] = @ \cup {slave}]
    /\ \/ LET parts == job[t].parts \cup {part}
              more == "read" \in Parts[job[t].kind] \ parts
          IN  job' = [job EXCEPT ![t].parts = parts,
                        ![t].step = IF more THEN "read" ELSE "put",
                        ![t].result = "ok"]
       \/ FailPart(t, part)
    /\ UNCHANGED <<owner, waiting, slave, requests>>

\* mutant: an attempt that fails leaves the mutex taken
KeepOnError(t) ==
    IF job[t].result # "ok" THEN UNCHANGED <<owner, waiting>>
    ELSE /\ owner' = IF waiting = <<>> THEN NoThread ELSE Head(waiting)
         /\ waiting' = IF waiting = <<>> THEN <<>> ELSE Tail(waiting)

\* the mutex goes to the thread that has waited longest
Release(t) ==
    /\ owner' = IF waiting = <<>> THEN NoThread ELSE Head(waiting)
    /\ waiting' = IF waiting = <<>> THEN <<>> ELSE Tail(waiting)

PutMutex(t) ==
    /\ job[t].step = "put"
    /\ Release(t)
    /\ LET again == job[t].result # "ok" /\ job[t].tries + 1 < RETRIES
       IN  job' = [u \in Threads |->
              IF u = t THEN [job[t] EXCEPT !.tries = @ + 1,
                                  !.step = IF again THEN "get" ELSE "idle"]
              ELSE IF u = owner' THEN [job[u] EXCEPT !.step = "address"]
              ELSE job[u]]
    /\ UNCHANGED <<slave, heard, requests>>

-----------------------------------------------------------------------------
BusInit ==
    /\ owner = NoThread
    /\ waiting = <<>>
    /\ slave = 0
    /\ job = [t \in Threads |-> Idle]
    /\ heard = [t \in Threads |-> {}]
    /\ requests = 0

BusStep(t) ==
    \/ GetMutex(t) \/ SetAddress(t) \/ PutMutex(t)
    \/ \E part \in {"write", "read"} : DoPart(t, part)

BusNext == \E t \in Threads : Request(t) \/ BusStep(t)

\* threads are scheduled by priority and each blocks while it waits
BusFairness == \A t \in Threads : WF_busVars(BusStep(t))

BusSpec == BusInit /\ [][BusNext]_busVars /\ BusFairness

-----------------------------------------------------------------------------
\* No part of a request reaches another device than the thread's own, though
\* all threads use the one slave address of the controller.
OwnDevice == \A t \in Threads : heard[t] \subseteq {Device[t]}

\* A request that is answered with success was carried out whole by one
\* attempt.
TransferWhole ==
    \A t \in Threads :
        job[t].step = "idle" /\ job[t].result = "ok" /\ job[t].tries > 0
            => job[t].parts = Parts[job[t].kind]

\* Every request is answered, also while others fail and are tried again.
RequestAnswered ==
    \A t \in Threads : job[t].step # "idle" ~> job[t].step = "idle"
=============================================================================
