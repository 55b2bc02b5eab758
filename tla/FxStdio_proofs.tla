--------------------------- MODULE FxStdio_proofs ---------------------------
(***************************************************************************)
(* Proofs about FxStdio, for every number of threads, entries and files:   *)
(* the semaphore excludes, and so no entry of the table of open files has  *)
(* two owners.                                                             *)
(***************************************************************************)
EXTENDS FxStdio, SequenceTheorems, WellFoundedInduction, TLAPS

LEMMA SlotsAreNumbers == Slots \subseteq Nat /\ NoSlot \notin Slots
BY StdioAssumption DEF Slots, NoSlot

Positions == {"idle", "waits", "in", "claim", "open", "put"}

\* The variables that the argument is about, and their values.
StdioTypes ==
    /\ semaphore \in {0, 1}
    /\ suspended \in Seq(Callers)
    /\ at \in [Callers -> Positions]
    /\ request \in [Callers -> Requests \union {NoRequest}]
    /\ DOMAIN entry = Callers
    /\ DOMAIN modeOf = Slots
    /\ handles \in [Callers -> SUBSET Slots]

\* A thread between its tx_semaphore_get and its tx_semaphore_put.
Inside(t) == at[t] \in {"in", "claim", "open", "put"}

\* One thread is inside at most, and none when the semaphore can be had; who
\* waits is in the queue, once.
Exclusion ==
    /\ \A t, u \in Callers : Inside(t) /\ Inside(u) => t = u
    /\ semaphore = 1 => suspended = <<>> /\ \A t \in Callers : ~Inside(t)
    /\ \A i \in 1..Len(suspended) : at[suspended[i]] = "waits"
    /\ \A i, j \in 1..Len(suspended) : i # j => suspended[i] # suspended[j]

OnNames == {"fopen", "remove", "stat"}

\* The entry that a call works on: free until fopen claims it; otherwise one
\* of the caller's handles.
Entries ==
    \A t \in Callers :
        /\ at[t] = "claim" => entry[t] \in FreeSlots /\ request[t].function = "fopen"
        /\ at[t] = "open" => /\ entry[t] \in Slots \ handles[t]
                            /\ request[t].function = "fopen"
        /\ at[t] \in {"waits", "in"} /\ request[t].function \notin OnNames
           => entry[t] \in handles[t]

\* The part of SlotsOwned that a step leaves alone.
LEMMA SameOwners ==
    ASSUME SlotsOwned, UNCHANGED modeOf, \A u \in Callers : Owned(u)' = Owned(u)
    PROVE  SlotsOwned'
BY DEF SlotsOwned

StdioInv == StdioTypes /\ Exclusion /\ Entries /\ SlotsOwned

\* The requests, as far as the argument needs them.
LEMMA RequestParts ==
    ASSUME NEW r \in Requests
    PROVE  /\ r.function # "none"
           /\ r.function = "fopen" => r.name \in Names /\ r.mode \in Modes
           /\ r.function = "remove" => r.name \in Names
           /\ r.function \notin OnNames => r.handle \in Slots
           /\ r.function \in {"fread", "fwrite"} => r.count = 1
           /\ r.function = "fgets" => r.count \in Nat \ {0}
           /\ r.function = "fseek" => r.count \in Int
<1> USE StdioAssumption DEF OnNames
<1>1. \A n, m : /\ Opens(n, m).function = "fopen"
                /\ Opens(n, m).name = n /\ Opens(n, m).mode = m
    BY DEF Opens, NoRequest
<1>2. \A f, n : OnName(f, n).function = f /\ OnName(f, n).name = n
    BY DEF OnName, NoRequest
<1>3. \A f, i, k, w : /\ OnHandle(f, i, k, w).function = f
                      /\ OnHandle(f, i, k, w).handle = i
                      /\ OnHandle(f, i, k, w).count = k
    BY DEF OnHandle, NoRequest
<1>4. CASE r \in {Opens(n, m) : n \in Names, m \in Modes}
    BY <1>1, <1>4
<1>5. CASE r \in {OnName(f, n) : f \in {"remove", "stat"}, n \in Names \ UnknownDrive}
    BY <1>2, <1>5
<1>6. CASE r \in {OnHandle("fclose", i, 0, "none") : i \in Slots}
    BY <1>3, <1>6
<1>7. CASE r \in {OnHandle(f, i, 1, "none") : f \in {"fread", "fwrite"}, i \in Slots}
    BY <1>3, <1>7
<1>8. CASE r \in {OnHandle("fgets", i, k, "none") : i \in Slots, k \in LineSizes}
    BY <1>3, <1>8
<1>9. CASE r \in {OnHandle("fseek", i, k, w) : i \in Slots, k \in Offsets, w \in Whence}
    BY <1>3, <1>9
<1> QED
    BY <1>4, <1>5, <1>6, <1>7, <1>8, <1>9 DEF Requests

LEMMA CallableRequests == ASSUME NEW t \in Callers PROVE Callable[t] \subseteq Requests
BY CallableAssumption

\* The search of fopen finds the first free entry, when there is one.
LEMMA FirstFree ==
    ASSUME FreeSlots # {}
    PROVE  (CHOOSE i \in FreeSlots : \A j \in FreeSlots : i <= j) \in FreeSlots
<1>1. FreeSlots \subseteq Nat
    BY SlotsAreNumbers DEF FreeSlots
<1>2. PICK i \in FreeSlots : \A j \in FreeSlots : ~(<<j, i>> \in OpToRel(<, Nat))
    BY <1>1, WFMin, NatLessThanWellFounded
<1>3. ASSUME NEW j \in FreeSlots PROVE i <= j
    <2>1. i \in Nat /\ j \in Nat
        BY <1>1
    <2>2. ~(<<j, i>> \in OpToRel(<, Nat))
        BY <1>2
    <2>3. ~(j < i)
        BY <2>1, <2>2 DEF OpToRel
    <2> QED
        BY <2>1, <2>3
<1> QED
    BY <1>3

LEMMA StdioInvInit == StdioInit => StdioInv
<1> SUFFICES ASSUME StdioInit PROVE StdioInv
    OBVIOUS
<1>1. StdioTypes
    BY DEF StdioInit, StdioTypes, Positions
<1>2. Exclusion
    BY DEF StdioInit, Exclusion, Inside
<1>3. Entries
    BY DEF StdioInit, Entries
<1>4. SlotsOwned
    BY DEF StdioInit, SlotsOwned, Owned
<1> QED
    BY <1>1, <1>2, <1>3, <1>4 DEF StdioInv

\* A call gets the semaphore, or waits for it.
LEMMA CallInv ==
    ASSUME StdioInv, NEW t \in Callers, NEW r \in Callable[t], Call(t, r)
    PROVE  StdioInv'
<1>1. r \in Requests /\ at[t] = "idle"
    BY CallableRequests DEF Call
<1>2. r.function \notin OnNames => r.handle \in handles[t]
    BY DEF Call, OnNames
<1>3. /\ request' = [request EXCEPT ![t] = r]
      /\ entry' = [entry EXCEPT ![t] = r.handle]
      /\ UNCHANGED <<modeOf, handles>>
    BY DEF Call, fileVars
<1>4. CASE semaphore > 0
    <2>1. /\ semaphore = 1 /\ semaphore' = 0
          /\ at' = [at EXCEPT ![t] = "in"] /\ UNCHANGED suspended
        BY <1>4 DEF Call, GetSemaphore, StdioInv, StdioTypes
    <2>2. StdioTypes'
        BY <1>1, <1>3, <2>1 DEF StdioInv, StdioTypes, Positions
    <2>3. Exclusion'
        BY <1>1, <2>1, <2>2 DEF StdioInv, StdioTypes, Exclusion, Inside
    <2>4. Entries'
        BY <1>1, <1>2, <1>3, <2>1 DEF StdioInv, StdioTypes, Entries, FreeSlots
    <2>5. \A u \in Callers : Owned(u)' = Owned(u)
        BY <1>1, <1>3, <2>1 DEF StdioInv, StdioTypes, Owned
    <2> QED
        BY <1>3, <2>2, <2>3, <2>4, <2>5, SameOwners DEF StdioInv
<1>5. CASE ~(semaphore > 0)
    <2>1. /\ semaphore = 0 /\ UNCHANGED semaphore
          /\ at' = [at EXCEPT ![t] = "waits"] /\ suspended' = Append(suspended, t)
        BY <1>5 DEF Call, GetSemaphore, StdioInv, StdioTypes
    <2>2. StdioTypes'
        BY <1>1, <1>3, <2>1 DEF StdioInv, StdioTypes, Positions
    <2>3. Exclusion'
        <3>1. /\ Len(suspended') = Len(suspended) + 1
              /\ Len(suspended) \in Nat
              /\ \A i \in 1..Len(suspended) : suspended'[i] = suspended[i]
              /\ suspended'[Len(suspended) + 1] = t
            BY <2>1 DEF StdioInv, StdioTypes
        <3>2. \A i \in 1..Len(suspended) : suspended[i] \in Callers /\ suspended[i] # t
            BY <1>1 DEF StdioInv, StdioTypes, Exclusion
        <3>3. \A i \in 1..Len(suspended') : at'[suspended'[i]] = "waits"
            BY <2>1, <3>1, <3>2 DEF StdioInv, StdioTypes, Exclusion
        <3>4. \A i, j \in 1..Len(suspended') : i # j => suspended'[i] # suspended'[j]
            BY <3>1, <3>2 DEF StdioInv, Exclusion
        <3>5. \A u, v \in Callers : Inside(u)' /\ Inside(v)' => u = v
            BY <1>1, <2>1 DEF StdioInv, StdioTypes, Exclusion, Inside
        <3> QED
            BY <2>1, <3>3, <3>4, <3>5 DEF Exclusion
    <2>4. Entries'
        BY <1>1, <1>2, <1>3, <2>1 DEF StdioInv, StdioTypes, Entries, FreeSlots
    <2>5. \A u \in Callers : Owned(u)' = Owned(u)
        BY <1>1, <1>3, <2>1 DEF StdioInv, StdioTypes, Owned
    <2> QED
        BY <1>3, <2>2, <2>3, <2>4, <2>5, SameOwners DEF StdioInv
<1> QED
    BY <1>4, <1>5

\* A step of the thread that is inside, which stays inside.
LEMMA StaysInside ==
    ASSUME StdioInv, NEW t \in Callers, Inside(t),
           NEW where \in {"claim", "open", "put"}, at' = [at EXCEPT ![t] = where],
           UNCHANGED <<semaphore, suspended, request>>
    PROVE  /\ at' \in [Callers -> Positions]
           /\ Exclusion'
           /\ \A u \in Callers \ {t} : at'[u] = at[u] /\ ~Inside(u)
BY DEF StdioInv, StdioTypes, Positions, Exclusion, Inside

\* What a call on a handle, remove and stat do not touch.
LEMMA DoneInv ==
    ASSUME StdioInv, NEW t \in Callers, at[t] = "in", Done(t), UNCHANGED <<modeOf, handles>>
    PROVE  StdioInv'
<1>1. /\ at' = [at EXCEPT ![t] = "put"]
      /\ UNCHANGED <<semaphore, suspended, request, entry>>
    BY DEF Done
<1>2. /\ at' \in [Callers -> Positions] /\ Exclusion'
      /\ \A u \in Callers \ {t} : at'[u] = at[u] /\ ~Inside(u)
    BY <1>1, StaysInside DEF Inside
<1>3. StdioTypes'
    BY <1>1, <1>2 DEF StdioInv, StdioTypes
<1>4. Entries' /\ SlotsOwned'
    BY <1>1 DEF StdioInv, StdioTypes, Entries, FreeSlots, SlotsOwned, Owned
<1> QED
    BY <1>2, <1>3, <1>4 DEF StdioInv

LEMMA SearchInv ==
    ASSUME StdioInv, NEW t \in Callers, fopen_search(t) PROVE StdioInv'
<1>1. at[t] = "in" /\ request[t].function = "fopen"
    BY DEF fopen_search, Running
<1>2. CASE FreeSlots = {}
    <2>1. Done(t) /\ UNCHANGED <<modeOf, handles>>
        BY <1>2 DEF fopen_search, NoEntry, Done, fileVars
    <2> QED
        BY <1>1, <2>1, DoneInv
<1>3. CASE FreeSlots # {}
    <2> DEFINE i == CHOOSE i \in FreeSlots : \A j \in FreeSlots : i <= j
    <2>1. /\ entry' = [entry EXCEPT ![t] = i]
          /\ at' = [at EXCEPT ![t] = "claim"]
          /\ UNCHANGED <<semaphore, suspended, request, modeOf, handles>>
        BY <1>3 DEF fopen_search, fileVars
    <2>2. i \in FreeSlots
        BY <1>3, FirstFree
    <2> HIDE DEF i
    <2>3. /\ at' \in [Callers -> Positions] /\ Exclusion'
          /\ \A u \in Callers \ {t} : at'[u] = at[u] /\ ~Inside(u)
        BY <1>1, <2>1, StaysInside DEF Inside
    <2>4. StdioTypes'
        BY <2>1, <2>3 DEF StdioInv, StdioTypes
    <2>5. Entries' /\ SlotsOwned'
        BY <1>1, <2>1, <2>2 DEF StdioInv, StdioTypes, Entries, FreeSlots, SlotsOwned, Owned
    <2> QED
        BY <2>3, <2>4, <2>5 DEF StdioInv
<1> QED
    BY <1>2, <1>3

LEMMA ClaimInv ==
    ASSUME StdioInv, NEW t \in Callers, fopen_claim(t) PROVE StdioInv'
<1>1. /\ at[t] = "claim" /\ at' = [at EXCEPT ![t] = "open"]
      /\ modeOf' = [modeOf EXCEPT ![entry[t]] = request[t].mode]
      /\ UNCHANGED <<semaphore, suspended, request, entry, handles>>
    BY DEF fopen_claim
<1>2. request[t].mode # "free"
    <2>1. request[t] \in Requests
        BY <1>1 DEF StdioInv, StdioTypes, Entries, NoRequest
    <2> QED
        BY <1>1, <2>1, RequestParts, StdioAssumption DEF StdioInv, Entries
<1>3. entry[t] \in Slots /\ modeOf[entry[t]] = "free"
    BY <1>1 DEF StdioInv, Entries, FreeSlots
<1>4. /\ at' \in [Callers -> Positions] /\ Exclusion'
      /\ \A u \in Callers \ {t} : at'[u] = at[u] /\ ~Inside(u)
    BY <1>1, StaysInside DEF Inside
<1>5. StdioTypes'
    BY <1>1, <1>4 DEF StdioInv, StdioTypes
<1>6. \A u \in Callers : Owned(u)' = IF u = t THEN Owned(t) \union {entry[t]} ELSE Owned(u)
    BY <1>1, <1>4 DEF StdioInv, StdioTypes, Owned
<1>7. \A u \in Callers : entry[t] \notin Owned(u)
    BY <1>3 DEF StdioInv, SlotsOwned
<1>8. SlotsOwned'
    BY <1>1, <1>2, <1>3, <1>6, <1>7 DEF StdioInv, StdioTypes, SlotsOwned
<1>9. Entries'
    <2>1. entry[t] \notin handles[t]
        BY <1>7 DEF Owned
    <2> QED
        BY <1>1, <1>3, <1>4, <2>1 DEF StdioInv, StdioTypes, Entries, FreeSlots, Inside
<1> QED
    BY <1>4, <1>5, <1>8, <1>9 DEF StdioInv

LEMMA OpenInv ==
    ASSUME StdioInv, NEW t \in Callers, fopen_open(t) PROVE StdioInv'
<1>1. PICK succeeds \in BOOLEAN :
          /\ modeOf' = IF succeeds THEN modeOf ELSE [modeOf EXCEPT ![entry[t]] = "free"]
          /\ handles' = IF succeeds THEN [handles EXCEPT ![t] = @ \union {entry[t]}]
                        ELSE handles
    BY DEF fopen_open
<1>2. /\ at[t] = "open" /\ at' = [at EXCEPT ![t] = "put"]
      /\ UNCHANGED <<semaphore, suspended, request, entry>>
    BY DEF fopen_open
<1>3. entry[t] \in Slots \ handles[t]
    BY <1>2 DEF StdioInv, Entries
<1>4. /\ at' \in [Callers -> Positions] /\ Exclusion'
      /\ \A u \in Callers \ {t} : at'[u] = at[u] /\ ~Inside(u)
    BY <1>2, StaysInside DEF Inside
<1>5. StdioTypes'
    BY <1>1, <1>2, <1>3, <1>4 DEF StdioInv, StdioTypes
<1>6. SlotsOwned'
    <2>1. \A u \in Callers \ {t} : Owned(u)' = Owned(u) /\ entry[t] \notin Owned(u)
        BY <1>1, <1>2, <1>4 DEF StdioInv, StdioTypes, SlotsOwned, Owned
    <2>2. Owned(t) = handles[t] \union {entry[t]}
        BY <1>2 DEF Owned
    <2>3. Owned(t)' = IF succeeds THEN Owned(t) ELSE Owned(t) \ {entry[t]}
        BY <1>1, <1>2, <1>3, <2>2 DEF StdioInv, StdioTypes, Owned
    <2>4. CASE succeeds
        <3>1. \A u \in Callers : Owned(u)' = Owned(u)
            BY <2>1, <2>3, <2>4
        <3> QED
            BY <1>1, <2>4, <3>1, SameOwners DEF StdioInv
    <2>5. CASE ~succeeds
        <3>1. \A u \in Callers : Owned(u)' = Owned(u) \ {entry[t]}
            BY <2>1, <2>3, <2>5
        <3> QED
            BY <1>1, <1>3, <2>5, <3>1 DEF StdioInv, StdioTypes, SlotsOwned
    <2> QED
        BY <2>4, <2>5
<1>7. Entries'
    BY <1>1, <1>2, <1>4 DEF StdioInv, StdioTypes, Entries, FreeSlots, Inside
<1> QED
    BY <1>4, <1>5, <1>6, <1>7 DEF StdioInv

LEMMA CloseInv ==
    ASSUME StdioInv, NEW t \in Callers, fclose(t) PROVE StdioInv'
<1>1. /\ at[t] = "in" /\ request[t].function = "fclose"
      /\ at' = [at EXCEPT ![t] = "put"]
      /\ modeOf' = [modeOf EXCEPT ![entry[t]] = "free"]
      /\ handles' = [handles EXCEPT ![t] = @ \ {entry[t]}]
      /\ UNCHANGED <<semaphore, suspended, request, entry>>
    BY DEF fclose, Running, Done
<1>2. entry[t] \in handles[t] /\ entry[t] \in Slots
    BY <1>1 DEF StdioInv, StdioTypes, Entries, OnNames
<1>3. /\ at' \in [Callers -> Positions] /\ Exclusion'
      /\ \A u \in Callers \ {t} : at'[u] = at[u] /\ ~Inside(u)
    BY <1>1, StaysInside DEF Inside
<1>4. StdioTypes'
    BY <1>1, <1>3 DEF StdioInv, StdioTypes
<1>5. \A u \in Callers : Owned(u)' = Owned(u) \ {entry[t]}
    <2>1. \A u \in Callers \ {t} : Owned(u)' = Owned(u) /\ entry[t] \notin Owned(u)
        BY <1>1, <1>2, <1>3 DEF StdioInv, StdioTypes, SlotsOwned, Owned
    <2>2. Owned(t)' = Owned(t) \ {entry[t]}
        BY <1>1 DEF StdioInv, StdioTypes, Owned
    <2> QED
        BY <2>1, <2>2
<1>6. SlotsOwned'
    BY <1>1, <1>2, <1>5 DEF StdioInv, StdioTypes, SlotsOwned
<1>7. Entries'
    BY <1>1, <1>3 DEF StdioInv, StdioTypes, Entries, FreeSlots, Inside
<1> QED
    BY <1>3, <1>4, <1>6, <1>7 DEF StdioInv

\* The semaphore goes to the thread that waits longest, or can be had again.
LEMMA PutInv ==
    ASSUME StdioInv, NEW t \in Callers, GiveBack(t) PROVE StdioInv'
<1>1. /\ at[t] = "put"
      /\ request' = [request EXCEPT ![t] = NoRequest]
      /\ entry' = [entry EXCEPT ![t] = NoSlot]
      /\ UNCHANGED <<modeOf, handles>>
    BY DEF GiveBack, fileVars
<1>2. semaphore = 0
    BY <1>1 DEF StdioInv, StdioTypes, Exclusion, Inside
<1>3. CASE suspended # <<>>
    <2> DEFINE h == Head(suspended)
    <2>1. /\ at' = [at EXCEPT ![t] = "idle", ![h] = "in"]
          /\ suspended' = Tail(suspended) /\ UNCHANGED semaphore
        BY <1>3 DEF GiveBack, PutSemaphore
    <2>2. /\ h \in Callers /\ suspended' \in Seq(Callers)
          /\ Len(suspended) \in Nat /\ Len(suspended) > 0
          /\ Len(suspended') = Len(suspended) - 1
          /\ \A i \in 1..Len(suspended') : suspended'[i] = suspended[i + 1]
          /\ h = suspended[1]
        BY <1>3, <2>1 DEF StdioInv, StdioTypes
    <2>3. at[h] = "waits" /\ h # t
        BY <1>1, <2>2 DEF StdioInv, Exclusion
    <2> HIDE DEF h
    <2>4. StdioTypes'
        BY <1>1, <2>1, <2>2 DEF StdioInv, StdioTypes, Positions
    <2>5. Exclusion'
        <3>1. \A i \in 1..Len(suspended') :
                  /\ i + 1 \in 1..Len(suspended) /\ i + 1 # 1
                  /\ suspended'[i] = suspended[i + 1] /\ suspended[i + 1] \in Callers
            BY <2>2 DEF StdioInv, StdioTypes
        <3>2. 1 \in 1..Len(suspended)
            BY <2>2
        <3>3. \A i \in 1..Len(suspended') :
                  at[suspended'[i]] = "waits" /\ suspended'[i] # h /\ suspended'[i] # t
            BY <1>1, <2>2, <3>1, <3>2 DEF StdioInv, Exclusion
        <3>4. \A i \in 1..Len(suspended') : at'[suspended'[i]] = "waits"
            BY <2>1, <3>1, <3>3 DEF StdioInv, StdioTypes
        <3>5. \A i, j \in 1..Len(suspended') : i # j => suspended'[i] # suspended'[j]
            <4> SUFFICES ASSUME NEW i \in 1..Len(suspended'), NEW j \in 1..Len(suspended'),
                                i # j
                         PROVE  suspended'[i] # suspended'[j]
                OBVIOUS
            <4>1. i + 1 # j + 1
                BY <2>2
            <4> QED
                BY <3>1, <4>1 DEF StdioInv, Exclusion
        <3>6. \A u, v \in Callers : Inside(u)' /\ Inside(v)' => u = v
            BY <1>1, <2>1, <2>2, <2>3 DEF StdioInv, StdioTypes, Exclusion, Inside
        <3>7. semaphore' = 0
            BY <1>2, <2>1
        <3> QED
            BY <3>4, <3>5, <3>6, <3>7 DEF Exclusion
    <2>6. Entries'
        BY <1>1, <2>1, <2>2, <2>3 DEF StdioInv, StdioTypes, Entries, FreeSlots, NoRequest
    <2>7. \A u \in Callers : Owned(u)' = Owned(u)
        BY <1>1, <2>1, <2>2, <2>3 DEF StdioInv, StdioTypes, Owned
    <2> QED
        BY <1>1, <2>4, <2>5, <2>6, <2>7, SameOwners DEF StdioInv
<1>4. CASE suspended = <<>>
    <2>1. /\ at' = [at EXCEPT ![t] = "idle"]
          /\ semaphore' = 1 /\ UNCHANGED suspended
        BY <1>2, <1>4 DEF GiveBack, PutSemaphore
    <2>2. StdioTypes'
        BY <1>1, <2>1 DEF StdioInv, StdioTypes, Positions
    <2>3. Exclusion'
        BY <1>1, <1>4, <2>1 DEF StdioInv, StdioTypes, Exclusion, Inside
    <2>4. Entries'
        BY <1>1, <2>1 DEF StdioInv, StdioTypes, Entries, FreeSlots, NoRequest
    <2>5. \A u \in Callers : Owned(u)' = Owned(u)
        BY <1>1, <2>1 DEF StdioInv, StdioTypes, Owned
    <2> QED
        BY <1>1, <2>2, <2>3, <2>4, <2>5, SameOwners DEF StdioInv
<1> QED
    BY <1>3, <1>4

LEMMA StdioInvStep == StdioInv /\ [StdioNext]_stdioVars => StdioInv'
<1> SUFFICES ASSUME StdioInv, [StdioNext]_stdioVars PROVE StdioInv'
    OBVIOUS
<1>1. ASSUME NEW t \in Callers, StdioStep(t) PROVE StdioInv'
    <2>1. CASE fopen_search(t)
        BY <2>1, SearchInv
    <2>2. CASE fopen_claim(t)
        BY <2>2, ClaimInv
    <2>3. CASE fopen_open(t)
        BY <2>3, OpenInv
    <2>4. CASE fclose(t)
        BY <2>4, CloseInv
    <2>5. CASE fread(t)
        BY <2>5, DoneInv DEF fread, Running
    <2>6. CASE fgets(t)
        BY <2>6, DoneInv DEF fgets, Running
    <2>7. CASE fwrite(t)
        BY <2>7, DoneInv DEF fwrite, Running
    <2>8. CASE fseek(t)
        BY <2>8, DoneInv DEF fseek, Running
    <2>9. CASE remove(t)
        BY <2>9, DoneInv DEF remove, Running
    <2>10. CASE stat(t)
        BY <2>10, DoneInv DEF stat, Running, fileVars
    <2>11. CASE GiveBack(t)
        BY <2>11, PutInv
    <2> QED
        BY <1>1, <2>1, <2>2, <2>3, <2>4, <2>5, <2>6, <2>7, <2>8, <2>9, <2>10, <2>11
        DEF StdioStep
<1>2. CASE UNCHANGED stdioVars
    BY <1>2 DEF stdioVars, StdioInv, StdioTypes, Exclusion, Inside, Entries, FreeSlots,
       SlotsOwned, Owned
<1> QED
    BY <1>1, <1>2, CallInv DEF StdioNext

\* However many threads call at once and whatever FileX returns: every entry
\* of the table that is taken has an owner, and only one.
THEOREM EntriesOwned == StdioSpec => []SlotsOwned
<1>1. StdioInv => SlotsOwned
    BY DEF StdioInv
<1> QED
    BY StdioInvInit, StdioInvStep, <1>1, PTL DEF StdioSpec

-----------------------------------------------------------------------------
(* The loop of fgets *)

\* Induction over the natural numbers, by a least counterexample.
LEMMA Induction ==
    ASSUME NEW S \in SUBSET Nat, 0 \in S, \A n \in S : n + 1 \in S
    PROVE  S = Nat
<1> SUFFICES ASSUME Nat \ S # {} PROVE FALSE
    OBVIOUS
<1>1. PICK m \in Nat \ S : \A j \in Nat \ S : ~(<<j, m>> \in OpToRel(<, Nat))
    BY WFMin, NatLessThanWellFounded
<1>2. m - 1 \in Nat /\ m - 1 < m /\ (m - 1) + 1 = m
  <2>1. m \in Nat /\ m # 0
      BY <1>1
  <2> QED
      BY <2>1
<1>3. m - 1 \notin S
    BY <1>1, <1>2
<1> QED
    BY <1>1, <1>2, <1>3 DEF OpToRel

\* The rounds of the loop, up to the n-th.
Unrolled(f, s, offset, faults, c0, n) ==
    f = [k \in 0..n |-> IF k = 0 THEN NothingRead(offset, c0)
                        ELSE Round(s, k, faults, f[k - 1])]

LEMMA UnrolledExists ==
    ASSUME NEW s, NEW offset, NEW faults, NEW c0
    PROVE  \A n \in Nat : \E f : Unrolled(f, s, offset, faults, c0, n)
<1> DEFINE S == {n \in Nat : \E f : Unrolled(f, s, offset, faults, c0, n)}
<1>1. 0 \in S
  <2> DEFINE f == [k \in 0..0 |-> NothingRead(offset, c0)]
  <2>1. Unrolled(f, s, offset, faults, c0, 0)
      BY DEF Unrolled
  <2> QED
      BY <2>1
<1>2. ASSUME NEW n \in S PROVE n + 1 \in S
  <2>1. PICK f : Unrolled(f, s, offset, faults, c0, n)
      OBVIOUS
  <2> DEFINE g == [k \in 0..(n + 1) |-> IF k = n + 1 THEN Round(s, k, faults, f[n]) ELSE f[k]]
  <2>2. ASSUME NEW k \in 0..(n + 1)
        PROVE  g[k] = IF k = 0 THEN NothingRead(offset, c0) ELSE Round(s, k, faults, g[k - 1])
    <3>1. CASE k = n + 1
      <4>1. g[k - 1] = f[n]
          BY <3>1
      <4> QED
          BY <3>1, <4>1
    <3>2. CASE k # n + 1
      <4>1. k \in 0..n /\ (k # 0 => k - 1 \in 0..n)
          BY <3>2
      <4>2. g[k] = f[k] /\ (k # 0 => g[k - 1] = f[k - 1])
          BY <4>1
      <4> QED
          BY <2>1, <4>1, <4>2 DEF Unrolled
    <3> QED
        BY <3>1, <3>2
  <2>3. Unrolled(g, s, offset, faults, c0, n + 1)
      BY <2>2 DEF Unrolled
  <2> QED
      BY <2>3
<1> HIDE DEF S
<1>3. S = Nat
    BY <1>1, <1>2, Induction DEF S
<1> QED
    BY <1>3 DEF S

LEMMA LoopUnrolled ==
    ASSUME NEW s, NEW offset, NEW max \in Nat \ {0}, NEW faults, NEW c0
    PROVE  \E f : /\ Loop(s, offset, max, faults, c0) = f[max - 1]
                  /\ Unrolled(f, s, offset, faults, c0, max - 1)
<1> DEFINE f == CHOOSE g : Unrolled(g, s, offset, faults, c0, max - 1)
<1>1. Loop(s, offset, max, faults, c0) = f[max - 1]
    BY DEF Loop, Unrolled, MaxCharacters
<1>2. Unrolled(f, s, offset, faults, c0, max - 1)
    BY UnrolledExists
<1> QED
    BY <1>1, <1>2

Characters == {Newline, Other}

Progress == [got : Seq(Characters), offset : Nat, c : Characters,
             stopped : BOOLEAN, eof : BOOLEAN]
Stopped(r) == r.stopped = TRUE
EndMet(r) == r.eof = TRUE

Follows(got, s, offset) == \A i \in 1..Len(got) : got[i] = s[offset + i]

\* What the rounds have done so far: what is read is what follows in the file.
ReadSoFar(s, offset, faults, k, r) ==
    /\ r \in Progress
    /\ r.offset \in offset..Len(s)
    /\ r.offset <= offset + k
    /\ Len(r.got) = r.offset - offset
    /\ Follows(r.got, s, offset)
    /\ EndMet(r) => r.offset = Len(s)
    /\ faults = {} /\ ~Stopped(r) => Len(r.got) = k
    /\ faults = {} /\ Stopped(r) /\ ~EndMet(r)
       => Len(r.got) > 0 /\ r.got[Len(r.got)] = Newline

LEMMA RoundReads ==
    ASSUME NEW s \in Seq(Characters), NEW offset \in Nat, NEW faults, NEW k \in Nat,
           NEW r, ReadSoFar(s, offset, faults, k, r)
    PROVE  ReadSoFar(s, offset, faults, k + 1, Round(s, k + 1, faults, r))
<1> DEFINE after == Round(s, k + 1, faults, r)
<1> SUFFICES ReadSoFar(s, offset, faults, k + 1, after)
    OBVIOUS
<1> Len(s) \in Nat
    OBVIOUS
<1>1. r \in Progress
    BY DEF ReadSoFar
<1>2. r.got \in Seq(Characters) /\ Len(r.got) \in Nat /\ r.offset \in Nat
    BY <1>1 DEF Progress
<1>3. CASE Stopped(r)
  <2>1. after = r
      BY <1>3 DEF Round, Stopped
  <2> QED
      BY <1>2, <1>3, <2>1 DEF ReadSoFar
<1>4. CASE ~Stopped(r) /\ k + 1 \notin faults /\ r.offset = Len(s)
  <2>1. after = [r EXCEPT !.stopped = TRUE, !.eof = TRUE]
      BY <1>1, <1>4 DEF Round, Progress, Stopped
  <2>2. after.got = r.got /\ after.offset = r.offset
      BY <1>1, <2>1 DEF Progress
  <2>3. Stopped(after) /\ EndMet(after) /\ after \in Progress
      BY <1>1, <2>1 DEF Progress, Stopped, EndMet
  <2> HIDE DEF after
  <2> QED
      BY <1>2, <1>4, <2>2, <2>3 DEF ReadSoFar
<1>5. CASE ~Stopped(r) /\ k + 1 \in faults
  <2>1. after = [r EXCEPT !.stopped = r.c = Newline]
      BY <1>1, <1>5 DEF Round, Progress, Stopped
  <2>2. after.got = r.got /\ after.offset = r.offset
      BY <1>1, <2>1 DEF Progress
  <2>3. (EndMet(after) <=> EndMet(r)) /\ after \in Progress
      BY <1>1, <2>1 DEF Progress, EndMet
  <2>4. faults # {}
      BY <1>5
  <2> HIDE DEF after
  <2> QED
      BY <1>2, <2>2, <2>3, <2>4 DEF ReadSoFar
<1>6. CASE ~Stopped(r) /\ k + 1 \notin faults /\ r.offset # Len(s)
  <2> DEFINE ch == s[r.offset + 1]
  <2>1. /\ r.offset \in offset..Len(s) /\ r.offset <= offset + k
        /\ Len(r.got) = r.offset - offset
        /\ ~EndMet(r)
        /\ faults = {} => Len(r.got) = k
      BY <1>2, <1>6 DEF ReadSoFar
  <2>2. ch \in Characters
      BY <1>2, <1>6, <2>1
  <2> HIDE DEF ch
  <2>3. after = [[r EXCEPT !.c = ch, !.got = Append(r.got, ch), !.offset = r.offset + 1]
                     EXCEPT !.stopped = ch = Newline]
      BY <1>1, <1>6 DEF Round, Progress, Stopped, ch
  <2>4. after.got = Append(r.got, ch) /\ after.offset = r.offset + 1
      BY <1>1, <2>3 DEF Progress
  <2>5. (EndMet(after) <=> EndMet(r)) /\ (Stopped(after) <=> ch = Newline)
      BY <1>1, <2>3 DEF Progress, EndMet, Stopped
  <2>6. Append(r.got, ch) \in Seq(Characters)
      BY <1>2, <2>2
  <2>7. after \in Progress
    <3> r.offset + 1 \in Nat
        BY <1>2
    <3> HIDE DEF after
    <3> QED
        BY <1>1, <2>2, <2>3, <2>6 DEF Progress
  <2> HIDE DEF after
  <2>8. /\ Len(after.got) = Len(r.got) + 1
        /\ \A i \in 1..Len(r.got) : after.got[i] = r.got[i]
        /\ after.got[Len(r.got) + 1] = ch
      BY <1>2, <2>2, <2>4
  <2>9. Follows(after.got, s, offset)
    <3> SUFFICES ASSUME NEW i \in 1..Len(after.got) PROVE after.got[i] = s[offset + i]
        BY DEF Follows
    <3>1. CASE i \in 1..Len(r.got)
        BY <2>8, <3>1 DEF ReadSoFar, Follows
    <3>2. CASE i \notin 1..Len(r.got)
      <4>1. i = Len(r.got) + 1
          BY <1>2, <2>8, <3>2
      <4>2. offset + i = r.offset + 1
          BY <1>2, <2>1, <4>1
      <4> QED
          BY <2>8, <4>1, <4>2 DEF ch
    <3> QED
        BY <3>1, <3>2
  <2>10. after.offset \in offset..Len(s) /\ after.offset <= offset + (k + 1)
         /\ Len(after.got) = after.offset - offset
      BY <1>2, <1>6, <2>1, <2>4, <2>8
  <2>11. faults = {} => Len(after.got) = k + 1
      BY <2>1, <2>8
  <2>12. Len(after.got) > 0 /\ after.got[Len(after.got)] = ch
      BY <1>2, <2>8
  <2> QED
      BY <2>1, <2>5, <2>7, <2>9, <2>10, <2>11, <2>12 DEF ReadSoFar
<1> QED
    BY <1>3, <1>4, <1>5, <1>6

\* The loop as a whole.
LEMMA LoopReads ==
    ASSUME NEW s \in Seq(Characters), NEW offset \in 0..Len(s), NEW max \in Nat \ {0},
           NEW faults, NEW c0 \in Characters
    PROVE  ReadSoFar(s, offset, faults, max - 1, Loop(s, offset, max, faults, c0))
<1>1. PICK f : /\ Loop(s, offset, max, faults, c0) = f[max - 1]
               /\ Unrolled(f, s, offset, faults, c0, max - 1)
    BY LoopUnrolled
<1> DEFINE S == {k \in Nat : k <= max - 1 => ReadSoFar(s, offset, faults, k, f[k])}
<1>2. 0 \in S
  <2>1. f[0] = NothingRead(offset, c0)
      BY <1>1 DEF Unrolled
  <2>2. offset \in Nat /\ offset <= Len(s)
      OBVIOUS
  <2>3. ReadSoFar(s, offset, faults, 0, NothingRead(offset, c0))
      BY <2>2 DEF ReadSoFar, Follows, NothingRead, Progress, Stopped, EndMet
  <2> QED
      BY <2>1, <2>3
<1>3. ASSUME NEW k \in S PROVE k + 1 \in S
  <2> SUFFICES ASSUME k + 1 <= max - 1
               PROVE  ReadSoFar(s, offset, faults, k + 1, f[k + 1])
      OBVIOUS
  <2>1. k \in Nat /\ k <= max - 1 /\ k + 1 \in 0..(max - 1) /\ k + 1 # 0 /\ (k + 1) - 1 = k
      OBVIOUS
  <2>2. f[k + 1] = Round(s, k + 1, faults, f[k])
      BY <1>1, <2>1 DEF Unrolled
  <2>3. ReadSoFar(s, offset, faults, k, f[k])
      BY <2>1
  <2> QED
      BY <2>1, <2>2, <2>3, RoundReads
<1> HIDE DEF S
<1>4. S = Nat
    BY <1>2, <1>3, Induction DEF S
<1>5. max - 1 \in Nat
    OBVIOUS
<1> QED
    BY <1>1, <1>4, <1>5 DEF S

-----------------------------------------------------------------------------
(* The files behind the entries *)

FileStates == [name : Names \union {"none"}, access : {"none", "read", "write"},
               offset : Nat]

FileTypes ==
    /\ fxFile \in [Slots -> FileStates]
    /\ content \in [Names -> Seq(Characters)]

\* An entry's file that is open is a file, and the position is within it.
PositionsKept ==
    \A i \in Slots :
        IF fxFile[i].access = "none" THEN fxFile[i] = Closed
        ELSE /\ fxFile[i].name \in Names
             /\ fxFile[i].offset <= Len(content[fxFile[i].name])

\* A file that is open for writing is open once, also by an entry that fopen
\* has given up.
OneWriter ==
    \A i, j \in Slots :
        /\ i # j /\ fxFile[i].name = fxFile[j].name
        /\ fxFile[i].access # "none" /\ fxFile[j].access # "none"
        => fxFile[i].access = "read"

HandlesOpen == \A t \in Callers : \A i \in handles[t] : fxFile[i].access # "none"

FileInv == FileTypes /\ PositionsKept /\ OneWriter /\ HandlesOpen

LEMMA FileInvInit == StdioInit => FileInv
<1> SUFFICES ASSUME StdioInit PROVE FileInv
    OBVIOUS
<1>1. FileTypes
    BY StdioAssumption DEF StdioInit, FileTypes, FileStates, Closed, Characters
<1>2. \A i \in Slots : fxFile[i] = Closed /\ fxFile[i].access = "none"
    BY DEF StdioInit, Closed
<1>3. PositionsKept /\ OneWriter
    BY <1>2 DEF PositionsKept, OneWriter
<1>4. HandlesOpen
    BY DEF StdioInit, HandlesOpen
<1> QED
    BY <1>1, <1>3, <1>4 DEF FileInv

\* A call on a handle moves the position of one entry; what it writes makes no
\* file shorter.
LEMMA PositionMoves ==
    ASSUME FileInv, NEW i \in Slots, NEW p \in Nat,
           fxFile[i].access # "none",
           fxFile' = [fxFile EXCEPT ![i] = [fxFile[i] EXCEPT !.offset = p]],
           content' \in [Names -> Seq(Characters)],
           \A n \in Names : Len(content[n]) <= Len(content'[n]),
           p <= Len(content'[fxFile[i].name]),
           handles \in [Callers -> SUBSET Slots], UNCHANGED handles
    PROVE  /\ FileInv'
           /\ \A j \in Slots : fxFile'[j].name = fxFile[j].name
<1> DEFINE g == [fxFile[i] EXCEPT !.offset = p]
<1>1. fxFile[i] \in FileStates
    BY DEF FileInv, FileTypes
<1>2. /\ g \in FileStates /\ g.offset = p
      /\ g.name = fxFile[i].name /\ g.access = fxFile[i].access
    BY <1>1 DEF FileStates
<1> HIDE DEF g
<1>3. fxFile' = [fxFile EXCEPT ![i] = g]
    BY DEF g
<1>4. FileTypes'
    BY <1>2, <1>3 DEF FileInv, FileTypes
<1>5. \A j \in Slots : /\ fxFile'[j].name = fxFile[j].name
                       /\ fxFile'[j].access = fxFile[j].access
                       /\ j # i => fxFile'[j] = fxFile[j]
                       /\ fxFile'[i].offset = p
    BY <1>2, <1>3 DEF FileInv, FileTypes
<1>6. \A n \in Names : Len(content[n]) \in Nat /\ Len(content'[n]) \in Nat
    BY DEF FileInv, FileTypes
<1>7. \A j \in Slots : fxFile[j].offset \in Nat
    BY DEF FileInv, FileTypes, FileStates
<1>8. PositionsKept'
  <2> SUFFICES ASSUME NEW j \in Slots
               PROVE  IF fxFile'[j].access = "none" THEN fxFile'[j] = Closed
                      ELSE /\ fxFile'[j].name \in Names
                           /\ fxFile'[j].offset <= Len(content'[fxFile'[j].name])
      BY DEF PositionsKept, Closed
  <2>1. CASE j = i
      BY <1>5, <2>1 DEF FileInv, PositionsKept
  <2>2. CASE j # i
      BY <1>5, <1>6, <1>7, <2>2 DEF FileInv, PositionsKept
  <2> QED
      BY <2>1, <2>2
<1>9. OneWriter'
    BY <1>5 DEF FileInv, OneWriter
<1>10. HandlesOpen'
    BY <1>5 DEF FileInv, HandlesOpen
<1> QED
    BY <1>4, <1>5, <1>8, <1>9, <1>10 DEF FileInv

\* The file that a call on a handle works on.
LEMMA HandleFile ==
    ASSUME StdioInv, FileInv, NEW t \in Callers, at[t] = "in",
           request[t].function \notin OnNames \union {"none"}
    PROVE  /\ entry[t] \in Slots
           /\ fxFile[entry[t]].access # "none"
           /\ fxFile[entry[t]].name \in Names
           /\ fxFile[entry[t]] \in FileStates
           /\ content[fxFile[entry[t]].name] \in Seq(Characters)
           /\ fxFile[entry[t]].offset \in 0..Len(content[fxFile[entry[t]].name])
           /\ request[t] \in Requests
<1>1. request[t] \in Requests
    BY DEF StdioInv, StdioTypes, NoRequest
<1>2. entry[t] \in handles[t] /\ entry[t] \in Slots
    BY DEF StdioInv, StdioTypes, Entries
<1>3. fxFile[entry[t]].access # "none" /\ fxFile[entry[t]] \in FileStates
    BY <1>2 DEF FileInv, HandlesOpen, FileTypes
<1>4. /\ fxFile[entry[t]].name \in Names
      /\ content[fxFile[entry[t]].name] \in Seq(Characters)
      /\ fxFile[entry[t]].offset <= Len(content[fxFile[entry[t]].name])
    BY <1>2, <1>3 DEF FileInv, PositionsKept, FileTypes
<1>5. fxFile[entry[t]].offset \in Nat
    BY <1>3 DEF FileStates
<1> QED
    BY <1>1, <1>2, <1>3, <1>4, <1>5

\* A call that leaves the files alone.
LEMMA FilesStay ==
    ASSUME FileInv, UNCHANGED <<fxFile, content, handles>>
    PROVE  /\ FileInv'
           /\ \A j \in Slots : fxFile'[j].name = fxFile[j].name
BY DEF FileInv, FileTypes, PositionsKept, OneWriter, HandlesOpen

LEMMA ReadFiles ==
    ASSUME StdioInv, FileInv, NEW t \in Callers, fread(t)
    PROVE  FileInv' /\ \A j \in Slots : fxFile'[j].name = fxFile[j].name
<1> DEFINE i == entry[t]
           f == fxFile[i]
           p == Smaller(f.offset + request[t].count, Len(content[f.name]))
<1>1. at[t] = "in" /\ request[t].function = "fread" /\ UNCHANGED <<content, handles>>
    BY DEF fread, Running
<1>2. fxFile' = fxFile \/ fxFile' = [fxFile EXCEPT ![i] = [f EXCEPT !.offset = p]]
    BY DEF fread
<1>3. request[t].count = 1
    BY <1>1, HandleFile, RequestParts DEF OnNames
<1>4. f.offset \in 0..Len(content[f.name]) /\ Len(content[f.name]) \in Nat
    BY <1>1, HandleFile DEF OnNames
<1>5. p \in Nat /\ p <= Len(content[f.name])
    BY <1>3, <1>4 DEF Smaller
<1>6. i \in Slots /\ f.access # "none"
    BY <1>1, HandleFile DEF OnNames
<1> HIDE DEF p
<1>7. \A n \in Names : Len(content[n]) <= Len(content'[n])
    BY <1>1 DEF FileInv, FileTypes
<1> QED
    BY <1>1, <1>2, <1>5, <1>6, <1>7, FilesStay, PositionMoves
    DEF StdioInv, StdioTypes, FileInv, FileTypes

LEMMA GetsFiles ==
    ASSUME StdioInv, FileInv, DOMAIN line = Callers, NEW t \in Callers, fgets(t)
    PROVE  /\ FileInv'
           /\ \A j \in Slots : fxFile'[j].name = fxFile[j].name
           /\ \E faults, c0 :
                 LET i == entry[t]  f == fxFile[i]  s == content[f.name]
                     end == Loop(s, f.offset, request[t].count, faults, c0) IN
                 /\ ReadSoFar(s, f.offset, faults, request[t].count - 1, end)
                 /\ line'[t] = [buffer |-> end.got, null |-> end.got = <<>> \/ end.eof,
                                faulty |-> faults # {}]
                 /\ fxFile'[i].offset = end.offset
<1> DEFINE i == entry[t]
           f == fxFile[i]
           s == content[f.name]
<1>1. at[t] = "in" /\ request[t].function = "fgets" /\ UNCHANGED <<content, handles>>
    BY DEF fgets, Running
<1>2. PICK faults \in SUBSET (1..(request[t].count - 1)), c0 \in {Newline, Other} :
          LET end == Loop(s, f.offset, request[t].count, faults, c0) IN
          /\ fxFile' = [fxFile EXCEPT ![i].offset = end.offset]
          /\ line' = [line EXCEPT ![t] =
                         [buffer |-> end.got, null |-> end.got = <<>> \/ end.eof,
                          faulty |-> faults # {}]]
    BY DEF fgets
<1> DEFINE end == Loop(s, f.offset, request[t].count, faults, c0)
<1>3. request[t].count \in Nat \ {0}
    BY <1>1, HandleFile, RequestParts DEF OnNames
<1>4. /\ f.offset \in 0..Len(s) /\ s \in Seq(Characters)
      /\ i \in Slots /\ f.access # "none"
    BY <1>1, HandleFile DEF OnNames
<1>5. ReadSoFar(s, f.offset, faults, request[t].count - 1, end)
    BY <1>3, <1>4, LoopReads DEF Characters
<1> HIDE DEF end
<1>6. end.offset \in Nat /\ end.offset <= Len(s)
    BY <1>4, <1>5 DEF ReadSoFar, Progress
<1>7. \A n \in Names : Len(content[n]) <= Len(content'[n])
    BY <1>1 DEF FileInv, FileTypes
<1>8. fxFile' = [fxFile EXCEPT ![i] = [f EXCEPT !.offset = end.offset]]
    BY <1>2 DEF end
<1>9. FileInv' /\ \A j \in Slots : fxFile'[j].name = fxFile[j].name
    BY <1>1, <1>4, <1>6, <1>7, <1>8, PositionMoves
    DEF StdioInv, StdioTypes, FileInv, FileTypes
<1>10. /\ line'[t] = [buffer |-> end.got, null |-> end.got = <<>> \/ end.eof,
                       faulty |-> faults # {}]
       /\ fxFile'[i].offset = end.offset
    BY <1>2, <1>4, <1>8 DEF end, FileInv, FileTypes, FileStates
<1> QED
    BY <1>5, <1>9, <1>10 DEF end

LEMMA OverwrittenLength ==
    ASSUME NEW s \in Seq(Characters), NEW offset \in 0..Len(s), NEW n \in Nat
    PROVE  /\ Overwritten(s, offset, n) \in Seq(Characters)
           /\ Len(Overwritten(s, offset, n)) \in Nat
           /\ Len(s) <= Len(Overwritten(s, offset, n))
           /\ offset + n <= Len(Overwritten(s, offset, n))
<1> DEFINE len == IF offset + n > Len(s) THEN offset + n ELSE Len(s)
<1>1. len \in Nat /\ Len(s) <= len /\ offset + n <= len
    OBVIOUS
<1>2. \A k \in 1..len : k \notin (offset + 1)..(offset + n) => k \in 1..Len(s)
    OBVIOUS
<1>3. Overwritten(s, offset, n) \in [1..len -> Characters]
    BY <1>2 DEF Overwritten, Characters
<1> HIDE DEF len
<1>4. Overwritten(s, offset, n) \in Seq(Characters) /\ Len(Overwritten(s, offset, n)) = len
    BY <1>1, <1>3
<1> QED
    BY <1>1, <1>4

\* A write at a position within the file.
LEMMA WrittenFiles ==
    ASSUME StdioInv, FileInv, NEW i \in Slots, fxFile[i].access # "none",
           NEW p \in 0..Len(content[fxFile[i].name]), NEW n \in Nat, NEW fault,
           Written(i, [fxFile[i] EXCEPT !.offset = p], n, fault), UNCHANGED handles
    PROVE  /\ FileInv'
           /\ \A j \in Slots : fxFile'[j].name = fxFile[j].name
           /\ fxFile'[i].offset \in 0..Len(content'[fxFile[i].name])
<1> DEFINE f == [fxFile[i] EXCEPT !.offset = p]
           s == content[fxFile[i].name]
<1>1. /\ fxFile[i] \in FileStates /\ fxFile[i].name \in Names
      /\ s \in Seq(Characters)
    BY DEF FileInv, FileTypes, PositionsKept
<1>2. /\ f.name = fxFile[i].name /\ f.offset = p
      /\ [f EXCEPT !.offset = @ + n] = [fxFile[i] EXCEPT !.offset = p + n]
    BY <1>1 DEF FileStates
<1>3. p \in Nat /\ p + n \in Nat /\ Len(s) \in Nat /\ p <= Len(s)
    BY <1>1
<1>4. handles \in [Callers -> SUBSET Slots]
    BY DEF StdioInv, StdioTypes
<1>5. CASE /\ content' = [content EXCEPT ![f.name] = Overwritten(@, f.offset, n)]
           /\ fxFile' = [fxFile EXCEPT ![i] = [f EXCEPT !.offset = @ + n]]
  <2> DEFINE after == Overwritten(s, p, n)
  <2>1. /\ after \in Seq(Characters) /\ Len(after) \in Nat
        /\ Len(s) <= Len(after) /\ p + n <= Len(after)
      BY <1>1, OverwrittenLength
  <2>2. content' = [content EXCEPT ![fxFile[i].name] = after]
      BY <1>2, <1>5
  <2> HIDE DEF after
  <2>3. content' \in [Names -> Seq(Characters)] /\ content'[fxFile[i].name] = after
      BY <1>1, <2>1, <2>2 DEF FileInv, FileTypes
  <2>4. \A m \in Names : Len(content[m]) <= Len(content'[m])
      BY <1>1, <2>1, <2>2 DEF FileInv, FileTypes
  <2>5. fxFile' = [fxFile EXCEPT ![i] = [fxFile[i] EXCEPT !.offset = p + n]]
      BY <1>2, <1>5
  <2>6. fxFile'[i].offset = p + n
      BY <1>1, <2>5 DEF FileInv, FileTypes, FileStates
  <2>7. p + n \in 0..Len(after)
      BY <1>3, <2>1
  <2> QED
      BY <1>3, <1>4, <2>1, <2>3, <2>4, <2>5, <2>6, <2>7, PositionMoves
<1>6. CASE content' = content /\ fxFile' = [fxFile EXCEPT ![i] = f]
  <2>1. \A m \in Names : Len(content[m]) <= Len(content'[m])
      BY <1>6 DEF FileInv, FileTypes
  <2>2. content' \in [Names -> Seq(Characters)]
      BY <1>6 DEF FileInv, FileTypes
  <2>3. fxFile'[i].offset = p
      BY <1>1, <1>6 DEF FileInv, FileTypes, FileStates
  <2>4. p \in 0..Len(content'[fxFile[i].name])
      BY <1>6
  <2> QED
      BY <1>3, <1>4, <1>6, <2>1, <2>2, <2>3, <2>4, PositionMoves
<1> QED
    BY <1>5, <1>6 DEF Written

LEMMA WriteFiles ==
    ASSUME StdioInv, FileInv, NEW t \in Callers, fwrite(t)
    PROVE  FileInv' /\ \A j \in Slots : fxFile'[j].name = fxFile[j].name
<1> DEFINE f == fxFile[entry[t]]
<1>1. at[t] = "in" /\ request[t].function = "fwrite" /\ UNCHANGED handles
    BY DEF fwrite, Running
<1>2. PICK fault \in BOOLEAN : Written(entry[t], f, request[t].count, fault)
    BY DEF fwrite
<1>3. request[t].count = 1
    BY <1>1, HandleFile, RequestParts DEF OnNames
<1>4. /\ entry[t] \in Slots /\ f.access # "none" /\ f \in FileStates
      /\ f.offset \in 0..Len(content[f.name])
    BY <1>1, HandleFile DEF OnNames
<1>5. [f EXCEPT !.offset = f.offset] = f
    BY <1>4 DEF FileStates
<1>6. Written(entry[t], [f EXCEPT !.offset = f.offset], 1, fault)
    BY <1>2, <1>3, <1>5
<1> HIDE DEF f
<1> QED
    BY <1>1, <1>4, <1>6, WrittenFiles DEF f

\* Wherever fseek is asked to go, it stays within the file, and a seek
\* backward does not go forward.
LEMMA SeekWithin ==
    ASSUME NEW f, NEW size \in Nat, f.offset \in 0..size, NEW offset \in Int, NEW wherefrom
    PROVE  /\ SeekPosition(f, size, offset, wherefrom) \in 0..size
           /\ wherefrom = "SEEK_CUR" /\ offset < 0
              => SeekPosition(f, size, offset, wherefrom) <= f.offset
<1>1. \A p \in Int : SeekTo(p, size) \in 0..size
    BY DEF SeekTo
<1>2. CASE wherefrom = "SEEK_SET"
    BY <1>1, <1>2 DEF SeekPosition
<1>3. CASE wherefrom = "SEEK_CUR" /\ offset < 0
  <2>1. Backward(f.offset, -offset) \in 0..f.offset
      BY <1>3 DEF Backward
  <2>2. SeekTo(Backward(f.offset, -offset), size) = Backward(f.offset, -offset)
      BY <2>1 DEF SeekTo
  <2>3. SeekPosition(f, size, offset, wherefrom) = Backward(f.offset, -offset)
      BY <1>3, <2>2 DEF SeekPosition
  <2> QED
      BY <2>1, <2>3
<1>4. CASE wherefrom = "SEEK_CUR" /\ offset >= 0
    BY <1>1, <1>4 DEF SeekPosition
<1>5. CASE wherefrom = "SEEK_END" /\ offset < 0
  <2>1. Backward(size, -offset) \in Int
      BY DEF Backward
  <2> QED
      BY <1>1, <1>5, <2>1 DEF SeekPosition
<1>6. CASE wherefrom \notin {"SEEK_SET", "SEEK_CUR"} /\ ~(wherefrom = "SEEK_END" /\ offset < 0)
    BY <1>6 DEF SeekPosition
<1> QED
    BY <1>2, <1>3, <1>4, <1>5, <1>6

LEMMA SeekFiles ==
    ASSUME StdioInv, FileInv, NEW t \in Callers, fseek(t)
    PROVE  /\ FileInv'
           /\ \A j \in Slots : fxFile'[j].name = fxFile[j].name
           /\ fxFile'[entry[t]].offset \in 0..Len(content'[fxFile[entry[t]].name])
           /\ request[t].wherefrom = "SEEK_CUR" /\ request[t].count < 0
              => fxFile'[entry[t]].offset <= fxFile[entry[t]].offset
<1> DEFINE i == entry[t]
           f == fxFile[i]
           r == request[t]
           size == Len(content[f.name])
           p == SeekPosition(f, size, r.count, r.wherefrom)
           sought == [f EXCEPT !.offset = p]
<1>1. at[t] = "in" /\ r.function = "fseek" /\ UNCHANGED handles
    BY DEF fseek, Running
<1>2. r.count \in Int
    BY <1>1, HandleFile, RequestParts DEF OnNames
<1>3. /\ i \in Slots /\ f.access # "none" /\ f \in FileStates
      /\ size \in Nat /\ f.offset \in 0..size
    BY <1>1, HandleFile DEF OnNames
<1>4. p \in 0..size /\ (r.wherefrom = "SEEK_CUR" /\ r.count < 0 => p <= f.offset)
    BY <1>2, <1>3, SeekWithin
<1> HIDE DEF p
<1>5. CASE r.wherefrom = "SEEK_END" /\ r.count >= 0
  <2>1. PICK fault \in BOOLEAN :
            Written(i, sought, IF r.count >= size THEN r.count - size ELSE MaxLength + 1, fault)
      BY <1>5 DEF fseek, p
  <2>2. (IF r.count >= size THEN r.count - size ELSE MaxLength + 1) \in Nat
      BY <1>2, <1>3, StdioAssumption
  <2> QED
      BY <1>1, <1>3, <1>4, <1>5, <2>1, <2>2, WrittenFiles
<1>6. CASE ~(r.wherefrom = "SEEK_END" /\ r.count >= 0)
  <2>1. /\ fxFile' = fxFile \/ fxFile' = [fxFile EXCEPT ![i] = sought]
        /\ UNCHANGED content
      BY <1>6 DEF fseek, p
  <2>2. CASE fxFile' = [fxFile EXCEPT ![i] = sought]
    <3>1. \A m \in Names : Len(content[m]) <= Len(content'[m])
        BY <2>1 DEF FileInv, FileTypes
    <3>2. content' \in [Names -> Seq(Characters)] /\ handles \in [Callers -> SUBSET Slots]
        BY <2>1 DEF FileInv, FileTypes, StdioInv, StdioTypes
    <3>3. fxFile'[i].offset = p
        BY <1>3, <2>2 DEF FileInv, FileTypes, FileStates
    <3>4. p \in Nat /\ p <= Len(content'[f.name])
        BY <1>4, <2>1
    <3> QED
        BY <1>1, <1>3, <1>4, <2>1, <2>2, <3>1, <3>2, <3>3, <3>4, PositionMoves
  <2>3. CASE fxFile' = fxFile
    <3> QED
        BY <1>1, <1>3, <2>1, <2>3, FilesStay
  <2> QED
      BY <2>1, <2>2, <2>3
<1> QED
    BY <1>5, <1>6

LEMMA CloseFiles ==
    ASSUME StdioInv, FileInv, NEW t \in Callers, fclose(t)
    PROVE  /\ FileInv'
           /\ \A j \in Slots \ {entry[t]} : fxFile'[j] = fxFile[j]
<1> DEFINE i == entry[t]
<1>1. /\ at[t] = "in" /\ request[t].function = "fclose"
      /\ fxFile' = [fxFile EXCEPT ![i] = Closed]
      /\ handles' = [handles EXCEPT ![t] = @ \ {i}]
      /\ UNCHANGED content
    BY DEF fclose, Running
<1>2. i \in Slots /\ i \in handles[t]
    BY <1>1 DEF StdioInv, StdioTypes, Entries, OnNames
<1>3. Closed \in FileStates /\ Closed.access = "none"
    BY DEF Closed, FileStates
<1>4. /\ fxFile'[i] = Closed
      /\ \A j \in Slots \ {i} : fxFile'[j] = fxFile[j]
    BY <1>1, <1>2 DEF FileInv, FileTypes
<1>5. FileTypes'
    BY <1>1, <1>3 DEF FileInv, FileTypes
<1> HIDE DEF i
<1>6. PositionsKept' /\ OneWriter'
    BY <1>1, <1>3, <1>4 DEF FileInv, PositionsKept, OneWriter
<1>7. \A u \in Callers : i \notin handles'[u] /\ handles'[u] \subseteq handles[u]
    <2>1. \A u \in Callers \ {t} : handles'[u] = handles[u] /\ i \notin handles[u]
        BY <1>1, <1>2 DEF StdioInv, StdioTypes, SlotsOwned, Owned
    <2>2. handles'[t] = handles[t] \ {i}
        BY <1>1 DEF StdioInv, StdioTypes
    <2> QED
        BY <2>1, <2>2
<1>8. HandlesOpen'
    BY <1>4, <1>7 DEF FileInv, HandlesOpen, StdioInv, StdioTypes
<1> QED
    BY <1>4, <1>5, <1>6, <1>8 DEF FileInv, i

LEMMA RemoveFiles ==
    ASSUME FileInv, NEW t \in Callers, remove(t)
    PROVE  FileInv' /\ UNCHANGED <<fxFile, handles>>
<1> DEFINE n == request[t].name
<1>1. UNCHANGED <<fxFile, handles>>
    BY DEF remove
<1>2. CASE UNCHANGED content
    BY <1>1, <1>2, FilesStay
<1>3. CASE Openers(n) = {} /\ content' = [content EXCEPT ![n] = <<>>]
  <2>1. \A j \in Slots : fxFile[j].name # n
      BY <1>3 DEF Openers
  <2>2. content' \in [Names -> Seq(Characters)]
    <3> HIDE DEF n
    <3> <<>> \in Seq(Characters)
        OBVIOUS
    <3> QED
        BY <1>3 DEF FileInv, FileTypes
  <2>3. \A m \in Names \ {n} : content'[m] = content[m]
      BY <1>3 DEF FileInv, FileTypes
  <2> HIDE DEF n
  <2>4. PositionsKept'
      BY <1>1, <2>1, <2>3 DEF FileInv, PositionsKept
  <2> QED
      BY <1>1, <2>2, <2>4 DEF FileInv, FileTypes, OneWriter, HandlesOpen
<1> QED
    BY <1>1, <1>2, <1>3 DEF remove

\* The open for writing, of a file with the structure of entry i: a handle is
\* given out only on a file that is open, and the file that is emptied, if
\* any, is open here alone.
LEMMA WritingOpens ==
    ASSUME FileInv, NEW i \in Slots, NEW n \in Names, NEW mode \in {"w", "a"}, NEW dir,
           NEW faults, NEW succeeds \in BOOLEAN,
           OpenForWriting(i, n, mode, dir, faults, succeeds)
    PROVE  \E g \in FileStates :
              /\ fxFile' = [fxFile EXCEPT ![i] = g]
              /\ content' \in [Names -> Seq(Characters)]
              /\ g.access = "none" => g = Closed /\ ~succeeds
              /\ g.access # "none" =>
                    /\ g.name \in Names
                    /\ g.offset <= Len(content'[g.name])
                    /\ \A j \in Slots \ {i} :
                          fxFile[j].name = g.name /\ fxFile[j].access # "none"
                          => g.access = "read" /\ fxFile[j].access = "read"
              /\ \A m \in Names : \/ content'[m] = content[m]
                                  \/ \A j \in Slots \ {i} :
                                        fxFile[j].access # "none" => fxFile[j].name # m
              /\ mode = "w" /\ succeeds => g.name = n
<1> DEFINE opened == FileOpens(i, n, "write", dir) /\ "open" \notin faults
           file == IF opened THEN [name |-> n, access |-> "write", offset |-> 0]
                   ELSE fxFile[i]
           truncated == file.access = "write" /\ "truncate" \notin faults
           sought == file # Closed /\ "seek" \notin faults
           g == IF mode = "w" /\ truncated THEN [file EXCEPT !.offset = 0]
                ELSE IF mode = "a" /\ sought
                THEN [file EXCEPT !.offset = Len(content[file.name])] ELSE file
<1>1. /\ content' = IF mode = "w" /\ truncated
                    THEN [content EXCEPT ![file.name] = <<>>] ELSE content
      /\ fxFile' = [fxFile EXCEPT ![i] = g]
      /\ succeeds = IF mode = "w" THEN opened /\ truncated ELSE sought
    BY DEF OpenForWriting, SummedStatus
<1>2. \A j \in Slots : /\ fxFile[j] \in FileStates
                       /\ IF fxFile[j].access = "none" THEN fxFile[j] = Closed
                          ELSE /\ fxFile[j].name \in Names
                               /\ fxFile[j].offset <= Len(content[fxFile[j].name])
    BY DEF FileInv, FileTypes, PositionsKept
<1>3. file \in FileStates /\ (file.access = "none" => file = Closed)
    BY <1>2 DEF FileStates
<1>4. file.access # "none" =>
          /\ file.name \in Names
          /\ \A j \in Slots \ {i} :
                fxFile[j].name = file.name /\ fxFile[j].access # "none"
                => file.access = "read" /\ fxFile[j].access = "read"
  <2>1. CASE opened
      BY <2>1 DEF FileOpens, Openers
  <2>2. CASE ~opened
      BY <1>2, <2>2 DEF FileInv, OneWriter
  <2> QED
      BY <2>1, <2>2
<1>5. opened => file.name = n /\ file.access = "write"
    OBVIOUS
<1>6. Closed.access = "none"
    BY DEF Closed
<1>7. file.access # "none" => Len(content[file.name]) \in Nat
    BY <1>4 DEF FileInv, FileTypes
<1>8. ~opened /\ file.access # "none" => file.offset <= Len(content[file.name])
    BY <1>2
<1>9. opened => file.offset = 0
    OBVIOUS
<1> HIDE DEF file, opened
<1>10. /\ g \in FileStates /\ g.name = file.name /\ g.access = file.access
       /\ g.access = "none" => g = Closed
    BY <1>3, <1>6, <1>7 DEF FileStates
<1>11. <<>> \in Seq(Characters)
    OBVIOUS
<1>12. content' \in [Names -> Seq(Characters)]
    BY <1>1, <1>11 DEF FileInv, FileTypes
<1>13. file.access # "none" => g.offset <= Len(content'[file.name])
  <2>1. CASE mode = "w" /\ truncated
    <3>1. g.offset = 0
        BY <1>3, <2>1 DEF FileStates
    <3>2. file.name \in Names
        BY <1>4, <2>1
    <3>3. Len(content'[file.name]) \in Nat
        BY <1>12, <3>2
    <3> QED
        BY <3>1, <3>3
  <2>2. CASE ~(mode = "w" /\ truncated)
    <3>1. content' = content
        BY <1>1, <2>2
    <3>2. CASE mode = "a" /\ sought
      <4>1. g.offset = Len(content[file.name])
          BY <1>3, <3>2, <2>2 DEF FileStates
      <4> QED
          BY <1>7, <3>1, <4>1
    <3>3. CASE ~(mode = "a" /\ sought)
      <4>1. g = file
          BY <2>2, <3>3
      <4> HIDE DEF g
      <4> QED
          BY <1>7, <1>8, <1>9, <3>1, <4>1
    <3> QED
        BY <3>2, <3>3
  <2> QED
      BY <2>1, <2>2
<1>14. \A m \in Names : \/ content'[m] = content[m]
                        \/ \A j \in Slots \ {i} :
                              fxFile[j].access # "none" => fxFile[j].name # m
  <2>1. CASE mode = "w" /\ truncated
    <3>1. file.access = "write"
        BY <2>1
    <3>2. \A j \in Slots \ {i} : fxFile[j].access # "none" => fxFile[j].name # file.name
        BY <1>4, <3>1
    <3>3. \A m \in Names \ {file.name} : content'[m] = content[m]
        BY <1>1, <2>1 DEF FileInv, FileTypes
    <3> QED
        BY <3>2, <3>3
  <2>2. CASE ~(mode = "w" /\ truncated)
      BY <1>1, <2>2
  <2> QED
      BY <2>1, <2>2
<1>15. succeeds => g.access # "none" /\ (mode = "w" => g.name = n)
  <2>1. mode = "w" /\ succeeds => g.name = n /\ g.access = "write"
      BY <1>1, <1>5, <1>10
  <2>2. mode = "a" /\ succeeds => g.access # "none"
      BY <1>1, <1>3, <1>10
  <2> QED
      BY <2>1, <2>2
<1> HIDE DEF g
<1> QED
    BY <1>1, <1>4, <1>10, <1>12, <1>13, <1>14, <1>15

LEMMA OpenFiles ==
    ASSUME StdioInv, FileInv, NEW t \in Callers, fopen_open(t)
    PROVE  /\ FileInv'
           /\ \A j \in Slots \ {entry[t]} : fxFile'[j] = fxFile[j]
           /\ \A u \in Callers : \/ handles'[u] = handles[u]
                                 \/ u = t /\ handles'[t] = handles[t] \union {entry[t]}
           /\ "a" \notin Modes /\ entry[t] \in handles'[t]
              => fxFile'[entry[t]].name = request[t].name
<1> DEFINE i == entry[t]
           r == request[t]
<1>1. at[t] = "open" /\ i \in Slots \ handles[t] /\ r.function = "fopen"
    BY DEF fopen_open, StdioInv, Entries
<1>2. r.name \in Names /\ r.mode \in Modes
  <2>1. r \in Requests
      BY <1>1 DEF StdioInv, StdioTypes, NoRequest
  <2> QED
      BY <1>1, <2>1, RequestParts
<1>3. PICK faults \in SUBSET {"create", "open", "truncate", "seek"}, succeeds \in BOOLEAN :
          /\ IF r.name \in UnknownDrive
             THEN ~succeeds /\ UNCHANGED <<fxFile, directory, content>>
             ELSE IF r.mode = "r"
             THEN OpenForReading(i, r.name, faults, succeeds)
             ELSE /\ directory' = IF "create" \in faults THEN directory
                                  ELSE directory \union {r.name}
                  /\ OpenForWriting(i, r.name, r.mode, directory', faults, succeeds)
          /\ handles' = IF succeeds THEN [handles EXCEPT ![t] = @ \union {i}]
                        ELSE handles
    BY DEF fopen_open
<1>4. \A u \in Callers \ {t} : i \notin handles[u]
    BY <1>1 DEF StdioInv, SlotsOwned, Owned
<1>5. /\ \A u \in Callers \ {t} : handles'[u] = handles[u]
      /\ handles'[t] = IF succeeds THEN handles[t] \union {i} ELSE handles[t]
    BY <1>3 DEF StdioInv, StdioTypes
<1> HIDE DEF i, r
<1>6. CASE UNCHANGED <<fxFile, content>> /\ ~succeeds
    BY <1>1, <1>3, <1>5, <1>6, FilesStay DEF i, r
<1>7. ASSUME NEW g \in FileStates,
             fxFile' = [fxFile EXCEPT ![i] = g],
             content' \in [Names -> Seq(Characters)],
             g.access = "none" => g = Closed /\ ~succeeds,
             g.access # "none" =>
                 /\ g.name \in Names
                 /\ g.offset <= Len(content'[g.name])
                 /\ \A j \in Slots \ {i} :
                       fxFile[j].name = g.name /\ fxFile[j].access # "none"
                       => g.access = "read" /\ fxFile[j].access = "read",
             \A m \in Names : \/ content'[m] = content[m]
                              \/ \A j \in Slots \ {i} :
                                    fxFile[j].access # "none" => fxFile[j].name # m,
             "a" \notin Modes /\ succeeds => g.name = r.name
      PROVE  /\ FileInv'
             /\ \A j \in Slots \ {i} : fxFile'[j] = fxFile[j]
             /\ "a" \notin Modes /\ i \in handles'[t] => fxFile'[i].name = r.name
  <2>1. fxFile'[i] = g /\ \A j \in Slots \ {i} : fxFile'[j] = fxFile[j]
      BY <1>1, <1>7 DEF FileInv, FileTypes, i
  <2>2. FileTypes'
      BY <1>7 DEF FileInv, FileTypes
  <2>3. PositionsKept'
    <3> SUFFICES ASSUME NEW j \in Slots
                 PROVE  IF fxFile'[j].access = "none" THEN fxFile'[j] = Closed
                        ELSE /\ fxFile'[j].name \in Names
                             /\ fxFile'[j].offset <= Len(content'[fxFile'[j].name])
        BY DEF PositionsKept, Closed
    <3>1. CASE j = i
        BY <1>7, <2>1, <3>1
    <3>2. CASE j # i
        BY <1>7, <2>1, <3>2 DEF FileInv, PositionsKept
    <3> QED
        BY <3>1, <3>2
  <2>4. OneWriter'
      BY <1>7, <2>1 DEF FileInv, OneWriter
  <2>5. HandlesOpen'
    <3>1. succeeds => fxFile'[i].access # "none"
        BY <1>7, <2>1
    <3> QED
        BY <1>1, <1>4, <1>5, <2>1, <3>1 DEF FileInv, HandlesOpen, StdioInv, StdioTypes, i
  <2>6. "a" \notin Modes /\ i \in handles'[t] => fxFile'[i].name = r.name
      BY <1>1, <1>5, <1>7, <2>1 DEF i
  <2> QED
      BY <2>1, <2>2, <2>3, <2>4, <2>5, <2>6 DEF FileInv
<1>8. \A u \in Callers : \/ handles'[u] = handles[u]
                         \/ u = t /\ handles'[t] = handles[t] \union {i}
    BY <1>5
<1>9. CASE r.name \notin UnknownDrive /\ r.mode = "r"
  <2>1. OpenForReading(i, r.name, faults, succeeds)
      BY <1>3, <1>9
  <2>2. CASE succeeds
    <3> DEFINE g == [name |-> r.name, access |-> "read", offset |-> 0]
    <3>1. /\ FileOpens(i, r.name, "read", directory)
          /\ fxFile' = [fxFile EXCEPT ![i] = g] /\ content' = content
        BY <2>1, <2>2 DEF OpenForReading
    <3>2. g \in FileStates /\ g.access = "read" /\ g.offset = 0 /\ g.name = r.name
        BY <1>2 DEF FileStates
    <3>3. 0 <= Len(content'[r.name]) /\ content' \in [Names -> Seq(Characters)]
        BY <1>2, <3>1 DEF FileInv, FileTypes
    <3>4. \A j \in Slots \ {i} : fxFile[j].name = r.name => fxFile[j].access = "read"
        BY <3>1 DEF FileOpens, Openers
    <3> HIDE DEF g
    <3> QED
        BY <1>2, <1>7, <1>8, <3>1, <3>2, <3>3, <3>4 DEF i, r
  <2>3. CASE ~succeeds
      BY <1>6, <2>1, <2>3 DEF OpenForReading
  <2> QED
      BY <2>2, <2>3
<1>10. CASE r.name \notin UnknownDrive /\ r.mode # "r"
  <2>1. OpenForWriting(i, r.name, r.mode, directory', faults, succeeds)
      BY <1>3, <1>10
  <2>2. r.mode \in {"w", "a"} /\ ("a" \notin Modes => r.mode = "w") /\ i \in Slots
      BY <1>1, <1>2, <1>10, StdioAssumption DEF i
  <2> HIDE DEF FileInv
  <2> QED
      BY <1>2, <1>7, <1>8, <2>1, <2>2, WritingOpens DEF i, r
<1> QED
    BY <1>3, <1>6, <1>9, <1>10

\* HandleNamed, of one step.
NamedStep ==
    \A t \in Callers : \A i \in handles'[t] :
        fxFile'[i].name = IF i \in handles[t] THEN fxFile[i].name ELSE request[t].name

LEMMA NamesStay ==
    ASSUME StdioInv, UNCHANGED handles, \A j \in Slots : fxFile'[j].name = fxFile[j].name
    PROVE  NamedStep
BY DEF NamedStep, StdioInv, StdioTypes

LinesKept == DOMAIN line = Callers

LEMMA LinesStay ==
    ASSUME LinesKept, [StdioNext]_stdioVars
    PROVE  LinesKept'
<1>1. ASSUME NEW t \in Callers, fgets(t) PROVE DOMAIN line' = DOMAIN line
    BY <1>1 DEF fgets
<1>2. ASSUME NEW t \in Callers, GiveBack(t) PROVE DOMAIN line' = DOMAIN line
    BY <1>2 DEF GiveBack
<1>3. ASSUME NEW t \in Callers, StdioStep(t), ~fgets(t), ~GiveBack(t)
      PROVE  UNCHANGED line
    BY <1>3 DEF StdioStep, fopen_search, NoEntry, fopen_claim, fopen_open, fclose, fread,
       fwrite, fseek, remove, stat
<1>4. ASSUME NEW t \in Callers, NEW r \in Callable[t], Call(t, r) PROVE UNCHANGED line
    BY <1>4 DEF Call
<1> QED
    BY <1>1, <1>2, <1>3, <1>4 DEF LinesKept, StdioNext, stdioVars

\* What every step does to the files and the handles.
LEMMA FileSteps ==
    ASSUME StdioInv, FileInv, LinesKept, [StdioNext]_stdioVars
    PROVE  FileInv' /\ ("a" \notin Modes => NamedStep)
<1>1. CASE UNCHANGED <<fxFile, content, handles>>
    BY <1>1, FilesStay, NamesStay
<1>2. ASSUME NEW t \in Callers, StdioStep(t)
      PROVE  FileInv' /\ ("a" \notin Modes => NamedStep)
  <2>1. CASE fopen_search(t)
      BY <1>1, <2>1 DEF fopen_search, NoEntry, fileVars
  <2>2. CASE fopen_claim(t)
      BY <1>1, <2>2 DEF fopen_claim
  <2>3. CASE fopen_open(t)
    <3>1. at[t] = "open"
        BY <2>3 DEF fopen_open
    <3>2. \A u \in Callers : entry[t] \notin handles[u]
        BY <3>1 DEF StdioInv, Entries, SlotsOwned, Owned
    <3>3. /\ \A j \in Slots \ {entry[t]} : fxFile'[j] = fxFile[j]
          /\ \A u \in Callers : \/ handles'[u] = handles[u]
                                \/ u = t /\ handles'[t] = handles[t] \union {entry[t]}
          /\ "a" \notin Modes /\ entry[t] \in handles'[t]
             => fxFile'[entry[t]].name = request[t].name
        BY <2>3, OpenFiles
    <3>4. \A u \in Callers : handles[u] \subseteq Slots
        BY DEF StdioInv, StdioTypes
    <3>5. "a" \notin Modes => NamedStep
        BY <3>2, <3>3, <3>4 DEF NamedStep
    <3> QED
        BY <2>3, <3>5, OpenFiles
  <2>4. CASE fclose(t)
    <3>1. /\ at[t] = "in" /\ request[t].function = "fclose"
          /\ handles' = [handles EXCEPT ![t] = @ \ {entry[t]}]
        BY <2>4 DEF fclose, Running
    <3>2. entry[t] \in handles[t]
        BY <3>1 DEF StdioInv, Entries, OnNames
    <3>3. \A u \in Callers : handles'[u] \subseteq handles[u] \ {entry[t]}
        BY <3>1, <3>2 DEF StdioInv, StdioTypes, SlotsOwned, Owned
    <3>4. NamedStep
        BY <2>4, <3>3, CloseFiles DEF NamedStep, StdioInv, StdioTypes
    <3> QED
        BY <2>4, <3>4, CloseFiles
  <2>5. CASE fread(t)
      BY <2>5, ReadFiles, NamesStay DEF fread
  <2>6. CASE fgets(t)
      BY <2>6, GetsFiles, NamesStay DEF fgets, LinesKept
  <2>7. CASE fwrite(t)
      BY <2>7, WriteFiles, NamesStay DEF fwrite
  <2>8. CASE fseek(t)
      BY <2>8, SeekFiles, NamesStay DEF fseek
  <2>9. CASE remove(t)
      BY <2>9, RemoveFiles, NamesStay
  <2>10. CASE stat(t)
      BY <1>1, <2>10 DEF stat, fileVars
  <2>11. CASE GiveBack(t)
      BY <1>1, <2>11 DEF GiveBack, fileVars
  <2> QED
      BY <1>2, <2>1, <2>2, <2>3, <2>4, <2>5, <2>6, <2>7, <2>8, <2>9, <2>10, <2>11
      DEF StdioStep
<1>3. ASSUME NEW t \in Callers, NEW r \in Callable[t], Call(t, r)
      PROVE  UNCHANGED <<fxFile, content, handles>>
    BY <1>3 DEF Call, fileVars
<1>4. CASE UNCHANGED stdioVars
    BY <1>1, <1>4 DEF stdioVars
<1> QED
    BY <1>1, <1>2, <1>3, <1>4 DEF StdioNext

TableInv == StdioInv /\ FileInv /\ LinesKept

LEMMA TableInvInit == StdioInit => TableInv
BY StdioInvInit, FileInvInit DEF TableInv, LinesKept, StdioInit

LEMMA TableInvStep == TableInv /\ [StdioNext]_stdioVars => TableInv'
BY StdioInvStep, FileSteps, LinesStay DEF TableInv

\* However the calls of the threads meet and whatever fails in FileX, also
\* when a truncation fails after its open and leaves the file open behind a
\* free entry: a handle is on the file that fopen was asked for until it is
\* closed.  The program opens for reading and for writing only: of a file
\* opened for appending this is not so.
THEOREM HandlesNamed == ASSUME "a" \notin Modes PROVE StdioSpec => HandleNamed
<1>1. TableInv /\ [StdioNext]_stdioVars => [NamedStep]_stdioVars
    BY FileSteps DEF TableInv
<1> QED
    BY <1>1, TableInvInit, TableInvStep, PTL DEF StdioSpec, HandleNamed, NamedStep

\* Only the thread that is inside moves on.
LEMMA OwnStep ==
    ASSUME StdioInv, [StdioNext]_stdioVars, NEW t \in Callers, at[t] = "in", at'[t] # "in"
    PROVE  StdioStep(t)
<1>1. at \in [Callers -> Positions]
    BY DEF StdioInv, StdioTypes
<1>2. ASSUME NEW u \in Callers, NEW r \in Callable[u], Call(u, r) PROVE at'[t] = "in"
  <2>1. at[u] = "idle" /\ u # t
      BY <1>2 DEF Call
  <2>2. at'[t] = at[t]
      BY <1>1, <1>2, <2>1 DEF Call, GetSemaphore
  <2> QED
      BY <2>2
<1>3. ASSUME NEW u \in Callers, StdioStep(u) PROVE u = t
  <2>1. Inside(u)
      BY <1>3
      DEF StdioStep, fopen_search, fopen_claim, fopen_open, fclose, fread, fgets, fwrite,
          fseek, remove, stat, GiveBack, Running, Inside
  <2> QED
      BY <2>1 DEF StdioInv, Exclusion, Inside
<1>4. ~UNCHANGED stdioVars
    BY DEF stdioVars
<1> QED
    BY <1>2, <1>3, <1>4 DEF StdioNext

\* Whatever the offset and the position are, a seek stays within the file,
\* and one that goes back does not go forward.
THEOREM SeeksBounded == StdioSpec => SeekBounded
<1> DEFINE Bounded ==
        \A t \in Callers : Running(t, "fseek") /\ at'[t] = "put" =>
          LET i == entry[t]  r == request[t] IN
          /\ fxFile'[i].offset \in 0..Len(content'[fxFile[i].name])
          /\ r.wherefrom = "SEEK_CUR" /\ r.count < 0
             => fxFile'[i].offset <= fxFile[i].offset
<1>1. ASSUME TableInv, [StdioNext]_stdioVars PROVE Bounded
  <2> SUFFICES ASSUME NEW t \in Callers, Running(t, "fseek"), at'[t] = "put"
               PROVE  /\ fxFile'[entry[t]].offset \in 0..Len(content'[fxFile[entry[t]].name])
                      /\ request[t].wherefrom = "SEEK_CUR" /\ request[t].count < 0
                         => fxFile'[entry[t]].offset <= fxFile[entry[t]].offset
      OBVIOUS
  <2>1. at[t] = "in" /\ request[t].function = "fseek"
      BY DEF Running
  <2>2. StdioStep(t)
      BY <1>1, <2>1, OwnStep DEF TableInv
  <2>3. fseek(t)
      BY <2>1, <2>2 DEF StdioStep, fopen_search, fopen_claim, fopen_open, fclose, fread,
         fgets, fwrite, remove, stat, GiveBack, Running
  <2> QED
      BY <1>1, <2>3, SeekFiles DEF TableInv
<1>2. TableInv /\ [StdioNext]_stdioVars => [Bounded]_stdioVars
    BY <1>1
<1> QED
    BY <1>2, TableInvInit, TableInvStep, PTL DEF StdioSpec, SeekBounded

\* FgetsReads, of one call.
LineRead(t) ==
    LET f == fxFile[entry[t]]  l == line'[t]  max == request[t].count IN
    /\ Len(l.buffer) < max
    /\ l.buffer = SubSeq(content[f.name], f.offset + 1, fxFile'[entry[t]].offset)
    /\ l.null \/ l.faulty \/ Len(l.buffer) = max - 1
       \/ l.buffer[Len(l.buffer)] = Newline
    /\ l.null => \/ l.buffer = <<>>
                 \/ fxFile'[entry[t]].offset = Len(content[f.name])

LoopLine(s, offset, max, faults, end) ==
    /\ Len(end.got) < max
    /\ end.got = SubSeq(s, offset + 1, end.offset)
    /\ \/ end.got = <<>> \/ end.eof = TRUE
       \/ faults # {} \/ Len(end.got) = max - 1
       \/ end.got[Len(end.got)] = Newline
    /\ end.got = <<>> \/ end.eof = TRUE => end.got = <<>> \/ end.offset = Len(s)

LEMMA LoopLines ==
    ASSUME NEW s \in Seq(Characters), NEW offset \in 0..Len(s), NEW max \in Nat \ {0},
           NEW faults, NEW end, ReadSoFar(s, offset, faults, max - 1, end)
    PROVE  LoopLine(s, offset, max, faults, end)
<1>1. end.got \in Seq(Characters) /\ Len(end.got) \in Nat /\ end.offset \in Nat
    BY DEF ReadSoFar, Progress
<1>2. Len(end.got) < max
    BY <1>1 DEF ReadSoFar
<1>3. end.got = SubSeq(s, offset + 1, end.offset)
  <2>1. /\ offset \in Nat /\ end.offset <= Len(s) /\ offset <= end.offset
        /\ Len(end.got) = end.offset - offset
      BY <1>1 DEF ReadSoFar
  <2>2. /\ SubSeq(s, offset + 1, end.offset) \in Seq(Characters)
        /\ Len(SubSeq(s, offset + 1, end.offset)) = end.offset - offset
        /\ \A i \in 1..(end.offset - offset) :
              SubSeq(s, offset + 1, end.offset)[i] = s[offset + i]
      BY <1>1, <2>1
  <2>3. \A i \in 1..Len(end.got) : end.got[i] = SubSeq(s, offset + 1, end.offset)[i]
      BY <2>1, <2>2 DEF ReadSoFar, Follows
  <2> QED
      BY <1>1, <2>1, <2>2, <2>3, SeqEqual
<1>4. EndMet(end) => end.offset = Len(s)
    BY DEF ReadSoFar
<1>5. EndMet(end) <=> end.eof = TRUE
    BY DEF EndMet
<1>6. \/ EndMet(end) \/ faults # {} \/ Len(end.got) = max - 1
      \/ end.got[Len(end.got)] = Newline
    BY DEF ReadSoFar
<1> QED
    BY <1>2, <1>3, <1>4, <1>5, <1>6 DEF LoopLine

\* Whatever is read from wherever into a buffer of whatever size, and
\* whichever of the reads fail: the buffer has room, it holds what follows in
\* the file, a line ends where it should, and NULL means what it should.
THEOREM LinesRead == StdioSpec => FgetsReads
<1> DEFINE Read == \A t \in Callers : Running(t, "fgets") /\ at'[t] = "put" => LineRead(t)
<1>1. ASSUME TableInv, [StdioNext]_stdioVars PROVE Read
  <2> SUFFICES ASSUME NEW t \in Callers, Running(t, "fgets"), at'[t] = "put"
               PROVE  LineRead(t)
      OBVIOUS
  <2> DEFINE i == entry[t]
             f == fxFile[i]
             s == content[f.name]
             max == request[t].count
  <2>1. at[t] = "in" /\ request[t].function = "fgets"
      BY DEF Running
  <2>2. StdioStep(t)
      BY <1>1, <2>1, OwnStep DEF TableInv
  <2>3. fgets(t)
      BY <2>1, <2>2 DEF StdioStep, fopen_search, fopen_claim, fopen_open, fclose, fread,
         fwrite, fseek, remove, stat, GiveBack, Running
  <2>4. f.offset \in 0..Len(s) /\ s \in Seq(Characters) /\ request[t] \in Requests
      BY <1>1, <2>1, HandleFile DEF TableInv, OnNames
  <2>5. max \in Nat \ {0}
      BY <2>1, <2>4, RequestParts
  <2>6. PICK faults, c0 :
           LET end == Loop(s, f.offset, max, faults, c0) IN
           /\ ReadSoFar(s, f.offset, faults, max - 1, end)
           /\ line'[t] = [buffer |-> end.got, null |-> end.got = <<>> \/ end.eof,
                          faulty |-> faults # {}]
           /\ fxFile'[i].offset = end.offset
      BY <1>1, <2>3, GetsFiles DEF TableInv, LinesKept
  <2> DEFINE end == Loop(s, f.offset, max, faults, c0)
             l == line'[t]
  <2>7. l = [buffer |-> end.got, null |-> end.got = <<>> \/ end.eof, faulty |-> faults # {}]
      BY <2>6
  <2>8. ReadSoFar(s, f.offset, faults, max - 1, end) /\ fxFile'[i].offset = end.offset
      BY <2>6
  <2> HIDE DEF end, l, s, f, max, i
  <2>9. LoopLine(s, f.offset, max, faults, end)
      BY <2>4, <2>5, <2>8, LoopLines DEF s, f, max, i
  <2>10. end.eof \in BOOLEAN
      BY <2>8 DEF ReadSoFar, Progress
  <2>11. Len(l.buffer) < max /\ l.buffer = SubSeq(s, f.offset + 1, fxFile'[i].offset)
      BY <2>7, <2>8, <2>9, <2>10 DEF LoopLine
  <2>12. \/ l.null \/ l.faulty \/ Len(l.buffer) = max - 1
         \/ l.buffer[Len(l.buffer)] = Newline
      BY <2>7, <2>9, <2>10 DEF LoopLine
  <2>13. l.null => l.buffer = <<>> \/ fxFile'[i].offset = Len(s)
      BY <2>7, <2>8, <2>9, <2>10 DEF LoopLine
  <2> QED
      BY <2>11, <2>12, <2>13 DEF LineRead, l, s, f, max, i
<1>2. TableInv /\ [StdioNext]_stdioVars => [Read]_stdioVars
    BY <1>1
<1> QED
    BY <1>2, TableInvInit, TableInvStep, PTL DEF StdioSpec, FgetsReads, LineRead
=============================================================================
