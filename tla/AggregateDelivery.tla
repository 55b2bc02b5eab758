------------------------- MODULE AggregateDelivery -------------------------
(***************************************************************************)
(* What the collection protocol promises: every sample a sensor takes is   *)
(* in exactly one published aggregate, and every published event holds one *)
(* whole aggregate of each sensor, closed for that event.  The promise ends*)
(* when an event is forced before all have closed their aggregates, and    *)
(* holds again after a restart.                                            *)
(***************************************************************************)
EXTENDS Naturals

CONSTANT Sensors

VARIABLES
    taken,      \* the number of samples each sensor has taken
    open,       \* the samples of the aggregate it is building
    closed,     \* the sensors that have answered for the next event
    batch,      \* the samples of their answers
    delivered,  \* the samples published
    forced      \* an event has been forced

vars == <<taken, open, closed, batch, delivered, forced>>

Init ==
    /\ taken = [s \in Sensors |-> 0]
    /\ open = [s \in Sensors |-> {}]
    /\ closed = {}
    /\ batch = [s \in Sensors |-> {}]
    /\ delivered = [s \in Sensors |-> {}]
    /\ forced = FALSE

Take(s) ==
    /\ taken' = [taken EXCEPT ![s] = @ + 1]
    /\ open' = [open EXCEPT ![s] = @ \cup {taken[s] + 1}]
    /\ UNCHANGED <<closed, batch, delivered>>

Close(s) ==
    /\ s \notin closed
    /\ closed' = closed \cup {s}
    /\ batch' = [batch EXCEPT ![s] = open[s]]
    /\ open' = [open EXCEPT ![s] = {}]
    /\ UNCHANGED <<taken, delivered>>

Publish ==
    /\ closed = Sensors
    /\ delivered' = [s \in Sensors |-> delivered[s] \cup batch[s]]
    /\ closed' = {}
    /\ batch' = [s \in Sensors |-> {}]
    /\ UNCHANGED <<taken, open>>

\* a reset of the board loses what was not published and starts over
Restart ==
    /\ taken' = [s \in Sensors |-> 0]
    /\ open' = [s \in Sensors |-> {}]
    /\ closed' = {}
    /\ batch' = [s \in Sensors |-> {}]
    /\ delivered' = [s \in Sensors |-> {}]
    /\ forced' = FALSE

\* nothing is promised of the rest of the state
Force == (forced \/ closed # Sensors) /\ forced'

Next == \/ /\ ~forced /\ ~forced'
           /\ \/ \E s \in Sensors : Take(s) \/ Close(s)
              \/ Publish
        \/ Restart
        \/ Force

Spec == Init /\ [][Next]_vars
=============================================================================
