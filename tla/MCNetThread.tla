---------------------------- MODULE MCNetThread ----------------------------
(***************************************************************************)
(* net_thread's start with the credentials of the board and its loop, in   *)
(* which it collects the aggregates of the sensor threads.  A behaviour is *)
(* one of the part that starting names, while the other stands still.      *)
(***************************************************************************)
EXTENDS MCSensorCollect, Provision

VARIABLE starting

boardVars == <<starting, vars, provVars>>

\* what stands still starts in one state
BoardInit ==
    /\ starting \in BOOLEAN
    /\ Init
    /\ ProvInit /\ (~starting => files = NoConfig)

BoardNext ==
    \/ ~starting /\ Next /\ UNCHANGED <<starting, provVars>>
    \/ starting /\ ProvNext /\ UNCHANGED <<starting, vars>>

BoardSpec == BoardInit /\ [][BoardNext]_boardVars
=============================================================================
