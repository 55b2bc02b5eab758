------------------------------ MODULE MCMedia ------------------------------
(***************************************************************************)
(* The media and those who use it, side by side: the driver with its cache *)
(* of one erase unit, the table of open files over FileX, and the firmware *)
(* update.  A behaviour is one of the part that subject names, while the   *)
(* others stand still.                                                     *)
(*                                                                         *)
(* QspiCache: two erase units of two sectors, so that every write to the   *)
(* unit that is not cached has a unit to write back; two threads, one for  *)
(* FileX with system_thread's flushes and one for the USB host.            *)
(***************************************************************************)
EXTENDS QspiCache, FirmwareUpdate, FxStdio

VARIABLE subject

\* FxStdio: seeks of one character; a file of one line; net_thread makes every
\* call, a second thread opens and closes files meanwhile
Files == {"update.txt", "wifi.txt", "network.log", "B:log"}
BackAndForth == {-1, 1}
OneLine == [n \in Files |-> IF n = "wifi.txt" THEN <<Other, Newline>> ELSE <<>>]
OnHandles == {r \in Requests : r.function \notin {"fopen", "remove", "stat"}}
TheirCalls ==
    [t \in {"net_thread", "system_thread"} |->
        IF t = "net_thread"
        THEN OnHandles \union {Opens("wifi.txt", "r"), Opens("update.txt", "w"),
                               OnName("remove", "update.txt"),
                               OnName("stat", "update.txt")}
        ELSE {r \in OnHandles : r.function = "fclose"}
             \union {Opens("update.txt", "r"), Opens("network.log", "w"),
                     Opens("B:log", "r")}]

-----------------------------------------------------------------------------
mediaVars == <<subject, vars, updateVars, stdioVars>>

\* what stands still starts in one state
MediaInit ==
    /\ subject \in {"driver", "update", "stdio"}
    /\ Init /\ (subject # "driver" => \A b \in DOMAIN flash : flash[b] = CHOOSE v \in Values : TRUE)
    /\ UpdateInit /\ (subject # "update" => /\ g_update = CHOOSE v \in Releases : TRUE
                                            /\ cached.update = "absent")
    /\ StdioInit

Only(s) ==
    /\ subject = s
    /\ UNCHANGED subject
    /\ IF s = "driver" THEN TRUE ELSE UNCHANGED vars
    /\ IF s = "update" THEN TRUE ELSE UNCHANGED updateVars
    /\ IF s = "stdio" THEN TRUE ELSE UNCHANGED stdioVars

MediaNext ==
    \/ Only("driver") /\ SerialNext
    \/ Only("update") /\ UpdateNext
    \/ Only("stdio") /\ StdioNext

MediaSpec ==
    /\ MediaInit /\ [][MediaNext]_mediaVars
    /\ WF_vars(subject = "driver" /\ NoCall /\ BeginFlush)
    /\ \A t \in Threads : WF_vars(subject = "driver" /\ Continue(t))
    /\ WF_updateVars(subject = "update" /\ NetStep)
    /\ WF_updateVars(subject = "update" /\ SystemStep)
    /\ \A t \in Callers : WF_stdioVars(subject = "stdio" /\ StdioStep(t))
=============================================================================
