----------------------- MODULE FirmwareUpdate_proofs -----------------------
(***************************************************************************)
(* Proofs about FirmwareUpdate, for all releases and every number of       *)
(* commands, faults and power cuts: what the reset finds in the flash.     *)
(***************************************************************************)
EXTENDS FirmwareUpdate, TLAPS

Places == {"loop", "sleep", "suspend", "download", "verify", "remove", "fopen",
           "fwrite", "fclose", "failed", "resume", "let_flush", "settle", "reset"}
FileSets == [images : SUBSET Releases, update : Releases \union {"absent", "empty"},
             loaded : BOOLEAN]

\* The variables that the argument is about, and their values.
UpdateTypes ==
    /\ g_update \in Releases /\ fetched \in Releases
    /\ netAt \in Places
    /\ systemAt \in {"waits", "flushes"}
    /\ system_suspended \in BOOLEAN /\ flushFailed \in BOOLEAN
    /\ cached \in FileSets /\ stored \in FileSets
    /\ mediaFaults \in Nat

\* From the suspension to the reset nobody but net_thread touches the media.
Attempt == {"download", "verify", "remove", "fopen", "fwrite", "fclose", "settle", "reset"}
SystemStands == netAt \in Attempt => system_suspended

\* The image is there from its download on, and update.txt names it when
\* fclose is called.
ImageSaved ==
    netAt \in {"verify", "remove", "fopen", "fwrite", "fclose"}
    => fetched \in cached.images
NameWritten == netAt = "fclose" => cached.update = fetched

UpdateInv == UpdateTypes /\ SystemStands /\ ImageSaved /\ NameWritten /\ ResetFindsUpdate

LEMMA UpdateInvInit == UpdateInit => UpdateInv
<1> SUFFICES ASSUME UpdateInit PROVE UpdateInv
    OBVIOUS
<1>1. cached \in FileSets /\ stored \in FileSets
    <2>1. PICK update \in {"absent", g_update} :
              cached = [images |-> {update} \ {"absent"}, update |-> update, loaded |-> TRUE]
        BY DEF UpdateInit
    <2>2. {update} \ {"absent"} \in SUBSET Releases
        BY <2>1 DEF UpdateInit
    <2> QED
        BY <2>1, <2>2 DEF UpdateInit, FileSets
<1> QED
    BY <1>1 DEF UpdateInit, UpdateInv, UpdateTypes, SystemStands, ImageSaved,
       NameWritten, ResetFindsUpdate, Places, Attempt

\* A command moves net_thread out of a sleep or out of its wait for the mutex.
LEMMA WaitAbortedPlaces ==
    ASSUME netAt \in Places
    PROVE  /\ WaitAborted \in Places
           /\ WaitAborted \in {"reset", "sleep", "loop", "failed"} \/ WaitAborted = netAt
           /\ WaitAborted = "reset" => netAt \in {"settle", "reset"}
           /\ WaitAborted # netAt => WaitAborted \notin Attempt \/ netAt = "settle"
BY DEF WaitAborted, Sleeping, AfterSleep, Places, Attempt

\* What a restart finds is what the flash has.
LEMMA RestartedInv ==
    ASSUME UpdateInv, NEW f \in FileSets, Restarted(f) PROVE UpdateInv'
BY DEF UpdateInv, UpdateTypes, SystemStands, ImageSaved, NameWritten,
       ResetFindsUpdate, Restarted, Places, Attempt

\* A flush leaves the files or takes those it is given.
LEMMA FlushTypes ==
    ASSUME NEW f \in FileSets, stored \in FileSets, mediaFaults \in Nat, Flush(f)
    PROVE  /\ stored' \in {f, stored} /\ mediaFaults' \in Nat
           /\ mediaFaults' = mediaFaults => stored' = f
BY DEF Flush, Works, Fails

LEMMA UpdateInvStep == UpdateInv /\ [UpdateNext]_updateVars => UpdateInv'
<1> SUFFICES ASSUME UpdateInv, [UpdateNext]_updateVars PROVE UpdateInv'
    OBVIOUS
<1> USE DEF UpdateInv, UpdateTypes, SystemStands, ImageSaved, NameWritten,
            ResetFindsUpdate, others, netState
<1>1. ASSUME NEW release \in Releases, NEW other \in BOOLEAN, NEW type \in {1, 2},
             command_U(release, other, type)
      PROVE  UpdateInv'
    BY <1>1, WaitAbortedPlaces DEF command_U, Attempt
<1>2. CASE command_S
    BY <1>2, WaitAbortedPlaces DEF command_S, Attempt
<1>3. CASE check_flag
    BY <1>3 DEF check_flag, Places, Attempt
<1>4. CASE wake_up
    BY <1>4 DEF wake_up, Sleeping, AfterSleep, Places, Attempt
<1>5. CASE suspend
    BY <1>5 DEF suspend, Places, Attempt
<1>6. CASE download
    <2>1. cached' \in FileSets /\ g_update \in cached'.images
        BY <1>6 DEF download, FileSets
    <2> QED
        BY <1>6, <2>1 DEF download, Places, Attempt
<1>7. CASE verify
    BY <1>7 DEF verify, Places, Attempt
<1>8. CASE remove_files
    <2>1. cached' \in FileSets /\ cached'.images = cached.images
        BY <1>8 DEF remove_files, FileSets
    <2> QED
        BY <1>8, <2>1 DEF remove_files, Places, Attempt
<1>9. CASE fopen_update
    <2>1. /\ Created \in FileSets /\ Created.images = cached.images
          /\ [cached EXCEPT !.update = "empty"] \in FileSets
          /\ [cached EXCEPT !.update = "empty"].images = cached.images
        BY DEF Created, FileSets
    <2>2. cached' \in FileSets /\ cached'.images = cached.images
        BY <1>9, <2>1 DEF fopen_update, fopen_succeeds, fopen_fails, fopen_open_file
    <2>3. stored' \in FileSets /\ mediaFaults' \in Nat
        BY <1>9, <2>1, <2>2, FlushTypes
        DEF fopen_update, fopen_succeeds, fopen_fails, fopen_open_file, Works, Fails
    <2>4. netAt' \in {"fwrite", "failed"}
        BY <1>9 DEF fopen_update, fopen_succeeds, fopen_fails, fopen_open_file
    <2> QED
        BY <1>9, <2>2, <2>3, <2>4 DEF fopen_update, Places, Attempt
<1>10. CASE fwrite_update
    <2>1. cached' \in FileSets /\ cached'.images = cached.images
        BY <1>10 DEF fwrite_update, FileSets
    <2>2. netAt' = "fclose" => cached'.update = fetched
        BY <1>10 DEF fwrite_update, FileSets
    <2>3. mediaFaults' \in Nat
        BY <1>10 DEF fwrite_update, Works, Fails
    <2> QED
        BY <1>10, <2>1, <2>2, <2>3 DEF fwrite_update, Places, Attempt
<1>11. CASE fclose_update
    <2>1. Flush(cached)
        BY <1>11 DEF fclose_update, FcloseFlush
    <2>2. stored' \in FileSets /\ mediaFaults' \in Nat
        BY <2>1, FlushTypes
    <2>3. ~flushFailed' => stored' = cached
        BY <1>11, <2>1, FlushTypes DEF fclose_update
    <2> QED
        BY <1>11, <2>2, <2>3 DEF fclose_update, Places, Attempt
<1>12. CASE failed
    BY <1>12 DEF failed, Places, Attempt
<1>13. CASE resume
    BY <1>13 DEF resume, Places, Attempt
<1>14. CASE reset
    <2>1. PICK loaded \in {stored.loaded, TRUE} :
              Restarted([stored EXCEPT !.loaded = loaded])
        BY <1>14 DEF reset
    <2>2. [stored EXCEPT !.loaded = loaded] \in FileSets
        BY DEF FileSets
    <2> QED
        BY <2>1, <2>2, RestartedInv
<1>15. CASE system_flush
    BY <1>15 DEF system_flush
<1>16. CASE system_flushed
    <2>1. ~system_suspended /\ Flush(cached)
        BY <1>16 DEF system_flushed
    <2>2. stored' \in FileSets /\ mediaFaults' \in Nat
        BY <2>1, FlushTypes
    <2> QED
        BY <1>16, <2>1, <2>2 DEF system_flushed, Attempt
<1>17. CASE power_fails
    BY <1>17, RestartedInv DEF power_fails
<1>18. CASE UNCHANGED updateVars
    BY <1>18 DEF updateVars
<1> QED
    BY <1>1, <1>2, <1>3, <1>4, <1>5, <1>6, <1>7, <1>8, <1>9, <1>10, <1>11, <1>12,
       <1>13, <1>14, <1>15, <1>16, <1>17, <1>18
    DEF UpdateNext, NetStep, SystemStep

\* However the commands, the faults and the flushes of system_thread meet: the
\* reset of net_thread finds the image and its name in the flash, although
\* nobody flushes the media while net_thread sleeps, unless the flush of
\* fclose failed.
THEOREM UpdateDurable == UpdateSpec => []ResetFindsUpdate
<1>1. UpdateInv => ResetFindsUpdate
    BY DEF UpdateInv
<1> QED
    BY UpdateInvInit, UpdateInvStep, <1>1, PTL DEF UpdateSpec
=============================================================================
