--------------------------- MODULE FirmwareUpdate ---------------------------
(***************************************************************************)
(* The firmware update by net_thread: a U command sets a flag; net_thread  *)
(* suspends system_thread, lets the agent library download the image,      *)
(* names it in update.txt for the boot loader and resets the board.        *)
(* system_thread, of lower priority, flushes the media whenever it runs.   *)
(* Both reach the media through FileX, whose mutex a thread holds for the  *)
(* time of a call: net_thread's calls are single steps, as nothing that    *)
(* uses FileX can preempt it, and system_thread's flush is two.  The agent *)
(* library, FileX and the boot loader are external; any operation on the   *)
(* media may fail, and power may be cut.                                   *)
(***************************************************************************)
EXTENDS Naturals

CONSTANTS
    Releases,       \* what a U command may name: a URL with its hash
    MaxUpdateCommands, \* bound: U and S commands
    MaxFaults,      \* bound: operations on the media that fail
    MaxPowerCuts    \* bound: power cuts

ASSUME UpdateAssumption ==
    /\ {"absent", "empty"} \intersect Releases = {}
    /\ MaxUpdateCommands \in Nat
    /\ MaxFaults \in Nat
    /\ MaxPowerCuts \in Nat

VARIABLES
    g_update_firmware,
    g_update,        \* g_update_url and g_update_hash: of which release
    netAt,           \* where net_thread is
    systemAt,        \* where system_thread is: "waits" or "flushes"
    system_suspended,
    mutex,           \* who holds the mutex of the media
    fetched,         \* the release whose URL update_firmware follows
    cached,          \* the files, as FileX has them
    stored,          \* the files, as the flash has them
    leftOpen,        \* update.txt is open, and nobody has its handle
    flushFailed,     \* history: fclose's flush failed, which nobody is told
    uCommands, mediaFaults, powerCuts    \* counters for the bounds

updateVars == <<g_update_firmware, g_update, netAt, systemAt, system_suspended,
                mutex, fetched, cached, stored, leftOpen, flushFailed,
                uCommands, mediaFaults, powerCuts>>
netState == <<netAt, fetched, leftOpen, flushFailed>>

-----------------------------------------------------------------------------
Sleeping == netAt \in {"sleep", "settle", "let_flush"}

\* where a sleep ends: 768, 777 and 781
AfterSleep ==
    CASE netAt = "settle" -> "reset"
      [] netAt = "let_flush" -> "sleep"
      [] OTHER -> "loop"

\* net_thread's calls of FileX wait for the mutex
FileXFree == mutex = "nobody"

\* tx_thread_wait_abort(&net_thread) ends a sleep; it also ends the wait for
\* the mutex, where FileX returns an error
WaitAborted ==
    CASE Sleeping -> AfterSleep
      [] netAt = "download" /\ ~FileXFree -> "failed"
      [] OTHER -> netAt

\* U with another version than the one that runs sets the flag; the command
\* of type 1, not that of a group, also aborts what net_thread waits for.
\* m1_callback has the higher priority: net_thread sees it whole.
command_U(release, other, type) ==
    /\ uCommands < MaxUpdateCommands
    /\ uCommands' = uCommands + 1
    /\ g_update' = release
    /\ IF other
       THEN /\ g_update_firmware' = TRUE
            /\ netAt' = IF type = 1 THEN WaitAborted ELSE netAt
       ELSE UNCHANGED <<g_update_firmware, netAt>>
    /\ UNCHANGED <<systemAt, system_suspended, mutex, fetched, cached, stored,
                   leftOpen, flushFailed, mediaFaults, powerCuts>>

\* S aborts it too
command_S ==
    /\ uCommands < MaxUpdateCommands
    /\ uCommands' = uCommands + 1
    /\ netAt' = WaitAborted
    /\ UNCHANGED <<g_update_firmware, g_update, systemAt, system_suspended, mutex,
                   fetched, cached, stored, leftOpen, flushFailed, mediaFaults, powerCuts>>

-----------------------------------------------------------------------------
(***************************************************************************)
(* The media                                                               *)
(***************************************************************************)
Works == UNCHANGED mediaFaults
Fails == mediaFaults < MaxFaults /\ mediaFaults' = mediaFaults + 1

\* fx_media_flush: what FileX has goes to the flash, or an error that no
\* caller sees
Flush(f) ==
    \/ stored' = f /\ Works
    \/ stored' = stored /\ Fails

\* system_thread: fx_media_flush, while it is not suspended
system_flush ==
    /\ systemAt = "waits" /\ ~system_suspended /\ FileXFree
    /\ mutex' = "system"
    /\ systemAt' = "flushes"
    /\ UNCHANGED <<g_update_firmware, g_update, netState, system_suspended, cached,
                   stored, uCommands, mediaFaults, powerCuts>>

system_flushed ==
    /\ systemAt = "flushes" /\ ~system_suspended
    /\ Flush(cached)
    /\ mutex' = "nobody"
    /\ systemAt' = "waits"
    /\ UNCHANGED <<g_update_firmware, g_update, netState, system_suspended, cached,
                   uCommands, powerCuts>>

-----------------------------------------------------------------------------
(***************************************************************************)
(* net_thread                                                              *)
(***************************************************************************)
others == <<g_update, systemAt, mutex, uCommands, powerCuts>>

check_flag ==
    /\ netAt = "loop"
    /\ netAt' = IF g_update_firmware THEN "suspend" ELSE "sleep"
    /\ UNCHANGED <<others, g_update_firmware, system_suspended, fetched, cached,
                   stored, leftOpen, flushFailed, mediaFaults>>

\* a sleep ends by itself; after that of the loop a round of samples follows
wake_up ==
    /\ Sleeping
    /\ netAt' = AfterSleep
    /\ UNCHANGED <<others, g_update_firmware, system_suspended, fetched, cached,
                   stored, leftOpen, flushFailed, mediaFaults>>

\* tx_thread_suspend(&system_thread), wherever it is
suspend ==
    /\ netAt = "suspend"
    /\ system_suspended' = TRUE
    /\ flushFailed' = FALSE
    /\ netAt' = "download"
    /\ UNCHANGED <<others, g_update_firmware, fetched, cached, stored, leftOpen,
                   mediaFaults>>

\* update_firmware reads the URL and saves the image through FileX ...
download ==
    /\ netAt = "download" /\ FileXFree
    /\ fetched' = g_update
    /\ cached' = [cached EXCEPT !.images = @ \union {g_update}]
    /\ netAt' = "verify"
    /\ UNCHANGED <<others, g_update_firmware, system_suspended, stored, leftOpen,
                   flushFailed, mediaFaults>>

\* ... and compares its hash with the one there is by then, which a later
\* command may have brought; the download may also fail
verify ==
    /\ netAt = "verify"
    /\ \/ fetched = g_update /\ netAt' = "remove"
       \/ netAt' = "failed"
    /\ UNCHANGED <<others, g_update_firmware, system_suspended, fetched, cached,
                   stored, leftOpen, flushFailed, mediaFaults>>

\* remove("loaded.txt"), remove("update.txt"), whose results are not looked
\* at: a file that is open stays
remove_files ==
    /\ netAt = "remove" /\ FileXFree
    /\ \E loaded \in {FALSE, cached.loaded},
          update \in {IF leftOpen THEN cached.update ELSE "absent", cached.update} :
          cached' = [cached EXCEPT !.loaded = loaded, !.update = update]
    /\ netAt' = "fopen"
    /\ UNCHANGED <<others, g_update_firmware, system_suspended, fetched, stored,
                   leftOpen, flushFailed, mediaFaults>>

\* fopen("update.txt", "w") creates a file that is not there, with a flush
Created == [cached EXCEPT !.update = IF @ = "absent" THEN "empty" ELSE @]

fopen_succeeds ==
    /\ ~leftOpen
    /\ cached' = [cached EXCEPT !.update = "empty"]
    /\ IF cached.update = "absent" THEN Flush(cached') ELSE stored' = stored /\ Works
    /\ netAt' = "fwrite"
    /\ UNCHANGED leftOpen

\* The creation, the open or the truncation fails: the first leaves no file,
\* the last leaves it open in FileX while its entry of the table is free.
fopen_fails ==
    /\ ~leftOpen
    /\ \/ UNCHANGED <<cached, stored, leftOpen>>
       \/ /\ cached' = Created /\ stored' \in {stored, Created}
          /\ leftOpen' \in BOOLEAN
    /\ Fails
    /\ netAt' = "failed"

\* a file that is open is not opened again, but it is truncated if the entry
\* is the one that an earlier fopen left it in
fopen_open_file ==
    /\ leftOpen
    /\ cached' \in {cached, [cached EXCEPT !.update = "empty"]}
    /\ Works
    /\ netAt' = "failed"
    /\ UNCHANGED <<stored, leftOpen>>

fopen_update ==
    /\ netAt = "fopen" /\ FileXFree
    /\ fopen_succeeds \/ fopen_fails \/ fopen_open_file
    /\ UNCHANGED <<others, g_update_firmware, system_suspended, fetched,
                   flushFailed>>

\* the name of the image; when it cannot be written, nobody closes the file
fwrite_update ==
    /\ netAt = "fwrite" /\ FileXFree
    /\ \/ /\ cached' = [cached EXCEPT !.update = fetched]
          /\ netAt' = "fclose"
          /\ Works
          /\ UNCHANGED leftOpen
       \/ /\ netAt' = "failed"
          /\ leftOpen' = TRUE
          /\ Fails
          /\ UNCHANGED cached
    /\ UNCHANGED <<others, g_update_firmware, system_suspended, fetched, stored,
                   flushFailed>>

\* mutant: the flush is left to system_thread, for which net_thread sleeps
FlushLater == UNCHANGED <<stored, mediaFaults>>

\* fclose flushes the media, without a look at the result
FcloseFlush == Flush(cached)

fclose_update ==
    /\ netAt = "fclose" /\ FileXFree
    /\ FcloseFlush
    /\ flushFailed' = (mediaFaults' # mediaFaults)
    /\ netAt' = "settle"
    /\ UNCHANGED <<others, g_update_firmware, system_suspended, fetched, cached,
                   leftOpen>>

\* mutant: the flag of an update that failed stays
FlagKept == UNCHANGED g_update_firmware

\* g_update_firmware = 0, also when a command has set it since
FlagCleared == g_update_firmware' = FALSE

failed ==
    /\ netAt = "failed"
    /\ FlagCleared
    /\ netAt' = "resume"
    /\ UNCHANGED <<others, system_suspended, fetched, cached, stored, leftOpen,
                   flushFailed, mediaFaults>>

resume ==
    /\ netAt = "resume"
    /\ system_suspended' = FALSE
    /\ netAt' = "let_flush"
    /\ UNCHANGED <<others, g_update_firmware, fetched, cached, stored, leftOpen,
                   flushFailed, mediaFaults>>

\* what a start finds: the files of the flash
Restarted(f) ==
    /\ g_update_firmware' = FALSE
    /\ netAt' = "loop" /\ systemAt' = "waits"
    /\ system_suspended' = FALSE /\ mutex' = "nobody"
    /\ cached' = f /\ stored' = f
    /\ leftOpen' = FALSE /\ flushFailed' = FALSE
    /\ UNCHANGED <<g_update, fetched, uCommands, mediaFaults>>

\* SCB->AIRCR = 0x05FA0004; the boot loader may mark the image as loaded
reset ==
    /\ netAt = "reset"
    /\ \E loaded \in {stored.loaded, TRUE} : Restarted([stored EXCEPT !.loaded = loaded])
    /\ UNCHANGED powerCuts

power_fails ==
    /\ powerCuts < MaxPowerCuts
    /\ powerCuts' = powerCuts + 1
    /\ Restarted(stored)

-----------------------------------------------------------------------------
UpdateInit ==
    /\ g_update_firmware = FALSE
    /\ g_update \in Releases /\ fetched = g_update
    /\ netAt = "loop" /\ systemAt = "waits"
    /\ system_suspended = FALSE /\ mutex = "nobody"
    /\ \E update \in {"absent", g_update} :
          cached = [images |-> {update} \ {"absent"}, update |-> update, loaded |-> TRUE]
    /\ stored = cached
    /\ leftOpen = FALSE /\ flushFailed = FALSE
    /\ uCommands = 0 /\ mediaFaults = 0 /\ powerCuts = 0

NetStep ==
    \/ check_flag \/ wake_up \/ suspend \/ download \/ verify \/ remove_files
    \/ fopen_update \/ fwrite_update \/ fclose_update \/ failed \/ resume \/ reset
SystemStep == system_flush \/ system_flushed

UpdateNext ==
    \/ \E release \in Releases, other \in BOOLEAN, type \in {1, 2} :
          command_U(release, other, type)
    \/ command_S
    \/ NetStep
    \/ SystemStep
    \/ power_fails

\* a thread that can run does, when those of higher priority wait
UpdateFairness == WF_updateVars(NetStep) /\ WF_updateVars(SystemStep)
UpdateSpec == UpdateInit /\ [][UpdateNext]_updateVars /\ UpdateFairness

-----------------------------------------------------------------------------
\* Of the reset that starts an update (769): the flash holds the image, and an
\* update.txt that names it, whether or not the sleep before the reset was cut
\* short -- unless fclose's flush failed, of which net_thread is not told.
ResetFindsUpdate ==
    netAt \in {"settle", "reset"} /\ ~flushFailed
    => /\ stored.update = fetched
       /\ fetched \in stored.images

\* system_thread was suspended inside fx_media_flush
StuckInFlush == system_suspended /\ systemAt = "flushes"

\* Of the whole update: a U command that sets the flag leads to an attempt that
\* ends, with a reset or with system_thread running again, unless system_thread
\* was suspended while it held the mutex of the media (only a command, which
\* aborts net_thread's wait, ends that).
UpdateEnds ==
    g_update_firmware ~> \/ ~g_update_firmware /\ ~system_suspended
                         \/ StuckInFlush

\* Of the comment at src/src/net_thread_entry.c:750, "suspend system thread to
\* prevent FX media concurrent interaction": net_thread does not use FileX
\* while a call of system_thread is under way.
InFileX == netAt \in {"download", "remove", "fopen", "fwrite", "fclose"}
NoConcurrentMedia == ~(InFileX /\ systemAt = "flushes")
=============================================================================
