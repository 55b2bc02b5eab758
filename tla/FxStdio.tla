------------------------------ MODULE FxStdio ------------------------------
(***************************************************************************)
(* The C library's file functions over FileX (fx_stdio.c): a table of open *)
(* files shared by the threads, and one semaphore that every call holds    *)
(* from its first statement to its return.  fopen, which searches the      *)
(* table, claims an entry and only then opens the file, is several steps;  *)
(* the other functions work on an entry that the caller owns.  FileX is    *)
(* external: it keeps the files, and any of its operations may fail.       *)
(***************************************************************************)
EXTENDS Integers, Sequences, FiniteSets

CONSTANTS
    Callers,          \* the threads
    MaxOpenFiles,     \* FX_STDIO_MAX_OPEN_FILES
    Names,            \* names of files
    UnknownDrive,     \* those with the letter of a drive not registered
    Modes,            \* the modes fopen is called with: "r", "w", "a"
    LineSizes,        \* the sizes of the buffers given to fgets
    Offsets,          \* the offsets given to fseek
    Callable,         \* the calls that each thread makes
    FirstContents,    \* what each file holds at first, <<>> for none
    MaxLength         \* bound: what the media can hold of a file

Newline == "nl"
Other == "other"    \* any other character

ASSUME StdioAssumption ==
    /\ MaxOpenFiles \in Nat \ {0}
    /\ UnknownDrive \subseteq Names
    /\ Modes \subseteq {"r", "w", "a"}
    /\ LineSizes \subseteq Nat \ {0}
    /\ Offsets \subseteq Int
    /\ FirstContents \in [Names -> Seq({Newline, Other})]
    /\ \A n \in UnknownDrive : FirstContents[n] = <<>>
    /\ MaxLength \in Nat

Slots == 0..(MaxOpenFiles - 1)
NoSlot == MaxOpenFiles
Whence == {"SEEK_SET", "SEEK_CUR", "SEEK_END"}
NoRequest == [function |-> "none", name |-> "none", mode |-> "none",
              handle |-> NoSlot, count |-> 0, wherefrom |-> "none"]
Opens(n, m) == [NoRequest EXCEPT !.function = "fopen", !.name = n, !.mode = m]
OnName(f, n) == [NoRequest EXCEPT !.function = f, !.name = n]
OnHandle(f, i, k, w) ==
    [NoRequest EXCEPT !.function = f, !.handle = i, !.count = k, !.wherefrom = w]
\* the calls there are; remove is not called with a drive it does not know
Requests ==
    {Opens(n, m) : n \in Names, m \in Modes}
    \union {OnName(f, n) : f \in {"remove", "stat"}, n \in Names \ UnknownDrive}
    \union {OnHandle("fclose", i, 0, "none") : i \in Slots}
    \union {OnHandle(f, i, 1, "none") : f \in {"fread", "fwrite"}, i \in Slots}
    \union {OnHandle("fgets", i, k, "none") : i \in Slots, k \in LineSizes}
    \union {OnHandle("fseek", i, k, w) : i \in Slots, k \in Offsets, w \in Whence}
NoLine == [buffer |-> <<>>, null |-> TRUE, faulty |-> FALSE]

ASSUME CallableAssumption == Callable \in [Callers -> SUBSET Requests]

VARIABLES
    semaphore,    \* _fx_stdio_semaphore
    suspended,    \* the threads that wait for it, in order
    modeOf,       \* fx_stdio_mode of each entry, "free" for 0
    fxFile,       \* fx_stdio_filex_file of each entry, as FileX left it
    directory,    \* the files that exist
    content,      \* what they hold
    at,           \* where each thread is
    request,      \* the call it is in
    entry,        \* the entry that this call works on
    handles,      \* the handles that each thread holds
    line          \* what its last fgets returned

stdioVars == <<semaphore, suspended, modeOf, fxFile, directory, content, at,
               request, entry, handles, line>>
fileVars == <<modeOf, fxFile, directory, content>>

-----------------------------------------------------------------------------
(***************************************************************************)
(* FileX                                                                   *)
(***************************************************************************)
Closed == [name |-> "none", access |-> "none", offset |-> 0]
IsOpen(i) == fxFile[i] # Closed
Openers(n) == {i \in Slots : fxFile[i].name = n}

\* fx_file_open: the structure must not be in use; one writer, or readers
FileOpens(i, n, access, dir) ==
    /\ n \in dir
    /\ ~IsOpen(i)
    /\ \A j \in Openers(n) : access = "read" /\ fxFile[j].access = "read"

\* fx_file_seek goes to the end of the file at most; lengths are unsigned
SeekTo(position, size) ==
    IF position \in 0..size THEN position ELSE size

-----------------------------------------------------------------------------
(***************************************************************************)
(* The semaphore                                                           *)
(***************************************************************************)
\* mutant: the semaphore is not asked for
NoProtection(t) == UNCHANGED <<semaphore, suspended>> /\ at' = [at EXCEPT ![t] = "in"]

\* tx_semaphore_get
GetSemaphore(t) ==
    IF semaphore > 0
    THEN /\ semaphore' = semaphore - 1
         /\ at' = [at EXCEPT ![t] = "in"]
         /\ UNCHANGED suspended
    ELSE /\ suspended' = Append(suspended, t)
         /\ at' = [at EXCEPT ![t] = "waits"]
         /\ UNCHANGED semaphore

\* tx_semaphore_put hands it to the thread that waits longest
PutSemaphore(t) ==
    IF suspended # <<>>
    THEN /\ at' = [at EXCEPT ![t] = "idle", ![Head(suspended)] = "in"]
         /\ suspended' = Tail(suspended)
         /\ UNCHANGED semaphore
    ELSE /\ at' = [at EXCEPT ![t] = "idle"]
         /\ semaphore' = semaphore + 1
         /\ UNCHANGED suspended

\* a function of stdio is called
Call(t, r) ==
    /\ at[t] = "idle"
    /\ r.function \notin {"fopen", "remove", "stat"} => r.handle \in handles[t]
    /\ request' = [request EXCEPT ![t] = r]
    /\ entry' = [entry EXCEPT ![t] = r.handle]
    /\ GetSemaphore(t)
    /\ UNCHANGED <<fileVars, handles, line>>

GiveBack(t) ==
    /\ at[t] = "put"
    /\ PutSemaphore(t)
    /\ request' = [request EXCEPT ![t] = NoRequest]
    /\ entry' = [entry EXCEPT ![t] = NoSlot]
    /\ line' = [line EXCEPT ![t] = NoLine]
    /\ UNCHANGED <<fileVars, handles>>

Running(t, function) == at[t] = "in" /\ request[t].function = function

-----------------------------------------------------------------------------
(***************************************************************************)
(* fopen                                                                   *)
(***************************************************************************)
FreeSlots == {i \in Slots : modeOf[i] = "free"}

\* mutant: the way out without an entry does not give the semaphore back
NoEntryKeeps(t) ==
    /\ at' = [at EXCEPT ![t] = "idle"]
    /\ UNCHANGED <<semaphore, suspended, fileVars, request, entry, handles, line>>

\* no more entries available: NULL
NoEntry(t) ==
    /\ at' = [at EXCEPT ![t] = "put"]
    /\ UNCHANGED <<semaphore, suspended, fileVars, request, entry, handles, line>>

fopen_search(t) ==
    /\ Running(t, "fopen")
    /\ IF FreeSlots = {}
       THEN NoEntry(t)
       ELSE /\ entry' = [entry EXCEPT ![t] =
                            CHOOSE i \in FreeSlots : \A j \in FreeSlots : i <= j]
            /\ at' = [at EXCEPT ![t] = "claim"]
            /\ UNCHANGED <<semaphore, suspended, fileVars, request, handles, line>>

fopen_claim(t) ==
    /\ at[t] = "claim"
    /\ modeOf' = [modeOf EXCEPT ![entry[t]] = request[t].mode]
    /\ at' = [at EXCEPT ![t] = "open"]
    /\ UNCHANGED <<semaphore, suspended, fxFile, directory, content, request,
                   entry, handles, line>>

\* mutant: the status of the truncation replaces that of the open
LastStatus(opened, truncated) == truncated

\* status += fx_file_truncate(...)
SummedStatus(opened, truncated) == opened /\ truncated

\* the open for writing, the truncation for "w" and the seek for "a": each
\* works on the structure of the entry, whatever the one before it returned
OpenForWriting(i, n, mode, dir, faults, succeeds) ==
    LET opened == FileOpens(i, n, "write", dir) /\ "open" \notin faults
        file == IF opened THEN [name |-> n, access |-> "write", offset |-> 0]
                ELSE fxFile[i]
        truncated == file.access = "write" /\ "truncate" \notin faults
        sought == file # Closed /\ "seek" \notin faults
    IN  /\ content' = IF mode = "w" /\ truncated
                      THEN [content EXCEPT ![file.name] = <<>>] ELSE content
        /\ fxFile' = [fxFile EXCEPT ![i] =
                         IF mode = "w" /\ truncated THEN [file EXCEPT !.offset = 0]
                         ELSE IF mode = "a" /\ sought
                         THEN [file EXCEPT !.offset = Len(content[file.name])]
                         ELSE file]
        /\ succeeds = IF mode = "w" THEN SummedStatus(opened, truncated) ELSE sought

OpenForReading(i, n, faults, succeeds) ==
    /\ succeeds = (FileOpens(i, n, "read", directory) /\ "open" \notin faults)
    /\ fxFile' = IF succeeds
                 THEN [fxFile EXCEPT ![i] = [name |-> n, access |-> "read", offset |-> 0]]
                 ELSE fxFile
    /\ UNCHANGED <<directory, content>>

\* the rest of fopen: an entry that could not be opened is free again
fopen_open(t) ==
    LET i == entry[t]  r == request[t] IN
    /\ at[t] = "open"
    /\ \E faults \in SUBSET {"create", "open", "truncate", "seek"},
          succeeds \in BOOLEAN :
          /\ IF r.name \in UnknownDrive
             THEN ~succeeds /\ UNCHANGED <<fxFile, directory, content>>
             ELSE IF r.mode = "r"
             THEN OpenForReading(i, r.name, faults, succeeds)
             ELSE /\ directory' = IF "create" \in faults THEN directory
                                  ELSE directory \union {r.name}
                  /\ OpenForWriting(i, r.name, r.mode, directory', faults, succeeds)
          /\ modeOf' = IF succeeds THEN modeOf ELSE [modeOf EXCEPT ![i] = "free"]
          /\ handles' = IF succeeds THEN [handles EXCEPT ![t] = @ \union {i}]
                        ELSE handles
    /\ at' = [at EXCEPT ![t] = "put"]
    /\ UNCHANGED <<semaphore, suspended, request, entry, line>>

-----------------------------------------------------------------------------
(***************************************************************************)
(* The other functions                                                     *)
(***************************************************************************)
Done(t) ==
    /\ at' = [at EXCEPT ![t] = "put"]
    /\ UNCHANGED <<semaphore, suspended, request, entry>>

\* the file is closed, which fails only for one that is not open, the entry is
\* free and the media flushed
fclose(t) ==
    LET i == entry[t] IN
    /\ Running(t, "fclose")
    /\ fxFile' = [fxFile EXCEPT ![i] = Closed]
    /\ modeOf' = [modeOf EXCEPT ![i] = "free"]
    /\ handles' = [handles EXCEPT ![t] = @ \ {i}]
    /\ Done(t)
    /\ UNCHANGED <<directory, content, line>>

Smaller(a, b) == IF a <= b THEN a ELSE b

\* fgetc is fread of one character
fread(t) ==
    LET i == entry[t]  f == fxFile[i] IN
    /\ Running(t, "fread")
    /\ \E fault \in BOOLEAN :
          fxFile' = IF fault THEN fxFile
                    ELSE [fxFile EXCEPT ![i].offset =
                             Smaller(f.offset + request[t].count, Len(content[f.name]))]
    /\ Done(t)
    /\ UNCHANGED <<modeOf, directory, content, handles, line>>

\* mutant: one character more than the buffer takes with its terminator
TooLong(max) == max

\* for (p = dst, max--; max > 0; max--)
MaxCharacters(max) == max - 1

NothingRead(offset, c0) ==
    [got |-> <<>>, offset |-> offset, c |-> c0, stopped |-> FALSE, eof |-> FALSE]

\* the k-th round of the loop; a read that fails leaves c as it was
Round(s, k, faults, before) ==
    LET next == IF k \in faults THEN before
                ELSE [before EXCEPT !.c = s[before.offset + 1],
                                    !.got = Append(@, s[before.offset + 1]),
                                    !.offset = @ + 1]
    IN  IF before.stopped THEN before
        ELSE IF k \notin faults /\ before.offset = Len(s)
        THEN [before EXCEPT !.stopped = TRUE, !.eof = TRUE]
        ELSE [next EXCEPT !.stopped = next.c = Newline]

\* the loop of fgets over the characters of s from offset on; the reads whose
\* number is in faults fail
Loop(s, offset, max, faults, c0) ==
    LET rounds[k \in 0..MaxCharacters(max)] ==
            IF k = 0 THEN NothingRead(offset, c0) ELSE Round(s, k, faults, rounds[k - 1])
    IN  rounds[MaxCharacters(max)]

\* the buffer is terminated; NULL when nothing was read or the end was met
fgets(t) ==
    LET i == entry[t]  f == fxFile[i]  max == request[t].count IN
    /\ Running(t, "fgets")
    /\ \E faults \in SUBSET (1..(max - 1)), c0 \in {Newline, Other} :
          LET end == Loop(content[f.name], f.offset, max, faults, c0) IN
          /\ fxFile' = [fxFile EXCEPT ![i].offset = end.offset]
          /\ line' = [line EXCEPT ![t] =
                         [buffer |-> end.got, null |-> end.got = <<>> \/ end.eof,
                          faulty |-> faults # {}]]
    /\ Done(t)
    /\ UNCHANGED <<modeOf, directory, content, handles>>

\* what is written replaces what is there, or comes after it
Overwritten(s, offset, n) ==
    [k \in 1..(IF offset + n > Len(s) THEN offset + n ELSE Len(s)) |->
        IF k \in (offset + 1)..(offset + n) THEN Other ELSE s[k]]

\* fx_file_write of n characters at the position the file has
Written(i, f, n, fault) ==
    IF f.access = "write" /\ ~fault /\ f.offset + n <= MaxLength
    THEN /\ content' = [content EXCEPT ![f.name] = Overwritten(@, f.offset, n)]
         /\ fxFile' = [fxFile EXCEPT ![i] = [f EXCEPT !.offset = @ + n]]
    ELSE content' = content /\ fxFile' = [fxFile EXCEPT ![i] = f]

\* fputc is fwrite of one character
fwrite(t) ==
    /\ Running(t, "fwrite")
    /\ \E fault \in BOOLEAN :
          Written(entry[t], fxFile[entry[t]], request[t].count, fault)
    /\ Done(t)
    /\ UNCHANGED <<modeOf, directory, handles, line>>

\* mutant: the distance is subtracted whatever the position is
Subtracted(base, distance) == base - distance

\* seek backward: to the beginning of the file at most
Backward(base, distance) ==
    IF distance >= base THEN 0 ELSE base - distance

\* where fseek positions the file
SeekPosition(f, size, offset, wherefrom) ==
    CASE wherefrom = "SEEK_SET" -> SeekTo(IF offset < 0 THEN 0 ELSE offset, size)
      [] wherefrom = "SEEK_CUR" /\ offset < 0 -> SeekTo(Backward(f.offset, -offset), size)
      [] wherefrom = "SEEK_CUR" /\ offset >= 0 -> SeekTo(f.offset + offset, size)
      [] wherefrom = "SEEK_END" /\ offset < 0 -> SeekTo(Backward(size, -offset), size)
      [] OTHER -> size

\* A forward seek from the end writes offset - size characters, unsigned:
\* more than any media holds when the file is longer than offset
fseek(t) ==
    LET i == entry[t]  f == fxFile[i]  r == request[t]  size == Len(content[f.name])
        sought == [f EXCEPT !.offset = SeekPosition(f, size, r.count, r.wherefrom)]
    IN
    /\ Running(t, "fseek")
    /\ \E fault \in BOOLEAN :
          IF r.wherefrom = "SEEK_END" /\ r.count >= 0
          THEN Written(i, sought, IF r.count >= size THEN r.count - size ELSE MaxLength + 1,
                       fault)
          ELSE /\ fxFile' = IF fault THEN fxFile ELSE [fxFile EXCEPT ![i] = sought]
               /\ UNCHANGED content
    /\ Done(t)
    /\ UNCHANGED <<modeOf, directory, handles, line>>

\* fx_file_delete refuses a file that is open
remove(t) ==
    LET n == request[t].name IN
    /\ Running(t, "remove")
    /\ \E fault \in BOOLEAN :
          IF n \in directory /\ Openers(n) = {} /\ ~fault
          THEN /\ directory' = directory \ {n}
               /\ content' = [content EXCEPT ![n] = <<>>]
          ELSE UNCHANGED <<directory, content>>
    /\ Done(t)
    /\ UNCHANGED <<modeOf, fxFile, handles, line>>

\* the attributes are read, the file is opened by a structure of the
\* function's own and closed again: nothing is left of it
stat(t) ==
    /\ Running(t, "stat")
    /\ Done(t)
    /\ UNCHANGED <<fileVars, handles, line>>

-----------------------------------------------------------------------------
\* _fx_stdio_initialize
StdioInit ==
    /\ semaphore = 1
    /\ suspended = <<>>
    /\ modeOf = [i \in Slots |-> "free"]
    /\ fxFile = [i \in Slots |-> Closed]
    /\ content = FirstContents
    /\ directory = {n \in Names : content[n] # <<>>}
    /\ at = [t \in Callers |-> "idle"]
    /\ request = [t \in Callers |-> NoRequest]
    /\ entry = [t \in Callers |-> NoSlot]
    /\ handles = [t \in Callers |-> {}]
    /\ line = [t \in Callers |-> NoLine]

\* the steps of a call that is under way
StdioStep(t) ==
    \/ fopen_search(t) \/ fopen_claim(t) \/ fopen_open(t)
    \/ fclose(t) \/ fread(t) \/ fgets(t) \/ fwrite(t) \/ fseek(t)
    \/ remove(t) \/ stat(t)
    \/ GiveBack(t)

StdioNext ==
    \E t \in Callers :
        \/ \E r \in Callable[t] : Call(t, r)
        \/ StdioStep(t)

\* a thread that can run does
StdioFairness == \A t \in Callers : WF_stdioVars(StdioStep(t))
StdioSpec == StdioInit /\ [][StdioNext]_stdioVars /\ StdioFairness

-----------------------------------------------------------------------------
\* the entries that a thread works on: its handles, and the one it opens
Owned(t) == handles[t] \union (IF at[t] = "open" THEN {entry[t]} ELSE {})

\* Of the table of open files: no entry has two owners, none is taken without
\* an owner, and none is given out while it is in use, however the calls of
\* the threads meet and whichever of FileX's operations fail.
SlotsOwned ==
    /\ \A t, u \in Callers : t # u => Owned(t) \intersect Owned(u) = {}
    /\ \A i \in Slots : modeOf[i] # "free" <=> \E t \in Callers : i \in Owned(t)

\* Of fopen, fclose and the operations on a handle: what fopen returns is open
\* on the file that it was asked for, and stays so until it is closed, also
\* when an entry is used again that an earlier fopen had to give up.
HandleNamed ==
    [][\A t \in Callers : \A i \in handles'[t] :
          fxFile'[i].name = IF i \in handles[t] THEN fxFile[i].name
                            ELSE request[t].name]_stdioVars

\* Of the semaphore: every call returns, whatever fails in it, so that nobody
\* waits for ever.
CallsReturn == \A t \in Callers : at[t] # "idle" ~> at[t] = "idle"

\* Of fgets: the buffer has room for what is read and the terminator; what is
\* read is what follows in the file, nothing lost and nothing twice; a line
\* ends at a newline or at the end of the buffer, unless reads failed; NULL
\* means that nothing was read or that the end of the file was met.
FgetsReads ==
    [][\A t \in Callers : Running(t, "fgets") /\ at'[t] = "put" =>
          LET f == fxFile[entry[t]]  l == line'[t]  max == request[t].count IN
          /\ Len(l.buffer) < max
          /\ l.buffer = SubSeq(content[f.name], f.offset + 1, fxFile'[entry[t]].offset)
          /\ l.null \/ l.faulty \/ Len(l.buffer) = max - 1
             \/ l.buffer[Len(l.buffer)] = Newline
          /\ l.null => \/ l.buffer = <<>>
                       \/ fxFile'[entry[t]].offset = Len(content[f.name])]_stdioVars

\* Of fseek: a seek backward does not move forward, and no seek leaves the
\* file.
SeekBounded ==
    [][\A t \in Callers : Running(t, "fseek") /\ at'[t] = "put" =>
          LET i == entry[t]  r == request[t] IN
          /\ fxFile'[i].offset \in 0..Len(content'[fxFile[i].name])
          /\ r.wherefrom = "SEEK_CUR" /\ r.count < 0
             => fxFile'[i].offset <= fxFile[i].offset]_stdioVars
=============================================================================
