----------------------------- MODULE Provision -----------------------------
(***************************************************************************)
(* The credentials of the board: those of the files on the media win over  *)
(* the record in the data flash, part by part; with them net_thread        *)
(* connects, which may enrol a new device; what changed is written back,   *)
(* in a flash that is erased first.  Power may be cut at any time, and the *)
(* user may change the files.  The agent library and the cloud are         *)
(* external.                                                               *)
(***************************************************************************)
EXTENDS Naturals

CONSTANTS
    Projects,         \* what m1config.txt may hold: a project with its
                      \* registration user
    ManualOwner,      \* the project that the device of m1user.txt belongs to,
                      \* None when the cloud does not know it
    Devices,          \* bound: the devices that can be enrolled
    MaxCuts           \* bound: power cuts

None == "none"        \* an empty string
Blank == "blank"      \* what is left in erased flash
Manual == "manual"    \* the device of m1user.txt
Withdrawn == "withdrawn"

ASSUME ProvisionAssumption ==
    /\ {None, Blank, Withdrawn} \intersect Projects = {}
    /\ {None, Blank, Manual} \intersect Devices = {}
    /\ ManualOwner \in Projects \union {None}
    /\ MaxCuts \in Nat

VARIABLES
    provStep,         \* where the board is
    files,            \* what the files hold
    flash,            \* the record at 0x40100000
    app_config,
    provisioned,      \* provisioned_config
    registry,         \* the cloud: the project of each device enrolled, None
                      \* before and Withdrawn when it is refused again
    attempted,        \* history: the devices tried since the start
    registered,       \* history: the registration user was tried
    settled,          \* history: the last connection and its writing worked
                      \* with these files, and the device is not refused
    cuts              \* counter for the bound

provVars == <<provStep, files, flash, app_config, provisioned, registry,
              attempted, registered, settled, cuts>>

\* m1config.txt may end before its registration user
Files == {f \in [project : Projects \union {None},
                registration : Projects \union {None},
                device : {None, Manual}] : f.registration \in {None, f.project}}
NoConfig == [project |-> None, registration |-> None, device |-> None]
Erased == [mark |-> Blank, project |-> Blank, registration |-> Blank, device |-> Blank]

-----------------------------------------------------------------------------
\* system_thread has read the files and resumes net_thread, which clears
\* provisioned_config
read_files ==
    /\ provStep = "start"
    /\ app_config' = files
    /\ provisioned' = NoConfig
    /\ attempted' = {} /\ registered' = FALSE
    /\ provStep' = "read"
    /\ UNCHANGED <<files, flash, registry, settled, cuts>>

\* a part that the files give replaces that of the record
Merged(record, config) ==
    [part \in {"project", "registration", "device"} |->
        IF config[part] # None THEN config[part] ELSE record[part]]

\* mutant: the record is not kept for the comparison
NotKept(record) == provisioned

\* memcpy(&provisioned_config, cfg_from_flash, ...), before they are merged
Kept(record) ==
    [project |-> record.project, registration |-> record.registration,
     device |-> record.device]

read_record ==
    /\ provStep = "read"
    /\ \/ /\ flash.mark = "P"
          /\ provisioned' = Kept(flash)
          /\ app_config' = Merged(flash, app_config)
          /\ provStep' = "connect"
       \/ /\ flash.mark # "P"
          /\ provStep' = "connect"
          /\ UNCHANGED <<provisioned, app_config>>
       \/ provStep' = "err" /\ UNCHANGED <<provisioned, app_config>>
    /\ UNCHANGED <<files, flash, registry, attempted, registered, settled, cuts>>

\* the cloud knows the device, in this project
Accepted(device, project) ==
    /\ project \in Projects
    /\ \/ device = Manual /\ ManualOwner = project
       \/ device \in Devices /\ registry[device] = project

\* m1_auto_enroll_connect_2: the device is tried, then the registration user,
\* which enrols a new device; either may fail for want of a network
read_certs_and_connect ==
    LET c == app_config
        known == Accepted(c.device, c.project)
        enrols == ~known /\ c.registration = c.project /\ c.project \in Projects
    IN
    /\ provStep = "connect"
    /\ attempted' = {c.device} \ {None}
    /\ \/ known /\ provStep' = "compare" /\ UNCHANGED <<app_config, registry, registered>>
       \/ /\ enrols
          /\ \E d \in Devices :
                /\ registry[d] = None
                /\ registry' = [registry EXCEPT ![d] = c.project]
                /\ app_config' = [c EXCEPT !.device = d]
          /\ registered' = TRUE
          /\ provStep' = "compare"
       \/ /\ provStep' = "err"
          /\ registered' = ~known
          /\ UNCHANGED <<app_config, registry>>
    /\ UNCHANGED <<files, flash, provisioned, settled, cuts>>

\* mutant: the devices are not compared
UserIgnored(a, b) == a.registration # b.registration \/ a.project # b.project

config_compare(a, b) ==
    \/ a.device # b.device
    \/ a.registration # b.registration
    \/ a.project # b.project

\* the files, which may have changed since they were read, say nothing else
Trusted ==
    /\ Accepted(app_config.device, app_config.project)
    /\ files.device \in {None, app_config.device}
    /\ files.registration \in {None, app_config.registration}
    /\ files.project \in {None, app_config.project}

compare ==
    /\ provStep = "compare"
    /\ IF config_compare(provisioned, app_config)
       THEN provStep' = "erase" /\ UNCHANGED settled
       ELSE provStep' = "run" /\ settled' = Trusted
    /\ UNCHANGED <<files, flash, app_config, provisioned, registry, attempted,
                   registered, cuts>>

\* write_struct_to_flash erases the record ...
erase ==
    /\ provStep = "erase"
    /\ \/ flash' = Erased /\ provStep' \in {"write", "err"}
       \/ flash' = flash /\ provStep' = "err"
    /\ UNCHANGED <<files, app_config, provisioned, registry, attempted, registered,
                   settled, cuts>>

\* the first k parts of the record
Part(config, k) ==
    [mark |-> "P",
     device |-> IF k >= 1 THEN config.device ELSE Blank,
     registration |-> IF k >= 2 THEN config.registration ELSE Blank,
     project |-> IF k >= 3 THEN config.project ELSE Blank]

\* ... and writes it, in a write that may end half way
write ==
    /\ provStep = "write"
    /\ \/ flash' = Part(app_config, 3) /\ provStep' = "run" /\ settled' = Trusted
       \/ /\ \E k \in 0..3 : flash' = Part(app_config, k)
          /\ provStep' = "err"
          /\ UNCHANGED settled
    /\ UNCHANGED <<files, app_config, provisioned, registry, attempted, registered, cuts>>

\* the power goes, also during a write, and comes back
power_cut ==
    /\ cuts < MaxCuts
    /\ provStep # "start"
    /\ \/ UNCHANGED flash
       \/ provStep = "write" /\ \E k \in 0..2 : flash' = Part(app_config, k)
    /\ provStep' = "start"
    /\ app_config' = NoConfig /\ provisioned' = NoConfig
    /\ cuts' = cuts + 1
    /\ UNCHANGED <<files, registry, attempted, registered, settled>>

\* the USB host, which is let in when net_thread has been resumed, changes the
\* files
change_files ==
    /\ provStep # "start"
    /\ files' \in Files
    /\ files' # files
    /\ settled' = FALSE
    /\ UNCHANGED <<provStep, flash, app_config, provisioned, registry, attempted,
                   registered, cuts>>

\* the cloud refuses a device that it knew
withdraw ==
    /\ \E d \in Devices :
          /\ registry[d] \in Projects
          /\ registry' = [registry EXCEPT ![d] = Withdrawn]
    /\ settled' = FALSE
    /\ UNCHANGED <<provStep, files, flash, app_config, provisioned, attempted,
                   registered, cuts>>

-----------------------------------------------------------------------------
ProvInit ==
    /\ provStep = "start"
    /\ files \in Files
    /\ flash = Erased
    /\ app_config = NoConfig /\ provisioned = NoConfig
    /\ registry = [d \in Devices |-> None]
    /\ attempted = {} /\ registered = FALSE
    /\ settled = FALSE
    /\ cuts = 0

ProvNext ==
    \/ read_files \/ read_record \/ read_certs_and_connect
    \/ compare \/ erase \/ write
    \/ power_cut \/ change_files \/ withdraw

ProvSpec == ProvInit /\ [][ProvNext]_provVars

-----------------------------------------------------------------------------
\* Of the merging, the comparison and the writing: once the board has
\* connected and its record is written, no later start opens the window
\* between the erase and the write again, unless the files change.  (With a
\* device in m1user.txt that the cloud refuses, every start enrols and writes.)
RecordLeftAlone == settled => provStep \notin {"erase", "write"}

\* Of the same, seen by the cloud: such a board enrols no second device.
EnrolledOnce ==
    [][settled => \A d \in Devices : registry[d] = None => registry'[d] = None]_provVars

\* Of the comment at src/src/net_thread_entry.c:501-504: when the device of
\* m1user.txt is refused, the auto-enrolled device in the data flash, of the
\* same project, is tried before the registration user is.
FallsBackOnFlash ==
    /\ registered /\ provStep = "compare"
    /\ flash.mark = "P" /\ flash.project = app_config.project
    => flash.device \in attempted \union {None}
=============================================================================
