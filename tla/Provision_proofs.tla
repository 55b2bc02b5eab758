-------------------------- MODULE Provision_proofs --------------------------
(***************************************************************************)
(* Proofs about Provision, for all projects and devices and every number   *)
(* of power cuts: a board that has connected with a record of its own      *)
(* neither erases that record again nor enrols a second device.            *)
(***************************************************************************)
EXTENDS Provision, TLAPS

\* Before the record is read, provisioned_config is empty.
NothingKept == provStep = "read" => provisioned = NoConfig

\* Until it is compared, provisioned_config is the record of the flash.
RecordKept ==
    provStep \in {"connect", "compare"}
    => IF flash.mark = "P"
       THEN /\ provisioned.project = flash.project
            /\ provisioned.registration = flash.registration
            /\ provisioned.device = flash.device
       ELSE provisioned = NoConfig

\* A settled board: the record is whole, the cloud knows its device, and the
\* files say nothing else ...
RecordAgrees ==
    /\ flash.mark = "P"
    /\ Accepted(flash.device, flash.project)
    /\ files.project \in {None, flash.project}
    /\ files.registration \in {None, flash.registration}
    /\ files.device \in {None, flash.device}

\* ... so that what it connects with, once both are read, is the record.
ConfigAgrees ==
    /\ provStep = "read"
       => /\ app_config.project = files.project
          /\ app_config.registration = files.registration
          /\ app_config.device = files.device
    /\ provStep \in {"connect", "compare"}
       => /\ app_config.project = flash.project
          /\ app_config.registration = flash.registration
          /\ app_config.device = flash.device

ProvInv ==
    /\ NothingKept /\ RecordKept
    /\ settled => RecordAgrees /\ ConfigAgrees
    /\ RecordLeftAlone

LEMMA ProvInvInit == ProvInit => ProvInv
BY DEF ProvInit, ProvInv, NothingKept, RecordKept, RecordLeftAlone

\* The merged configuration, part by part.
LEMMA MergedParts ==
    ASSUME NEW record, NEW config
    PROVE  LET m == Merged(record, config) IN
           /\ m.project = IF config.project # None THEN config.project ELSE record.project
           /\ m.registration = IF config.registration # None THEN config.registration
                               ELSE record.registration
           /\ m.device = IF config.device # None THEN config.device ELSE record.device
BY DEF Merged

\* A configuration without a device is accepted nowhere.
LEMMA NoDevice == ASSUME NEW project PROVE ~Accepted(None, project)
BY ProvisionAssumption DEF Accepted, None, Manual

\* A settled board connects with the device it has.
LEMMA SettledConnects ==
    ProvInv /\ settled /\ provStep = "connect"
    => Accepted(app_config.device, app_config.project)
BY DEF ProvInv, RecordAgrees, ConfigAgrees

LEMMA ProvInvStep == ProvInv /\ [ProvNext]_provVars => ProvInv'
<1> SUFFICES ASSUME ProvInv, [ProvNext]_provVars PROVE ProvInv'
    OBVIOUS
<1> USE DEF ProvInv, NothingKept, RecordKept, RecordLeftAlone
<1>1. CASE read_files
    BY <1>1 DEF read_files, RecordAgrees, ConfigAgrees, Accepted
<1>2. CASE read_record
    <2>1. CASE flash.mark = "P" /\ provisioned' = Kept(flash)
               /\ app_config' = Merged(flash, app_config) /\ provStep' = "connect"
        BY <1>2, <2>1, MergedParts DEF read_record, RecordAgrees, ConfigAgrees,
           Accepted, Kept
    <2>2. CASE flash.mark # "P" /\ provStep' = "connect"
               /\ UNCHANGED <<provisioned, app_config>>
        BY <1>2, <2>2 DEF read_record, RecordAgrees
    <2>3. CASE provStep' = "err"
        BY <1>2, <2>3 DEF read_record, RecordAgrees, ConfigAgrees, Accepted
    <2> QED
        BY <1>2, <2>1, <2>2, <2>3 DEF read_record
<1>3. CASE read_certs_and_connect
    <2>1. CASE Accepted(app_config.device, app_config.project)
        BY <1>3, <2>1 DEF read_certs_and_connect, RecordAgrees, ConfigAgrees, Accepted
    <2>2. CASE ~Accepted(app_config.device, app_config.project)
        <3>1. ~settled
            BY <1>3, <2>2, SettledConnects DEF read_certs_and_connect
        <3>2. CASE provStep' = "compare"
            <4>1. PICK d \in Devices : app_config' = [app_config EXCEPT !.device = d]
                BY <1>3, <2>2, <3>2 DEF read_certs_and_connect
            <4>2. /\ app_config'.project = app_config.project
                  /\ app_config'.registration = app_config.registration
                BY <4>1
            <4> QED
                BY <1>3, <3>1, <3>2, <4>2 DEF read_certs_and_connect
        <3>3. CASE provStep' = "err"
            BY <1>3, <3>1, <3>3 DEF read_certs_and_connect
        <3> QED
            BY <1>3, <2>2, <3>2, <3>3 DEF read_certs_and_connect
    <2> QED
        BY <2>1, <2>2
<1>4. CASE compare
    <2>1. CASE config_compare(provisioned, app_config)
        BY <1>4, <2>1 DEF compare, config_compare, RecordAgrees, ConfigAgrees
    <2>2. CASE ~config_compare(provisioned, app_config)
        <3>1. settled' => flash.mark = "P"
            BY <1>4, <2>2, NoDevice DEF compare, config_compare, Trusted, NoConfig
        <3> QED
            BY <1>4, <2>2, <3>1 DEF compare, config_compare, Trusted, RecordAgrees,
               ConfigAgrees, Accepted
    <2> QED
        BY <2>1, <2>2
<1>5. CASE erase
    BY <1>5 DEF erase
<1>6. CASE write
    <2>1. ~settled
        BY <1>6 DEF write
    <2>2. CASE flash' = Part(app_config, 3) /\ provStep' = "run" /\ settled' = Trusted
        BY <1>6, <2>2 DEF write, Part, Trusted, RecordAgrees, ConfigAgrees, Accepted
    <2>3. CASE provStep' = "err" /\ UNCHANGED settled
        BY <2>1, <2>3
    <2> QED
        BY <1>6, <2>2, <2>3 DEF write
<1>7. CASE power_cut
    <2>1. settled => UNCHANGED flash
        BY <1>7 DEF power_cut
    <2> QED
        BY <1>7, <2>1 DEF power_cut, RecordAgrees, ConfigAgrees, Accepted
<1>8. CASE change_files
    BY <1>8 DEF change_files
<1>9. CASE withdraw
    BY <1>9 DEF withdraw
<1>10. CASE UNCHANGED provVars
    BY <1>10 DEF provVars, RecordAgrees, ConfigAgrees, Accepted
<1> QED
    BY <1>1, <1>2, <1>3, <1>4, <1>5, <1>6, <1>7, <1>8, <1>9, <1>10 DEF ProvNext

\* However often the power is cut, and wherever: a board that has connected
\* and written its record never again opens the window between the erase and
\* the write, unless the files change or the cloud refuses its device.
THEOREM RecordIsLeftAlone == ProvSpec => []RecordLeftAlone
<1>1. ProvInv => RecordLeftAlone
    BY DEF ProvInv
<1> QED
    BY ProvInvInit, ProvInvStep, <1>1, PTL DEF ProvSpec

\* Nor does such a board enrol a second device.
THEOREM EnrolsOnce == ProvSpec => EnrolledOnce
<1>1. ProvInv /\ [ProvNext]_provVars
      => [settled => \A d \in Devices : registry[d] = None => registry'[d] = None]_provVars
    <2> SUFFICES ASSUME ProvInv, ProvNext, settled, NEW d \in Devices, registry[d] = None
                 PROVE  registry'[d] = None
        BY DEF provVars
    <2>1. CASE read_certs_and_connect
        BY <2>1, SettledConnects DEF read_certs_and_connect
    <2>2. CASE withdraw
        BY <2>2, ProvisionAssumption DEF withdraw, None
    <2> QED
        BY <2>1, <2>2 DEF ProvNext, read_files, read_record, compare, erase, write,
           power_cut, change_files
<1> QED
    BY ProvInvInit, ProvInvStep, <1>1, PTL DEF ProvSpec, EnrolledOnce
=============================================================================
