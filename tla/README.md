# TLA+ models of the S5D9 diagnostics firmware

The firmware of the S5D9 IoT board samples its sensors, publishes their
aggregates to Medium One's cloud over MQTT, takes commands from the cloud,
updates itself over the air, and exposes its QSPI flash to a USB host. It runs
on ThreadX with FileX, NetX and USBX. These modules model the parts in which
several threads, interrupts, time and failing devices meet; TLC checks them on
small instances, and TLAPS proves the central results for all instances.

Paths below are relative to the repository; the code is under `src/`.

## Inventory

| Component | State | Operations | Interacts through |
|---|---|---|---|
| net_thread (`net_thread_entry.c`) | `start`, `actual_flags`, `sample_period`, `g_update_firmware`, `app_config` | provision, connect, main loop: update, sleep, request, collect, publish | `g_sensor_event_flags`, shared `sensors[]`, suspends and resumes system_thread, FileX |
| sensor threads (`bmc_`, `ens_`, `ms_`, `adc_thread_entry.c`) | own `agg_t`s, zero crossings, FFT sums | sample, copy thresholds, transfer, reset | event flags, `sensors[]`, I2C bus, `m1_publish_event` |
| aggregates (`agg.c`) | `agg_t` | `update_agg`, `transfer_agg`, `reset_agg`, `update_threshold`, threshold test with rate limit | called by the sensor threads |
| m1_callback (thread of the MQTT client) | the message | S, T, L, B, G, U commands | `sample_period`, `sensors[]`, event flags, `tx_thread_wait_abort(&net_thread)`, LEDs, RTC, GPIO |
| sensor_scheduler (timer interrupt) | `ticks` | request samples | event flags |
| ADC callback (interrupt) | min, max, counts, `sample_buf` | batch, FFT batch | `sound_level`, `sample`, event flags |
| system_thread (`system_thread_entry.c`) | network objects, `app_config` | open the media, set the network up, read the credentials, start net_thread, flush for ever | FileX media, USB, `g_usb_qspi_active` |
| QSPI media driver (`qspi_filex_io_driver.c`) | `last_subsect_num`, `last_subsect_data`, the flash | read, write, flush | called by FileX under its media mutex and by the USB storage class without it |
| stdio over FileX (`fx_stdio.c`) | tables of drives and open files, one semaphore | fopen, fclose, fread, fwrite, remove, ... | FileX |
| I2C bus (`i2c.c`) | the bus mutex, the slave address | transfer, retry | sensor threads, the SSP driver's blocking calls |
| MS5637, ENS210 drivers | coefficients, low power | measure in steps, check the CRC, read the identity | I2C bus, sleeps |
| Bosch drivers (`bma2x2.c`, `bmm050.c`) | copies of registers, trim values | a getter and a setter per field, power modes, measurements | I2C bus |
| LEDs (`led.c`, `rtc_callback`) | `led_state`, `n_blinks`, `leds_to_toggle`, `count` | set, toggle, blink | every thread and the RTC interrupt |
| GPIO thread (`gpio_thread_entry.c`) | `g_irq_event_flags` | report interrupts | two interrupts, `m1_publish_event` |
| firmware update (`net_thread_entry.c`, loop) | `g_update_url`, `g_update_hash`, `g_update_firmware`, `loaded.txt`, `update.txt`, the image | suspend system_thread, download, name the image, reset | m1_callback, system_thread, FileX, boot loader |
| provisioning (`net_thread_entry.c`, start) | `app_config`, `provisioned_config`, the record at 0x40100000 | merge, connect or enrol, compare, erase and write | the files, the cloud, the data flash |
| agent library | – | binary | results are inputs of the models |

Priorities (from `configuration.xml` and the thread attributes; a smaller
number preempts a larger one): MQTT client 6, net_thread 14, system_thread 19,
sensor and GPIO threads 20, time sliced.

What makes each part correct:

- collection: every sample is in exactly one published aggregate, aggregates
  are whole, a hung sensor thread gets the board reset;
- thresholds: a command is never forgotten between its two writes, its flag and
  the copies;
- pacing: requests are a sample period apart, through wraps of the clock; a new
  period is in force at once;
- media driver: it is a block device, whatever fails and whenever power is cut;
  what is written reaches the flash;
- firmware update: the reset finds a whole image under the name the boot loader
  looks for; every attempt ends, with a reset or with system_thread running;
- provisioning: a board that is enrolled stays so, through power cuts and errors,
  and does not enrol again;
- stdio: every entry of the table has one owner, handles name the file that was
  asked for, every call returns;
- I2C: transfers reach their own device whole, and end;
- microphone: no window is lost or torn between the callback and the thread;
- drivers: settings survive one another and failing transfers; success means that
  nothing failed (not so for the accelerometer's eight-bit readers); a value comes
  from the measurement that was asked for.

The hard behaviour is concurrency (preemption between any two accesses to data
shared without locks), aborted waits, failing devices, power cuts, and unsigned
tick arithmetic. `PROJECT.json` lists the hazards line by line, with the
properties that cover them.

## Modules

| Module | Models | Composed of |
|---|---|---|
| `SensorCollect` | main loop of net_thread, loops of the sensor threads, S, T and U commands | refines `AggregateDelivery` |
| `AggregateDelivery` | abstract: take samples, close aggregates, publish | |
| `SamplePeriod` | lines 780-783 of net_thread, the tick interrupt, the S command | |
| `QspiCache` | the media driver's cache, its callers, faults and power cuts | refines `BlockDevice` |
| `BlockDevice` | abstract: a write-back block device with power cuts | |
| `FirmwareUpdate` | U and S commands, net_thread's update, system_thread's flushes, the files, resets, power cuts | |
| `FxStdio` | the table of open files, its semaphore, every file function | |
| `Provision` | start-up with credentials, enrolment, the record in the data flash | |
| `I2cBus` | transfers of several threads, retries | |
| `RegisterField` | bit fields of registers: the BITSLICE macros | |
| `Bma2x2`, `Bma2x2Fields` | settings and power modes of the accelerometer; the table of its fields | `RegisterField` |
| `Bma2x2Data` | decoding accelerations and temperature | |
| `Bmm050`, `Bmm050Data` | states, presets, trim values, self test of the magnetometer; its measurements | `RegisterField` |
| `Ms5637`, `Ens210` | the sequences of the pressure and the humidity sensor | |
| `Microphone` | the ADC callback, the buffer it shares with adc_thread, the spectra | |
| `MCMedia` | bench: the media and its users | `QspiCache`, `FirmwareUpdate`, `FxStdio` |
| `MCNetThread` | bench: net_thread's start and its loop | `SensorCollect`, `Provision` |
| `MCParts` | bench: the sensors and their bus, net_thread's pace | the driver modules, `I2cBus`, `Microphone`, `SamplePeriod` |
| other `MC...` | the same modules as TLC runs them (symmetry, comments on the instance) | |
| `..._proofs` | theorems and their proofs | extend the module and TLAPS |

A bench checks modules that do not share state in one run: a variable names the
part that moves, the others stand still in one state. It adds nothing to them;
its fairness is theirs for the part that moves. What two parts have in common is
modelled in each as the other shows itself to it: `FirmwareUpdate` has its own
media, of files that are in FileX or in the flash, and `FxStdio` its own FileX.

Definitions named "mutant" in a comment are deliberately wrong versions of the
definition after them. They are used nowhere: they show that a property can fail.

### SensorCollect

`g_sensor_event_flags` holds, for each sensor, the request (0x0F), complete
(0xF0), threshold and sample bits. `netPc` and `threadPc` are program counters;
a step of a sensor thread is one copy of a field of an aggregate or one call to
ThreadX, because net_thread (priority 14) can preempt a sensor thread (20) at
any point while the reverse is impossible: `NetBlocked` is where net_thread gives
up the processor, and every action of a sensor thread requires it. Interrupts and
m1_callback take steps at any time.

`total` and `count` are each the set of sample numbers they include, so that
torn, lost and double-counted aggregates are visible. `min`, `max`, `value` and
the zero crossings are copied between the same steps and say nothing more. The
several aggregates of one thread are one, but for the threshold of `voice_fft`:
`sensors[]` has an entry for it, T commands are accepted for it and flagged
(`net_thread_entry.c:151`, 231-246), and adc_thread calls `update_threshold` for
`mic` only (`adc_thread_entry.c:142-144`). `Entries` names it, `VoiceFft`, beside the
sensors; the threshold a T command gives it stays where it is, and `ThresholdApplied`
does not speak of it. `SensorHang` is a blocking call of the SSP driver
(`i2c.c:112-133`) that does not return. Each T command is three steps (two
writes, then the flags), U is two (the flag, then the abort).

`tx_thread_wait_abort` ends a sleep or a flag wait with an error that net_thread
does not look at. `waitAborted` records that it hit the collection wait; the
properties `Handshake`, `ExactlyOnce`, `SnapshotWhole` and `SharedStable` hold
until then (for `AggregateDelivery` an event has then been forced), and the run `collect_aborted` shows what happens after it.

### SamplePeriod

One variable for each of the program's, with unsigned arithmetic modulo
`Modulus`, the sleep as a timer that the tick interrupt counts down, and a step
for each of the two reads of `sample_period` in line 781. The histories `passed`,
`worked` and `slip` count the ticks of a round, those seen by line 780, and those
that come while the sleep is being computed, which the code cannot see.

### QspiCache

One step is one access to the flash or to the cache. A page holds one sector
(in the chip two pages make a sector; the driver programs all pages of the unit
in order either way). `FairSpec` and `SerialSpec` are the behaviours in which
calls do not overlap, which FileX's media mutex guarantees for its own requests
and nothing guarantees against the USB host. `Spec` lets them overlap.
Programming without an erase gives any value. A failed erase may or may not have
erased: `Erase` erases in both cases, and a failed status read after a real erase
is the case that matters; a power cut leaves each access done or not done.

### FirmwareUpdate

`netAt` names the statement of net_thread's update (lines 748-779) it is about to
execute, `systemAt` says whether system_thread is inside `fx_media_flush`. FileX's
mutex is the variable `mutex`: system_thread's flush takes it in one step and gives
it back in another, and can be suspended in between; net_thread's calls are one
step, because nothing that uses FileX can preempt it (system_thread has the lower
priority and is suspended, the USB host is let in at line 778). `cached` and
`stored` are the files as FileX and as the flash have them, and every operation of
the media may fail. m1_callback preempts net_thread, so a command is one step; U of
type 1 and S abort a sleep, or the wait for the mutex, where FileX returns an error.
A restart starts from `stored`.

`flushFailed` records that the flush in fclose failed, which nobody reports
(FX_DRIVER_FLUSH drops the result): `ResetFindsUpdate` holds but for that.
`UpdateEnds` holds but for `StuckInFlush`: that is a real deadlock, in which
net_thread waits for the mutex of a thread that it has suspended itself, until a
command aborts the wait. It is why deadlock is not checked in this run. An fopen whose
truncation fails may leave the file open in FileX (`fx_stdio.c:235-259`), and every
later fopen of update.txt then fails.

What the code forgets is in the model and in no property, as nothing promises
otherwise: a U command that comes during an update is dropped with it (line 774), an
update.txt whose write failed is never closed (762), a failed flush is not reported.
The same holds for `Provision`: power that is cut between the erase and the write of
the record loses it.

### FxStdio

`at` says where each caller is: waiting for the semaphore, inside, or in fopen
between the search, the claim of an entry and the opening. The semaphore is a
counter with a queue, as ThreadX has it. `modeOf` and `fxFile` are the two parts of
an entry that can disagree: when fopen's truncation fails after its open, the entry
becomes free while FileX still has the file open. Contents are sequences of
newlines and other characters, so that `FgetsReads` and `SeekBounded` say
something about positions. fgetc and fputc are fread and fwrite of one character.

### Provision

A credential is where it comes from: a project of m1config.txt (with its
registration user), the device of m1user.txt, or a device that the cloud enrolled.
`read_record`, `compare`, `erase` and `write` are the statements of net_thread's
start; the library's connection tries the device and then enrols, or fails. A write
of the record may be cut after any of its parts. Files may change whenever the USB
host is let in, which is as soon as net_thread has been resumed. `settled` is the
history the properties are about: the last start connected, its record is whole in
the flash, and since then neither the files changed nor the device was refused.

### I2cBus and the drivers

`I2cBus`: a request of a thread takes the mutex, sets the controller's one slave
address, does its parts and gives the mutex back, up to three times; the address is
shared state, so that a part that goes to the wrong device is visible in `heard`.

`Bma2x2` and `Bmm050`: a byte is the set of its bits. A step is one call of the
driver, because only bmc_thread calls them, but inside it every transfer may fail: a
failed write may or may not have reached the chip, a failed read leaves its variable
as it was. `Bma2x2Fields` is the table that some 60 pairs of functions instantiate; the
three ways in which they write (a slice of what was read, a whole register, a slice
with a copy in the driver) are three operators of `Bma2x2`. In `Bma2x2Data` and
`Bmm050Data` the chip measures while the driver reads, so that mixing bytes of two
measurements would show. `ReadingHonest` is about what a reader of several transfers
returns. `compensate` leaves out what the compensation computes, but not what each
axis tests before it: X and Y the trim value `dig_xyz1` (`bmm050.c:1895`), Z also
`dig_z1` and `dig_z2` (2126-2129), in integers and in floating point, whose marks
differ. The divisor of Z (2134-2139) is a sum that nothing tests; `DivisorIsZero` says
when it is zero, and the output is then `NO_QUOTIENT`.

`Ms5637` and `Ens210`: a wait of some milliseconds is what `WaitMsec` makes of it: a
number of ticks of 10 ms, of which the first may come at once. A value is what it
was made from (which conversion, which coefficients), not a number.

`Microphone`: a sample is its number, and a window the sequence of its samples, so
that a buffer the callback has written into during the transform is not the window
that was filled. The transform works in place, one element a step, and the interrupt
comes between any two. `due` holds the windows that are full and in no average yet.
When the thread is late a level is overwritten and the later one may be counted
twice; no property is about it.

## Runs

| Run | Shows | Bounds |
|---|---|---|
| `net_thread` | samples are split exactly once, aggregates are whole and stable, and the protocol implements `AggregateDelivery`; S, U and group U commands at any time; the credentials are written once and enrolled once | 2 sensor threads, 2 samples each, 1 command; 2 projects, 2 devices, 2 power cuts |
| `collect_thresholds` | an update is never forgotten between its writes, its flag and the copies, and it is applied | 2 sensors and `voice_fft`, 2 U or T commands: the second T can overtake the first; no samples, which thresholds do not meet |
| `collect_delivery` | every sample is published, or the board reset; a sensor thread that is dead, because its device failed to start or a transfer hangs, gets the board reset | 2 sensors, 1 to 2 samples each, 1 command, S or group U: an S can end the wait for a hung thread |
| `collect_aborted` | finding: an aborted wait publishes what was not received | |
| `period_torn` | finding: two reads of `sample_period`, a sleep of almost 2^32 ticks | clock of 16 ticks |
| `qspi_device` | the driver implements `BlockDevice`, and what is written is flushed, with faults and power cuts; an update is durable and ends; the table of open files | 2 units of 2 sectors, 2 calls of up to 2 sectors, 2 mishaps; 2 commands, 2 faults, 1 power cut; 2 callers, 2 entries, 4 names |
| `qspi_race` | finding: flush and USB write race | calls of 1 sector |
| `qspi_failed_read` | finding: a unit that failed to be read counts as cached | calls of 1 sector |
| `parts` | the drivers, their bus, the microphone and the pace: settings, measurements, transfers, windows; requests are on time, through wraps and commands | 2 calls and 1 failing transfer (accelerometer), 3 calls (magnetometer), 5 sets of trim values, 2 threads with 3 requests (bus), 3 samples with 2 or 3 faults (pressure, humidity), 8 samples in windows of 3 and batches of 2 (microphone); clock of 8 ticks, periods 0, 2, 4, 5, work up to 5 ticks, 2 commands |
| `accel_eight_bits` | finding: the accelerometer's eight-bit readers return success for axes they have not read | 2 measurements, 1 call |
| `update_concurrent` | finding: net_thread uses FileX while system_thread is suspended inside it | 2 commands, 2 faults |
| `provision_fallback` | finding: a refused device of m1user.txt hides the enrolled one | 2 projects, 3 devices, 2 power cuts |

Why the bounds are enough:

- Two sensor threads are enough for one to run ahead of the other within a round;
  four behave alike because threads touch only their own flags and aggregates.
- Two units are enough for the cache to hold another unit than the one addressed,
  and two sectors for a unit to be half written back.
- Two U commands are enough for the second to come during the update of the first,
  with the other release; two faults for the flush in fopen and that in fclose to
  fail, or for a write to fail twice in a row; one power cut per attempt.
- Two entries and two callers: the table is full when both hold one, and a caller
  waits for the semaphore in every state of the other. Net_thread makes every call,
  system_thread opens and closes, one of its names being on a drive that does not
  exist. A file of two characters, of which one is a newline, and buffers of two and
  three make lines end in each of the four ways.
- Two devices and two power cuts: an enrolment that is kept although a second device
  could be had, and one that is lost in a power cut or an error and replaced by the
  second. A third device is in the run `provision_fallback`.
- A clock of 8 ticks wraps within every few rounds, and work of 0 to 5 ticks is shorter
  than, equal to and longer than a period.
- Trim values that are usable; one of the three zero at a time; and a divisor of Z that
  is zero though none of its parts is.
- A setting of the accelerometer meets a second one, of the same register or
  another, of which one transfer fails; arguments below, at and above the range of
  a field. The magnetometer needs three calls to go through power-off and back, and
  34 transfers for its longest call, the self test. Eight samples of the microphone
  fill two windows and start a third, while a batch ends at each place of a window. Two threads on the bus make
  three requests: one is tried again while the other waits.

Deadlock is checked except in `qspi_device` (the bound on calls ends a behaviour,
and `StuckInFlush` is a real one), `update_concurrent`, `provision_fallback`
and `accel_eight_bits` (violations), and `parts` (the bounds on calls end a behaviour).

## Fairness

`SensorCollect!Fairness`: every thread that can run takes a step (ThreadX runs
the ready thread of the highest priority and slices among equals; the MQTT
client and net_thread block often). There is none for a device: a transfer may
fail, or never end. For net_thread it includes that an update, once started,
ends and that `m1_publish_event` returns. `QspiCache!FairSpec`: system_thread
flushes at the latest every 200 ticks (`system_thread_entry` lines 445-449) and a
call goes on. Mishaps are bounded: a flash that fails for ever is never flushed.
So are calls, and with them the time that FileX's mutex keeps system_thread out.

`FirmwareUpdate!UpdateFairness`: net_thread takes a step when it can, and so does
system_thread; none for commands, faults and power cuts, which are bounded. The
download ends, with or without success (the library has time-outs).
`FxStdio!StdioFairness`: a call that is not waiting goes on; the semaphore's queue
does the rest. `I2cBus!BusFairness`: the same for a transfer, whose calls of the SSP
driver return (when one does not, see `DeadSensorReset`). `Microphone!MicSpec`: adc_thread has
its time slice; publishing returns.

## Findings

1. `collect_aborted`: an S or U command during the collection wait makes
   net_thread publish torn, stale or repeated aggregates.
2. `period_torn`: `sample_period` is read twice in line 781, and the abort of the
   S command is lost on a thread that is not asleep yet, so that net_thread sleeps
   for almost 2^32 ticks.
3. `qspi_race`: the cache has no lock between FileX and the USB host.
4. `qspi_failed_read`: the cache keeps the number of a unit it failed to read.
5. `update_concurrent`: line 751 suspends system_thread also inside
   `fx_media_flush`; the update then waits for a mutex whose holder cannot run.
6. `provision_fallback`: the enrolled device in the data flash is never tried when
   m1user.txt names another, contrary to lines 501-504.
7. `accel_eight_bits`: `bma2x2_read_accel_eight_resolution_xyz` and `_xyzt` assign the
   result of each transfer where the other readers add it (`bma2x2.c:741-758`,
   8570-8593), so that they return success when an axis was not read, contrary to
   lines 723-725. The program itself reads with other calls.

Met while modelling, and not the subject of a run:

- `ms5637_is_connected` asks for a transfer without data, which the bus never
  makes: it is always true (`ms5637.c:102`, `i2c.c:254`), and a missing sensor shows
  only when its reset fails. `Ms5637` has it so.
- `bmm050_read_bmx055_remapped_mag_data_XYZ` takes the upper byte of Y for X (the
  layout is noted at `bmm050.c:507-508`), and the remapped readers miss the mark of
  an overflow in the swapped axes; `MagDecoded` is about the straight readers.
- `bmm050_set_functional_state` writes back what a failed read of 0x4C left in its
  variable; the copy of the FIFO setting is stale after a soft reset.
- A T command for `voice_fft` is accepted and its threshold never used (see
  SensorCollect).
- The divisor of `bmm050_compensate_Z` and its s32 and float forms is not tested, and
  trim values exist for which it is zero at some resistance.
- fopen with "w" whose truncation fails frees the entry of a file that FileX keeps
  open: the lowest entry then fails every later fopen. remove on a drive that is not
  registered writes through an uninitialized pointer; nobody calls it so, and the
  model excludes it. fseek forward from the end writes `offset - size` bytes,
  unsigned. fgets returns NULL at the end of a file also when it has read something,
  which `get_line` allows for.
- With mode "a" the status of fopen's seek replaces that of its open
  (`fx_stdio.c:250`), so that where such a "w" has left its file open, fopen of another
  file for appending succeeds with a handle on the first. TLC shows it with one
  entry and modes "w" and "a"; nothing in the repository opens with "a".
- The sleep "to let file system updates flush" (767) flushes nothing, as the thread
  that would is suspended; fclose has flushed before. The result of fclose is not
  looked at. After a failed fwrite, update.txt stays open and every later update
  fails until a restart.
- With a device in m1user.txt that the cloud refuses, each start enrols a new one
  and rewrites the flash. A record that was cut off reads as credentials of 0xFF.

## Proofs

All are in the `_proofs` modules and hold for every value of the constants that
satisfies the module's assumptions.

- `SensorCollect_proofs`: `Typing`; `HandshakePaired` (`Handshake`), `SamplesOnce`
  (`ExactlyOnce`) and `SnapshotsWhole` (`SnapshotWhole`), all from the inductive
  invariant `CollectInv`. `ExactlyOnce`
  alone is not inductive: that a transfer happens once per round follows from the
  handshake, that it transfers everything from what is already copied at each
  program counter. `CollectInv` says, for each sensor, which parts of the shared
  aggregate agree with its own at each step of the transfer. `Stability`
  (`SharedStable`) and `Refinement` (`DeliverySpec`) follow from the same
  invariant, `Thresholding` from `TypeOK` alone.
- `SamplePeriod_proofs`: `Typing`, which needs that a sleeping thread has ticks
  left; `Punctuality` (`OnTime`), from `PaceInv`, which relates clock, start and
  the ticks passed at every program counter. It assumes that work takes fewer
  ticks than the clock counts (`MaxWork < Modulus`), without which the elapsed
  time would be ambiguous.
- `QspiCache_proofs`: `Typing`, also for overlapping calls; `Refinement`, that
  `SerialSpec` implements `BlockDevice!Spec` if no read of a whole unit fails. The
  invariant `CacheInv` says that at most one call is under way and, for each of
  its program counters, which pages of the flash hold what the cache holds.
- `FirmwareUpdate_proofs`: `UpdateDurable` (`ResetFindsUpdate`), from `UpdateInv`. By
  itself the property says nothing of how the files got there; the invariant follows
  the image and its name from the download into the cache (`ImageSaved`,
  `NameWritten`) to the flush, and needs that system_thread stays suspended from line
  751 to the reset (`SystemStands`). Restarts and failed flushes are lemmas of their
  own.
- `Provision_proofs`: `RecordIsLeftAlone` (`RecordLeftAlone`) and `EnrolsOnce`
  (`EnrolledOnce`), from `ProvInv`: while `settled`, the record is whole, the cloud
  accepts its device, the files say nothing else (`RecordAgrees`), and from reading to
  comparing `app_config` is the record (`ConfigAgrees`). It assumes that an empty
  string is no device.
- `FxStdio_proofs`: `EntriesOwned` (`SlotsOwned`), from `StdioInv`: one thread is
  inside at most, the queue holds the waiting threads once each (`Exclusion`), the
  entry that fopen works on is free until it claims it, and that of fclose is the
  caller's (`Entries`). It holds for all outcomes of FileX's operations, also those
  that leave a file open in a free entry. `HandlesNamed` (`HandleNamed`), from
  `FileInv`, which says when the file in an entry is open and on which name; it
  assumes that nothing is opened with "a" (see Findings). `SeeksBounded`
  (`SeekBounded`). `LinesRead` (`FgetsReads`): what the loop of fgets has
  read after k rounds is proved by induction over k. The library's theorem of
  induction cannot be instantiated here, so the module proves its own, `Induction`,
  about a set of numbers that holds 0 and the successor of each of its members.
- `I2cBus_proofs`: `DevicesOwned` (`OwnDevice`), from `BusInv`: a thread between its
  get and its put owns the mutex (`OwnerTransfers`), the queue holds the waiting
  threads once each (`QueueWaits`), and while a part is under way the controller has
  the owner's address (`AddressSet`); `AnsweredWhole` (`TransferWhole`), from
  `WholeInv`, which says at each step what the attempt has sent so far. No thread may
  be called "none", the name of no owner.
- `Drivers_proofs`, about registers with arbitrary contents. Its first section
  proves once what every driver relies on: a field of a register reads back as it is
  written, and fields in other registers or other bits stay. From that,
  - of `Bma2x2`: `SettingsKept` (`AccelKept`) and `PowerModeKept` (`ModeKept`), from
    `AccelInv`. `AccelKept` is not inductive: some
    setters take the FIFO register from the driver's copy, so that the invariant
    says that every known field of that register is in the copy as well (`CopyKeeps`);
  - of `Bma2x2Data` and `Bmm050Data`: `AccelerationDecoded` (`AccelDecoded`) and
    `FieldDecoded` (`MagDecoded`), for every value an axis has and all trim values,
    with the lemmas on two's complement in two bytes they need. `FieldDecoded` does not
    say that nothing is divided by zero: it says that this happens to Z only, and only
    when its divisor is zero;
  - of `Bmm050`: `MagSettingsKept` (`MagKept`), `FunctionalStateKept` (`MagInState`) and
    `TrimsWhole` (`TrimWhole`), from `MagInv`: what is known of a field is what the chip
    holds, nothing is known of a chip that is off, and the operation mode is the one
    wanted. A call is a chain of transfers, settings and calls; for each link a lemma
    says what it sets, what it leaves (`Setting`, `Changes`), and that a failure before
    it is not forgotten (`After`), so that a call without a failure in the end had
    none in any link;
  - of `Ms5637`: `SamplesSound` (`PressureSound`); `SamplesAnswered` (`PressureAnswers`)
    under `WaitsLongEnough`, that a sleep is at least as long as a conversion. It is
    at the resolution the program uses (5: a sleep of 40 ms, four ticks, lasts 30 ms at
    least, and a conversion 17). At resolutions 0 to 4, which it never asks for, the
    sleep is one tick, which may end at once;
  - of `Ens210`: `PowerRestored` (`LowPowerRestored`) and `ValuesFresh` (`ValueFresh`);
  - of `Microphone`: `WindowsHandedOver`, for every size of the FFT: a window that
    the interrupt filled is kept until the thread has averaged it (`WindowsKept`), and
    nothing else is averaged (`AverageWhole`), from `WindowInv`, which relates the
    interrupt's place in the buffer to the thread's turn.

Only model-checked: the liveness properties (`SampleDelivered`, `DeadSensorReset`,
`ThresholdApplied`, `Flushed`, `UpdateEnds`, `CallsReturn`, `RequestAnswered`,
`WindowsAveraged`), for
fairness is out of the prover's reach.

## Not modelled

- The LEDs and blinking (`led.c`, the B and L commands), and the GPIO thread:
  each touches nothing but its own pins or events. `PROJECT.json` lists what can go wrong in them.
- The threshold test and its rate limit (`agg.c`), the averages and the sensors'
  compensation formulas: floating-point numbers, or products of large ones.
- The bits of the CRCs of ENS210 and MS5637: a CRC tells whether bytes are the chip's.
- The parsing of a message into commands; G commands.
- The choice of the network and the set-up of NetX, TLS and MQTT: sequences of
  library calls, whose failures end in the error state or are not looked at.
- FX_DRIVER_BOOT_READ and BOOT_WRITE; `_fx_stdio_drive_register`, called once; stdio
  without a mounted media, when its semaphore does not exist.
- The parts of bma2x2.c that are compiled for other chips.
- The agent library, the boot loader, NetX, FileX, USBX and ThreadX, which are
  external, and generated configuration; formatting of events and logs.
