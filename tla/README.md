# TLA+ models of the 9261 gateway

The gateway is a C program for an ARM board.  It joins a web server, reached
over a DTU on `ttyS2`, to data collectors, transformers and relay boxes on a
Zigbee network behind `ttyS1`.  The models follow the files at the root of the
repository.  `all_start0628/` is a build of 28 June beside it: there `main.c` starts
the Zigbee task itself and leaves the replay out, the length of a frame is compared
with both bytes, and the control code looks at the state of a device before it
writes to it.  That control code is modelled too (`ControlStart`).  `main.c:71` of the root has the start of the Zigbee task commented out; the log
that is checked in and the rest of the code show it running, so the models start
it, one second after the DTU task, as the line would.

## 1. The system

| Part | Source | State it keeps | Operations | Meets the others through |
|---|---|---|---|---|
| DTU thread | `task_ttys2_dtu_web.c` | `jsonroot`, `Buf_Recv`, the collecting buffer, `flag_lost_connect_to_web` | read loop, `Recv_Function` with some 20 commands | `sharemem.json`, `configinfo.json`, `Buf_Recv`, the flag, the port |
| Zigbee thread | `task_ttys1_zigbee_dev.c` | `Buf_Recv`, `Buf_Send`, the cursors of `Get_*_Json_Data` | drain of relay commands, polls, `Send_Function`, timed control, upload | `sharemem.json`, `Buf_Recv`, the database |
| Shared memory file | `json_function.c` | `sharemem.json`, `pthread_mutex_this` | `GetJsonObject`, `SaveJsonToFile`, `Create_Sharemem_Json`, `Save_Control_To_Json`, `Get_Controller_Json_Data`, `cjson_from_config_to_sharemem` | both threads |
| Configuration | `json_function.c`, `task_ttys2_dtu_web.c` | `configinfo.json`, `jsonroot` | set / get / delete of collectors, relay boxes, thresholds, address | read by the Zigbee thread and by the control code |
| Store and forward | `sqlite3.c` | two tables, `serialnumber`, `serialnumber.txt`, `serialmax`, `serialmin`, `post_serial_change` | `save_data_to_sqlite` (Zigbee thread), `get_data_from_sqlite_to_web` (main loop) | the flag, the port, `serialnumber` |
| Watch of the connection | both thread files | `time_begin`, `flag_3s_count`, `flag_lost_connect_to_web` | 30 s without a byte, a round every 6 s | the wall clock, which the web may set |
| Control | `task_ttys1_zigbee_dev.c` | `buf_control_dev_by_time` | `auto_control_dev` (main loop), `control_dev_by_time` (Zigbee thread) | both files, the Zigbee port |
| Update | `launcher.c` | `/job/...`, the USB stick | `function_for_launcher` every 10 s | reboots everything |
| Log | `log.c` | `log.txt`, `log_mutex` | `xh_log`, rotation | every thread |
| Vendored | `cJSON.c`, `crc16.c` | none | parse, print, CRC | modelled by what the callers use |

What is hard about it: four threads in one process share files and globals with
hardly a lock; every operation on `sharemem.json` is read, edit, save, and only
the save is locked; the power may go at any moment while the two files and the
database survive; serial lines cut, damage, delay and join frames; and commands
of the web are answered before a device has seen them.

What makes each part correct:

* shared memory file: an acknowledged relay command reaches its box, in order, in one message
  that is only repeated before the next one, and no other box; the collectors that are polled are the
  configured ones; the file can be read again after a save; relay commands do not starve the polls;
* store and forward: a stored row stays until it has been sent, the oldest goes
  first, and everything is sent once the web is back;
* serial loops: what passed the CRC is what is acted upon, commands are neither
  reordered nor repeated, `Send_Function` comes back;
* update: nothing half unpacked is installed, an update on the stick gets to run;
* configuration: what is answered is on disk, what is deleted is gone, ids are unique,
  what the web was told is set is what it reads back and what the control uses;
* control: a device gets the command its own rule asks for on a real measurement of this
  round, a whole one, in a code of its kind, and gets it in the end;
* readings: no measurement under another name, whole uploads, no deleted collector back;
* watch: the alarm means silence, an outage is noticed, uploads keep their pace;
* log: a rotation loses nothing, the size is bounded, who logs comes back.

## 2. Plan

Done, in this order: `ShareMem`, `StoreForward`, `SerialPorts`, `Launcher`; then
`Mailbox` with the refinement `ShareMemMailbox`, `ConfigStore`, `Control` and
`ControlStart` over `Greenhouse`, `Settings`, `Readings`, `FrameBuffer`, `LinkWatch`,
`LogFile`; and the proofs `ShareMemProofs`, `ConfigStoreProofs`, `SettingsProofs`, `GatewayProofs`
(`SerialPorts`, `LogFile`, `Launcher`), `DtuProofs` (`LinkWatch`, `FrameBuffer`), `UploadProofs`
(`StoreForward`, `Readings`), `ControlProofs` and `ControlStartProofs`.

Left:

1. `Gateway`: `LinkWatch` with `StoreForward`, sharing the connection flag
2. `cJSON` arrays as linked lists against the sequences the models use; CRC16
3. a proof of `HandledInOrder` of `FrameBuffer` (see the end of section 6)

Which module uses which: `MC*` modules instantiate; `Control` and `ControlStart` extend
`Greenhouse`; `ShareMemMailbox` extends `ShareMem` and instantiates `Mailbox`; each
`*Proofs` module extends the modules it is about.  So that one module of proofs can extend several
components, `SerialPorts`, `Launcher`, `FrameBuffer` and `Readings` have the name of the component in
those of their specification (`SerialSpec`, `LauncherTypeOK`, `readingsVars`, ...).  `ShareMem` and `ConfigStore` overlap on
purpose: the first has the two files and the races between threads, the second the
tree in them; `SerialPorts` has the receive loop with the other thread, `FrameBuffer`
alone with bytes.

## 3. The modules

### ShareMem (`MCShareMem`: its instances for TLC)

`file` is the content of `sharemem.json`, or `Torn` between the `fopen "w+"` and the
`fclose` of a save.  `lock` is `pthread_mutex_this`.  Each thread has a place
(`wpc`, `zpc`) and the private tree it is working on (`wcopy`, `zcopy`).
Reading is one step (the tree is parsed from one `fread`); saving is two, *open*
and *close*, and overlapping saves are allowed exactly where the code allows
them: `Save_Control_To_Json`, `Create_Sharemem_Json`, `Get_Controller_Json_Data` and
`cjson_from_config_to_sharemem` lock, `CMD_SET_DPINFO`, `CMD_DEL_DPINFO`, `CMD_SET_DPCONTROL`
and `CMD_DEL_DPCONTROL` do not.  The order of their two saves is the code's: the
delete commands write `configinfo.json` first, the set commands `sharemem.json`.

| Action | Code |
|---|---|
| `RelayRead`, `DtuOpen`, `DtuClose` | `CMD_CONTROL_RELAY`: `Save_Control_To_Json`, then the echo, also when the file could not be read |
| `ConfigStart`, `ConfigRead`, `ConfigOpen`, `ConfigClose` | the four configuration handlers |
| `DtuBoot`, `DefaultSave` | start of the DTU thread |
| `ZigbeeBoot` | `cjson_from_config_to_sharemem` |
| `DrainNext`, `DrainEnd`, `DrainIdle` | the loop over `Get_Controller_Json_Data` (`cursor` is `json_temp` and `next_controller_id`) |
| `SendEntry`, `SendAgain`, `Answer`, `NoAnswer` | `Send_Function`: the write, `goto write_fd_again` as long as nothing answers (`zwrites`, three writes at most), its two ends |
| `PollNext`, `PollEnd` | the polls |
| `ZigbeeOpen`, `ZigbeeClose` | the locked saves of that thread |
| `Spill` | a stream that prints more than its buffer holds while another is open |
| `Restart` | power cycle |

A relay command is its number of arrival and its box.  The data of a device is one
bit, "there is data".  `acked`, `executed` (all writes to a box, the repeated ones too) and `served` (the
boxes written to in this turn of the loop) are observations.  `fresh` and `raced` say
whether some save has overwritten what its writer had not read, or a read met a torn
file: that is the classical lost update, the code does nothing against it, and
the strong properties are stated for behaviours where it has not happened (`~raced`).
`CommandsOnTarget`, `OneMessagePerTurn` and `LockedSaveExclusive` hold with all races, and are proved for
all of them.  `RelaysLeaveReadable` holds, and is proved, while only the saves with the lock are used.

Two streams on the file at once (`mixed`): each was opened with "w+" and writes from its own offset, whole
blocks while it prints and the rest when it is closed.  Until both are closed the file may be cut or a
mixture; the later close leaves its own tree, or the other's, or something that cannot be parsed (`Left`).

Abstracted: text behind the root object is ignored, as cJSON does; a read of a torn file fails (the file is empty,
cut or mixed).  A poll leaves no trace of how often its question was written.

### StoreForward

`table` is the set of rows of `transformerdata` and `collectordata`; a select yields them in
the order of insertion, which within a table is the order of their samples.  The
statements that touch them are one action each, so that the Zigbee thread (`Insert...`,
`CountUp`) and the main loop (`ReplayMax` to `DropCollectorAndAdvance`) interleave at
every SQL statement; `pthread_mutex_ttys2_this` is held by the replay but not by the save.
`serialnumber` is shared, and the count query of the replay writes it (`ReplayCount`,
`callback`).  `data` is the row selected last and survives a select that finds none.
The limits 1999, 19999 and 20000 are constants.  `flag` 0, 1, 2 is
`flag_lost_connect_to_web`.  `Restart` keeps the tables and `serialnumber.txt`.
`clash` records that a row was stored under a serial that was still in its table, or while
a replay pass was under way.  `Beyond` caps `post_serial_change`: no row has that
serial.

Left out: SQL errors, the format of the messages (only which row is in them), a missing
`serialnumber.txt` (it is part of the repository), snapshots that cannot be taken
because the file is torn (a round without a save), and the up to 30 s of uploads into a
dead link before the loss is noticed (see LinkWatch).

### SerialPorts (`MCSerialPorts`: two interchangeable commands)

A frame is a fore and an aft half, the aft one with the CRC and the final `0xbf`.  A line
delivers a frame whole or with one half lost; `read` returns any prefix of what has
arrived and stores it in `Buf_Recv`, the *one* array both files define.  The memset, the
read, the CRC check and the use of the array are separate actions of each thread.  The
DTU thread parses `Buf_Recv` in place when the length fits (`WholeFrame`) and its
collecting buffer otherwise; `Send_Function` retries (`writes`, `j`) and collects damaged
answers with `strncat`, which stops at the first zero byte (`NulDevices`, `Catenable`), while
`buf_strcat_bad_string_len` counts what was read (`zlen`): a string shorter than that count is
judged with the zero bytes behind it (`Padded`).  The CRC is taken to tell a whole frame from any
mixture.  A device answers each request once at most, so `CallsEnd` does not speak of one that never stops sending: its
reads are not empty, and only empty ones are counted.

### Launcher

The archive on the stick (`card`), its copy (`normal`), the unpacked directory (`org`),
`/job/system` with or without an inner `system_org`, and `/job/system_old`, absent, plain or
with a system inside.  Each shell command is an action that may also fail (`Fault`); `mv`
behaves as mv does on directories that exist, and that failure needs no fault.  A power
cut leaves a part of the file being copied or unpacked.

### Mailbox and ShareMemMailbox

What the file promises the web about relay commands, with no file in it: an echoed command is sent to its
box in one message, the commands of a box in the order of their echoes, and none that was not echoed.  A
message may be repeated, up to `MaxWrites` times in all, but only until another is sent.
`ShareMemMailbox` maps the echo to `Acknowledge`, the first write of a merged entry to
`Deliver`, the others to `Repeat`, the end of the wait to `Settle`, a power cycle to `PowerCycle`; a race is `Break`, after
which the mailbox promises nothing until the next power cycle.  `ImplementsMailbox` is the whole of it, with the fairness of
the delivery.

### ConfigStore (`MCConfigStore`)

`jsonroot` is the tree of relay boxes in memory, `config` the same in `configinfo.json`,
`share` the box list of `sharemem.json` (entries with an `id`).  A command edits `jsonroot` at once, as the
handlers do, and leaves `todo`, the steps until the answer: `Truncate` and `WriteTree` are the
two halves of a save, `ShareAdd` and `ShareDel` the edit of the other file, `Reply` the
answer.  A power cut may fall before each of them.  What the boxes other than the one a
command names have in common with the tree before it is stated by pairs of them that stand in
this order (`Others`).  Deleting while iterating, linking a freed
device and null pointers are modelled as they are: `Drop`, `Put` and `Printed` do what the
functions of cJSON do to an array, `Die` is the death of the process, a freed device prints
as anything or kills it, and so does XML without a `<d>` or an attribute that is used unasked (`BrokenXml`), before
the tree is edited.  The codes of the answers are the code's.  `a6` of a box is taken to be its `conid`.  Not here:
attributes that are only stored and printed.

### Settings (`MCSettings`)

Collectors, thresholds, version and address, in memory and on disk, with the same `todo`.
`promise` keeps for each item the last value the web was told is set; it is given up by a
command that died or was cut off without an answer, or by a file that was found torn.
`ControlReads` is `Get_Collecter_id` in the main thread, which reads the file while it is
written.  Light thresholds keep their two bytes, as the first byte is compared with 8
and the shift is a comparison in one place.  What `CMD_SET_DPINFO` and `CMD_DEL_DPINFO` do
to `sharemem.json` is in `ShareMem`; here it is one step.

### Greenhouse, Control (`MCControl`), ControlStart (`MCControlStart`)

`Greenhouse` is what both builds read and drive: configuration, measured quantity, time of
day, switches, and what the last poll has shown of them.  A device heeds the codes of its kind only
(`Heeded`, `common.h:45-49`): 0x22 and 0x33 a solenoid valve, with one relay; 0xee and 0x11 a motor, with more.
`Control` is the root build:
`auto_control_dev` walks the devices with a command buffer that is cleared once a call
(`abuf`, with the measurement it was based on), sends in every round, and does not look
at the state; `control_dev_by_time` closes by a tree it may not have read (`ttree`, `tread`), and has the codes of
the two kinds the wrong way round (`TimedCode`).
`ControlStart` is the build of 28 June: both look at the shown state first, and a time needs two colons.
The automatic control of *both* writes `strlen` bytes of a frame, so a frame with a zero byte in it (its box, its device, a
command that was never set, or the CRC) is cut there, each time it is written (`Whole`); which frames have a zero in
their CRC is the constant `ZeroCrc`, for TLC the frames among those of the run for which CRC16_Change has one.
The main loop and the Zigbee thread interleave at every frame and, on 28 June, between the measurement and the
look at the state; a frame may be lost, and either file may be read in the middle of a save (the argument `torn`).
The numbering of the status bits is taken to be right in each build.

### Readings (`MCReadings`)

The measurements in `sharemem.json`: the round of the Zigbee thread (`cursor`, `asked`), the two
read commands, the upload by itself, and collectors that are set and deleted meanwhile.
The read operators use the index of the code, which goes on from where the
copy of the data has left it: `NextPlace` is one turn of their loop, `Walk` all of its places.
`WithData` is the loop of the upload.  The loops are recursive functions over the places of the list.
`Send_Function` takes any frame that passes the CRC for the answer: an answer to an earlier request (`late`, one at
a time) ends the wait for another device, or comes in the wait for a relay box, between the rounds (`LateInTurn`).  Data is filed
under the id in the frame, and in the list of its kind.  Every access to the file is one step, as its races are
`ShareMem`'s; the list of transformers is fixed (it is the list of boxes of the boot).

### FrameBuffer (`MCFrameBuffer`)

The bytes that have arrived (`line`), the collecting buffer (`buf`), and a read that takes any
number of them: `Whole` parses a read that is as long as one short frame, `Collect` appends,
empties the buffer at the guard (`strlen`, so up to the first zero byte) and parses it when it
ends with `0xbf`.  The CRC tells the frames that were sent from everything else; CRC bytes that
happen to be zero are not told apart from others.  `char` is unsigned, as in the ARM
build (with a signed one nothing would ever equal `0xbf`).

### LinkWatch

One unit of time is 3 s.  Only differences of clock values are kept, modulo the range of
the milliseconds: `sinceByte` for the DTU thread, `sinceRound`, `last` and `count` for the
Zigbee thread (`last` starts with any value: it is not initialised).  `AdjustTime` sets the
clock under both, `Tick` lets time pass once both threads have looked, or while a round polls,
up to `MaxSlow`.  `silence` and `quiet` are the true times.  The largest loss `MostLost` is tight.

### LogFile

`log.txt`, `log-old.txt`, the buffer of the stream, and what `ftell` is about to say
(`position`): after `fopen "a+"` the C libraries differ, so both are possible.  `Owner` is the
code under `log_mutex`; `OpenFails` and `MoveFails` are the two errors it meets.  An entry
counts 1.

## 4. The runs

| Run | Bounds | What it shows |
|---|---|---|
| `sharemem` | 1 collector, 2 boxes, 2 commands, 1 configuration command, 1 poll a turn, 3 writes, 1 restart; `FewRaces` | with races: `CommandsOnTarget`, `LockedSaveExclusive`, and a box gets one message in a turn (`OneMessagePerTurn`); with relay commands only: the file can be parsed (`RelaysLeaveReadable`); without races: `NoLossWithoutRace`, the polled collectors are the configured ones (`StateInSync`), and relay commands are delivered in order, repeated only before the next, in the end (`ImplementsMailbox`) |
| `store_forward` | limits 2, 3, 4; 4 snapshots, 2 outages, 1 restart | `RowsKept`: no row goes unsent without a clash; `OldestFirst`; `FirstOutageDrains` |
| `serial_ports` | 2 commands, 1 device, 1 request, 3 damaged parts; `FewWrites` | `ActsInOrder`; `CallsEnd`: `Send_Function` returns, and not before its third write |
| `launcher` | 4 updates, 2 faults, 2 power cuts | `NeverPartial`, `SystemPresent`, `RebootsIntoUpdate`, `FirstTwoInstalled` |
| `config_store` | 3 boxes, 2 devices, 3 commands, 1 power cut, three initial trees | `StoreSound`: ids are unique, the disk follows the memory, what is deleted stays so; `OthersUntouched` |
| `settings` | 2 collectors, 3 commands, 1 power cut | `SettingsKept`: what was promised holds in memory and on disk; `SettingsSeen`: the web and the control read it |
| `control` | root build, 1 device of each of 7 kinds; 2 levels, 2 times | `FromThisRound`; `DevicesFollow`: rules, unless the frame is cut, and a command for each device that is off in its window |
| `control_start` | build of 28 June, 1 device of each of 8 kinds; 1 restart | `Justified`; `DevicesFollow`: rules, unless the frame is cut, openings and closings |
| `readings` | 2 collectors, 2 transformers, 2 commands, two initial lists, one late answer at a time | `ReadingsSound`: no data under another name, whole uploads; `NoneAdded`; `ComesToFit` |
| `frame_buffer` | 2 of three frames, joined, cut, damaged anywhere | `InStep`: no end waits, one frame in a row is lost at most; `HandledInOrder`; `PiecesMakeWhole` |
| `link_watch` | limit 3, period 2, range 16 units, rounds of 1, the clock set once, by 5 or by half the range | `AlarmIsSilence`, `LossAndTimeBounded` until it is set; `NoticesAndGoesOn` always |
| `log_file` | 2 threads, 7 entries, limit 2, 2 failures or power cycles in a row | `LogSound`: rotations lose nothing; `SizeBounded`, `CallsReturn` |

Some properties are conjunctions of named parts, which can be put in a cfg one by one: `StoreSound`
is `TypeOK`, `UniqueIds`, `DiskMatchesMemory` and `DeletedStaysDeleted`, and so on.

Why the bounds are enough.  Two commands for one box merge in one entry, one for the
other box, or after the snapshot was taken, makes a second.  The serial limits keep their order
(1999 < 19999 < 20000) and are small enough that numbering at boot, the jump of the replay
and the wrap all happen within four snapshots; two outages are the least with which
numbering starts anew while the replay position stands.  Two frames suffice to swap or
repeat commands, one request with three writes to get late and duplicate answers.  Four
updates go once through every state of `/job/system_old`.  `MaxEmpty` (500 in the code) is
0: the counter only delays the retry.  In `ConfigStore` and `Settings` a third command is the first
that can meet what a delete and a set have left; three boxes are the fewest of which deleting
while iterating leaves one that is not the last.  The configurations of `Control` hold each kind
of device (valve or motor, thresholds or windows, a missing rule, no collector); devices meet only
in the command buffer, which `ControlStart` clears, and `ControlPair.cfg` and `ControlStartPair.cfg` put two behind each other; the levels
lie below and above the band, and the closing command of one motor is a frame that is cut.  In `Readings` a second
late answer would differ from the first only in its place.  In `FrameBuffer`
lengths count in fours where the code counts in 256, guard and capacity are 15 and 20 where they
are 500 and 512, so a frame of either length form takes few bytes.  In `LinkWatch` the
limit is longer than the period and half the range longer than both, as in the code; one set
of the clock suffices to wrap.  A limit of 2 entries and 7 calls are three rotations.
Deadlock is not checked where, with the environment silent and the bounds used up, a model stops.

Two runs have a state constraint, and it also cuts the behaviours their liveness properties see.
`FewRaces` follows a race only among two commands of the web and up to the next power cycle: all that is cut has
`raced`, about which the mailbox promises nothing; what is promised with races is seen there in full
in `ShareMemRaces.cfg`.  `FewWrites` follows a request that is still
being written when the web falls silent for good only to its first write; the retries are seen while a command
is yet to come.

Larger instances, started by hand as `tlc -config X.cfg M`: `ShareMemRaces.cfg` with
`MCShareMem` (every race of two commands and a configuration command, boxes alike, 7.1 million states),
`ControlPair.cfg` with `MCControl` (`FromThisRound` with two devices) and `ControlStartPair.cfg` with `MCControlStart` (`Justified` and
`DevicesFollow` with two).

Fairness.  `DtuProgress`, `Zigbee`, `Replay`, `Save`, `Web`, `Sending`, `Update`, the loops of
`Control`, `Readings`, `FrameBuffer` and `LinkWatch` are weakly fair: they are endless loops
of threads of one process that wait for nothing but a lock and short sleeps.  `Owner` and
`Enter` in `LogFile` are: the code under the mutex runs, and a mutex that is released is handed
on.  What the web, the user, the link and the power supply do is never fair.  In `ShareMem` weak
fairness also covers the wait for the lock: a save of the DTU thread never keeps it for good, and between two relay
commands of the web it is free for much longer than a wait of the other thread takes to be woken.  That commands are not served for ever at
the cost of the polls is not left to the bound on them: `OneMessagePerTurn` is a safety property of each turn.  Strong fairness is used for three things: time goes on
(`LinkWatch`); a frame that is written again and again gets through at last, and a file that is
read again and again is not in the middle of a save every time (`Control`, `ControlStart`) - a frame that strlen cuts never
does, fairness or not; and a collector
that is asked again and again answers (`Readings`).  A failing `mv` of the log succeeds in the end
(`MaxOverdue`): while it fails, and the library reports the size after `fopen`, `get_fp` does
spin with the mutex held.

## 5. What the code does not keep

These statements are what a text of the repository, or the purpose of a function, asks for, and TLC
refutes them.  They are in the modules as properties, and each has a small instance; a cfg that
names several is to be run with one at a time, as TLC stops at the first.

| Statement | `tlc -config` | What happens |
|---|---|---|
| `NoRowLost`, `README.md:8`: the database prevents loss | `StoreForwardClaims.cfg StoreForward` | serials are numbered from the row count of one table at boot and, through the count query, during a replay; they collide, and a row is deleted unsent |
| `Drains`, the same line | `StoreForwardClaims.cfg StoreForward` | rows numbered behind the replay position are never selected |
| `ActsOnPerfectData`, `RecordsPerfectData`: "DATA is perfect, crc16 ok" | `SerialPortsClaims.cfg MCSerialPorts` | the other thread changes `Buf_Recv` after the check |
| `EveryUpdateInstalled`, `README.md:7`: updates by USB | `LauncherUpgrade.cfg Launcher` | the third one ends inside the directory of the second |
| `AnsweredIsStored`, `ClearAllClears`, `GetAnswers`, `common.h:63`, `:39`, `:28` | `ConfigStoreClaims.cfg MCConfigStore` | an unknown box is answered with success; clearing leaves every second box; reading back a device kills the process |
| `LightReadsBack`, `ThresholdsCanBeSet`, `common.h:20`, `:19`; `ControlHasRule`, `task_ttys1_zigbee_dev.c:262` | `SettingsClaims.cfg MCSettings` | light thresholds go to keys nothing reads; those of a collector the web has configured cannot be set, and absent ones count as 0 |
| `LastSaverLeavesReadable`, what `pthread_mutex_this` is for | `ShareMemClaims.cfg MCShareMem` | the configuration handlers save without it: two streams on the file leave a mixture |
| `OwnRule`, `Measured` | `ControlClaims.cfg MCControl` | root build: a device without a rule gets the command of the one before it; a missing measurement counts as 0 |
| `WholeFrames`, `AllFollow`: `0xbf` ends a frame | `ControlClaims.cfg MCControl`, `ControlStartClaims.cfg MCControlStart` | both builds: a frame is cut at a zero byte (box 1, device 7, 0x11: `a5 5a 01 05 02 07 11 bc 00 bf` ends before the zero), so such a device is never closed |
| `TimedOpens`, `TimedCloses`: "nowtime should open dev", "nowtime should close dev" | `ControlClaims.cfg MCControl` | root build: valves are sent the code of motors and motors that of valves; no motor is closed when its window ends, and the test for the others is inverted (28 June: right) |
| `TimesReadable` | `ControlStartClaims.cfg MCControlStart` | 28 June: a time with one colon is a null pointer |
| `UploadsBehindHeader`, `ReadsAllCollectors` | `ReadingsClaims.cfg MCReadings` | an upload overwrites the length in its own header; the reused index skips collectors |
| `ReadsEnd` | `ReadingsClaims.cfg MCReadings` | with five collectors of one type, the fewest, a read does not end |
| `FitsBuffer` | `FrameBufferFits.cfg MCFrameBuffer` | the guard of the collecting buffer stops at a zero byte (four frames, a minute) |
| `ParsedWhole` | `FrameBufferParsed.cfg MCFrameBuffer` | a piece of a long frame is taken for a whole one (28 June compares both bytes) |
| `AlarmTruthful`, `UploadsSteady` | `LinkWatchClaims.cfg LinkWatch` | setting the clock looks like silence and stops the uploads |
| `ReadingsKept` | `LinkWatchClaims.cfg LinkWatch` | what is uploaded before an outage is noticed is in neither place |

## 6. Theorems

For all values of the constants.  Each module of proofs has one inductive invariant, or a few that
build on each other, and one step per action under the theorem or lemma that it is kept.

`ShareMemProofs`, from `BoundsAssumption` (the bounds are natural numbers) and `TornAssumption` (a
half-written file is not a tree):

* `TypeCorrect`, `Spec => []TypeOK`.  `TypeOK` is inductive by itself; the work is in
  lemmas that each operator on trees (`AddCommand`, `Recorded`, `Edited`, `FromConfig`)
  returns a tree.
* `LockedSavesExclude`, `Spec => []LockedSaveExclusive`.  The property says nothing about
  the lock, so it is not inductive; `LockInv` adds that the lock belongs to the DTU
  thread exactly when it closes a relay save and to the Zigbee thread exactly when it
  closes a save.
* `TargetsKept`, `Spec => []CommandsOnTarget`.  `TargetInv` states the same of every copy of
  the command array, the file, both private trees, the snapshot and the entry in hand,
  since any of them may become the file by a racing save.
* `RelaysReadable`, `Spec => []RelaysLeaveReadable`.  Whether the close of a stream leaves a tree depends on whether
  the other thread had the file open; `RelaysInv` says that while the web only switches relays nobody has it open without
  the lock, so no streams mix, and that between the boot and the next power cycle a file that is torn is being saved.
* `OneMessageEach`, `Spec => OneMessagePerTurn`.  `TurnInv` adds that what is left of a snapshot has one entry for a box
  and none for a box that was served in this turn: what the web adds goes to the file, which a walk does not look at again.
* `NothingLostWithoutRace`, `Spec => []NoLossWithoutRace`.  That a command is somewhere is not inductive: it may
  be in a tree that is never saved.  `LossInv` says where it must be: in the file and in every
  tree that is about to be saved and is still `fresh` (`SafeInFile`, `SafeInDtu`, `SafeInZigbee`), and, while
  a walk's snapshot is what the file holds, ahead of the walk (`SafeInWalk`), so that
  the array may be dropped at its end; when the file is torn, one of these trees is being saved
  (`TornBySaver`).  Lemmas say that `AddCommand`, `Head` with `Tail`, and `SendEntry` lose no command.
* `CollectorsKeptInSync`, `Spec => []StateInSync`.  The polled collectors agree with the configured ones
  only between two commands; `SyncInv` says of every tree on its way to the file which of the two
  lists it carries, and how far the command under way has got with `configinfo.json` (`RequestKept`).
* `MailboxSafely`, `Spec => Mail!Safety`: the file implements `Mailbox`, apart from fairness: until a race the messages of a box
  bring each echoed command in its order, and a message that is written again is the last one.  The
  initial states map to initial states, and under `MailInv` each action maps to a step of `Mailbox` or to a stutter
  (`MailStep`).  A delivery has to be the oldest of its box, so `MailInv` adds to `LossInv` and
  `TargetInv` that the commands wait in the order of their arrival in each copy of the array, one
  entry per box, and that all that was delivered is older (`Waits`).

`UploadProofs` about `StoreForward`, from `LimitsAssumption` (the three limits in their order):

* `StoredRowsKept`, `Spec => []RowsKept`.  `KeptInv` adds that without a clash a serial names one row
  of its table, and that what the next delete removes has been written to the web (`SentBeforeDrop`):
  the select, the write and the delete are steps apart, and rows are stored between them.
* `OldestRowFirst`, `Spec => OldestFirst`.  `OrderInv` follows the numbering up to the second
  outage: serials rise with the samples (`SerialsInOrder`), nothing has been replayed while rows are still stored
  (`NothingReplayed`), and the next number is that of the next sample (`Numbered`).

`UploadProofs` about `Readings`, from `ReadingsAssumption` (the ids of collectors and transformers are
kept apart, as the two lists and the commands for them do, and there are finitely many transformers) and
`PackedAssumption` (the absence of data is not data; a configuration names every collector once and has no data):

* `ReadingsAreSound`, `ReadingsSpec => []ReadingsSound`: the lists name every device once, the data under an id in
  the file, in an answer and in an upload was measured by that device, and an upload carries all that has data, once, in
  the order of the list.  `ReadInv` adds what a round remembers of lists that have changed meanwhile
  (`Asking`): a transformer that is asked is still in its list, a collector need not be, and an answer that is on its
  way is one its sender could have given (`Sound`), whenever it comes.  What the loops of the
  upload and of the read commands make of a list of any length is proved for all their places at once: a set of
  places that has 0 and with each place the next has them all (`UpToLast`), so `WithDataFacts` says what is selected
  and `WalkFacts` that the read commands pass through places only.
* `DeletedStayAway`, `ReadingsSpec => NoneAdded`: an answer is filed under an id that is in the list, so it
  brings no deleted collector back.

`GatewayProofs` about `SerialPorts`, from `PortsAssumption` (the sentinel of a zero byte and the answers of devices are not commands):

* `SerialTypeCorrect`, `SerialSpec => []SerialTypeOK`, with what each thread has in hand (`HandsOn`): only what
  passed the CRC is handed on; `GivesUpLate`, `SerialSpec => GivesUpAfterThree`, follows from it.
* `CommandsInOrder`, `SerialSpec => []ActsInOrder`: relay commands are acted upon once and in the order the web
  sent them, whatever is lost and in whatever pieces they are read.  `StreamInv` looks at everything on its way
  as one stream: what is collected is behind what has been acted upon and before what is still on the line
  (`LinesInv`, `CollectedInv`), and so is the command in hand (`InHandInv`).  The array both
  threads share belongs to the stream only between the read of the DTU thread and its use
  (`SharedInv`); the Zigbee thread may put an answer there, which is not a command.

`ConfigStoreProofs`, from `ConfigAssumption` and `TreeAssumption` (the installed configurations are trees with unique ids):

* `StoreIsSound`, `Spec => []StoreSound`.  `StoreInv` adds what the steps still to do promise (`Promises`):
  a file that is truncated will be printed, an answer comes last, what a deletion is about to be
  answered for is no longer in memory; and that deleted devices are not in memory either
  (`Forgotten`).  The lemmas say what each edit of an array leaves (`Put`, `Drop`, `Edited`), a
  deletion inside the loop that iterates over it included.
* `OthersAreUntouched`, `Spec => OthersUntouched`: a command leaves all other boxes as and where they were.

`SettingsProofs`, from `SettingsAssumption` and its `TreeAssumption`:

* `SettingsAreKept`, `Spec => []SettingsKept`.  What was promised is in memory and on disk between
  two commands only.  `SettingsInv` allows for the command under way: the thresholds of the collector
  it is about are those promised or its own (`Keeps`), what its answer will promise is in memory
  (`Owed`), what its answer will tell is what is promised (`Told`), and the file that is torn is printed next (`Plan`).
* `SettingsAreSeen`, `Spec => SettingsSeen`, from the same invariant.

`ControlProofs`, from `GreenhouseAssumption` (the configurations are configurations, with 1 to `N` devices):

* `ControlTypeCorrect`, `Spec => []TypeOK`: whatever is polled, lost or switched by hand, both loops stay
  within the configured devices;
* `CommandsOfTheRound`, `Spec => FromThisRound`.  Nothing in the program tells whose command the buffer of
  `auto_control_dev` holds.  `OfThisRound` says that as long as it is not cleared, a rule of a device the
  loop has passed asks for what it holds; it is cleared at the start of a round only, so the first command of
  a round is of the device it is sent to.

`ControlStartProofs`, from the same and `RestartsAssumption`: `StartTypeCorrect`, `Spec => []TypeOK`, and

* `CommandsAreJustified`, `Spec => Justified`.  Between the look at a device and the write, the measurement, the
  shown bits and the switches may change; `WellFounded` says that what is in the buffer then is what the rule of this
  very device asks for on the measurement kept with it.

`DtuProofs` about `FrameBuffer`, from `FramesAssumption` (a frame states its length and ends with `0xbf`):

* `BufferInStep`, `BufferSpec => []InStep`, which is inductive by itself: the buffer never ends with `0xbf` and is never
  above the guard as a string, and a frame that comes in one read can only be lost to what was collected before it, which is
  gone with it.  The lemma behind it, `FrameOfFrame`, is that a frame begins with no other frame, as its
  length is part of it.

`DtuProofs` about `LinkWatch`, from `WatchAssumption` (limit and pace are below half the range of the milliseconds):

* `TypeCorrect`, `Spec => []TypeOK`, with the differences staying within an int;
* `AlarmAfterSilence`, `Spec => []AlarmIsSilence`: until the clock is set, `sinceByte` is the
  true silence as far as that is counted;
* `LossIsBounded`, `Spec => []LossAndTimeBounded`.  `PaceInv` relates the counter of the Zigbee thread to the
  time that has passed in each of its places (`Paced`), so that each upload lost since the last byte took a
  period (`LossInv`); with the alarm at the limit that bounds their number.

`GatewayProofs` about `Launcher`, from `UpdatesAssumption` and `NoneAssumption` (no file is not a firmware):

* `SystemWhole`, `SystemStays`, `RebootsInto`: `NeverPartial`, `SystemPresent` and `RebootsIntoUpdate`.  `UpdateInv`
  holds them together: from unpacking to the second move `/job/system_org` is the whole copy
  (`Unpacked`), and `ret` remembers whether the place of the system was free (`RetTells`).
  `LauncherTypeCorrect` is `LauncherSpec => []LauncherTypeOK`.

`GatewayProofs` about `LogFile`, from `LogAssumption`:

* `SizeNearLimit`, `Spec => []SizeBounded`.  `SizeInv` adds that a file that may be reported as empty, or is
  about to be printed to, has room for one more entry.
* `LogIsSound`, `Spec => []LogSound`.  `LogInv` adds that old file, file and buffer, one behind the other, rise
  (`KeptInOrder`), and that an entry which is in none of them was lost to a power cut, is still
  to be printed, or is older than all of them (`Accounted`): only then a rotation, which drops the old file, drops the oldest.

That a set of numbers has a least or largest member (`Min`, `Max`) is got from the well-foundedness of `<`
(`NatLeast`, `LeastNumber`, `LeastMember`).

Only model-checked.  `HandledInOrder` of `FrameBuffer`: the CRC is modelled as telling the frames that were sent from
everything else, but what is left of damaged frames, put together, may contain another frame byte for byte; it does not
for the frames of the run, and an assumption that says so for all frames and all damage would be the property
itself.  And all liveness, which is out of the prover's reach: the delivery half of `ImplementsMailbox`,
`FirstOutageDrains`, the half of `CallsEnd` that calls return, `FirstTwoInstalled`, `DevicesFollow`, `ComesToFit`,
`PiecesMakeWhole`, `NoticesAndGoesOn`, `CallsReturn`.

## 7. Not modelled

Port settings, libxml2, the wording of XML, log levels, the build (no behaviour of
interest); CRC16 and cJSON (vendored, taken at their contract, apart from the array functions in
`ConfigStore`); of the build of 28 June everything but its control.  The heap and the descriptors:
`GetJsonObject` and its callers leak trees, files are left open on some error paths, and the stack buffers
of the relay commands are 16 bytes; the runs are far shorter than what it takes.  Two hazards of the list have no property that
holds, as what they ask for is refuted (section 5): the index that two loops of a read share, and the timed closing of the root build.  Undefined behaviour that is left out: `trans_point` and `coll_point`
when an array is missing, the eight bytes read from `serialnumber.txt` without a
terminator, and the `va_list` that `xh_log` uses twice (harmless on ARM).
