# A TLA+ model of the antenna control unit firmware

The repository is the firmware of an antenna control unit (ACU): an STM32F207
under uC/OS-III that points a satellite antenna. It drives three motors through
a separate power drive unit (PDU), reads three angle coders and a beacon
receiver, and takes commands from PCs (UDP, lwIP) and from an OLED panel.

This directory models the parts of it that are hard to test: tasks that share
state without locks, a serial link with timeouts, control that several parties
claim, a task that is called off while it drives motors, a log and a parameter
store that power may leave at any write. TLC checks small
instances, TLAPS proves the results that should hold for every instance.

**What is built.** The Makefile of `APP` at this commit compiles only a part of
`APP/src`: the motor, PDU, PC, panel, monitor, log, parameter and tracking
modules are in the tree and commented out of `SRCS`; `main.c` creates only the
shell task (the other creations are inside `#if 0`), `udpecho.c:96` has the call
of `APP_PCCOMM_Deal` commented out, and `APP_PDUCOMM_PDUDevStaQue`,
`APP_GPS_DataGet` and the `APP_MONITOR_*` functions have no caller. The models
are of that code as it stands in the source, with the tasks of `main.h` as the
processes. Which tasks use the PDU link is a parameter, since it is what the
configuration decides.

## Inventory

Paths are under `src/`.

| component | state | operations | correct when |
|---|---|---|---|
| semaphores: `BSP/src/bsp_os.c` over `uCOS/uCOS-III/Source/os_sem.c` | count, pend list | create, pend with or without timeout, post (always to all waiters) | nobody sleeps on an available unit; a binary semaphore excludes |
| PDU link: `APP/src/app_motor.c`, `app_pducomm.c`, `app_gps.c`, `HW/hw_pducomm.c` | two send semaphores, receive semaphore and buffer, `motor_move`, `link_stat` | start, stop, version, status, GPS; receive interrupt | one request at a time; an answer belongs to its request; every call returns; `motor_move` is true |
| control: `app_pccomm.c`, `app_oledcomm.c`, `app_monitor.c`, `app_pducomm.c` | `dev_admin_sta`, `DevAdmin`, three static counters | ask, withdraw, grant, refuse, two timeouts, PDU takeover and loss | the copies agree; the party in control is known; requests and silent PCs end |
| modes: `main.c`, `app_pccomm.c`, `app_oledcomm.c` | `SeekSat_Mode`, `dev_work_sta`, `Task_Run_Flag`, aims | select mode, turn, single step, goto record; three tasks | stopping stops; moves end; a mode has its task |
| soft limits, alarms, motor monitor: `app_monitor.c` | `motor_limit_sta`, counts, alarm bits | periodic check, high-alarm reaction, watch over standby | no motor turns for ever; a motor at its limit is stopped |
| log: `app_log.c`, `HW/ic_n25q128.c` | two areas of records and two of information slots in flash | save, scan and repair at power up, query | what was acknowledged is found after a reset, in order |
| parameters: `app_param_save_read.c`, `HW/hw_eeprom.c` | EEPROM, lists in RAM | save with read-back, search at power up | what was acknowledged is listed, also after power loss; numbers and lists agree |
| date and time: `app_datetime.c`, `HW/ic_ds1302.c` | clock | conversions, setting from GPS | valid dates map to valid dates |
| coders, beacon: `app_eleccoder.c`, `app_beacon.c` | link counts, measured values | request/answer | as the PDU link |
| tracking: `app_satellite_track.c` | search state | search and gradient steps | numeric |
| PC and panel protocols | buffers | framing, dispatch, queries | - |
| network port: `lwip-1.4.1/port/STM32/arch/uCOS-III/sys_arch.c` | mailboxes | post, fetch | messages are not lost |
| shell, buzzer, LED, watchdog, BSP, vendored kernel, lwIP, ST libraries | - | - | - |

**Interaction.** Command handlers (network thread, panel) and the monitor call
`Antenna_DriveStart`, `Antenna_DriveEnd` and `Antenna_AllDriveEnd`, which take
`APP_PDU_Send_Sem`, then `SWIFT_UART4_Send_Sem`, then wait on
`SWIFT_UART4_Rev_Sem` for the receive interrupt. Handlers create and delete the
tracking tasks and set a flag for the goto task. Control and mode are plain
fields of one global structure, written by four tasks. All tasks are preemptive
(lwIP 11-15, monitor 23, tracking 30-32; a smaller number is more urgent). The
two tasks that `OSTaskDel` removes make no PDU call (their tracking calls at
`main.c:300` and 826 are commented out); the goto task, which makes them, is only
told to end (its `OSTaskDel` at line 763 is commented out).

**Hard behaviours.** Posts that ready every waiter; answers after their timeout;
a return path that keeps a semaphore; a paused task that does not look at
its stop flag; test-then-write on the mode and the control record; operators and
PCs that answer what is no longer true; power loss between two writes. The full list is
`hazards` in `PROJECT.json`.

## Modules

| module | models | extends |
|---|---|---|
| `BspSem` | the semaphore operations, as operators on a record `[ctr, pend]` | - |
| `PduLink` | the PDU link | `BspSem` |
| `PduLink_proof` | proofs: types, semaphores, what an answer and `motor_move` mean | `PduLink`, `TLAPS` |
| `AdminControl` | control arbitration | - |
| `AdminControl_proof` | proofs: control | `AdminControl`, `TLAPS` |
| `GotoTask` | `TaskAntennaRecordGoto`, the motors, flags and mode it shares | - |
| `ModeControl` | commands and tracking tasks, composed with `GotoTask` | `GotoTask` |
| `ModeControl_proof` | proofs: types, motors at rest between rounds | `ModeControl`, `TLAPS` |
| `Monitor` | soft limits, high alarm and standby watch, composed with the modes | `ModeControl` |
| `Monitor_proof` | proofs: the overshoot is bounded | `Monitor`, `ModeControl_proof` |
| `LogStore` | abstract: what a log promises | - |
| `FlashLog` | the two logs in flash; implements `LogStore` on the first lap | instance of `LogStore` |
| `FlashLog_proof` | proofs: types, the refinement, queries | `FlashLog`, `FiniteSetTheorems`, `WellFoundedInduction`, `TLAPS` |
| `ParamStore` | satellites and antenna records in the EEPROM | - |
| `ParamStore_proof` | proofs: operators, types | `ParamStore`, `FiniteSetTheorems`, `TLAPS` |
| `ParamSats_proof` | proofs: satellites | `ParamStore_proof` |
| `ParamRecords_proof` | proofs: antenna records, numbers | `ParamSats_proof` |

### BspSem

A semaphore is its count and the set of waiting tasks. `SemPost` is
`OS_SemPost` with `OS_OPT_POST_ALL`, the option `BSP_OS_Sem_Post` always passes:
without a waiter it counts, with waiters it readies all of them and does not
count. A task that called pend is blocked exactly while it is in `pend`.

### PduLink

`pc[t]` is the place of task `t` in the call (the module's header lists them);
each place is a point where the code can block or be preempted with an effect.
*Lock tasks* go through `APP_PDU_Send_Sem` (`Antenna_DriveStart`,
`Antenna_DriveEnd`, the two polls); *direct tasks* do not (`APP_GPS_DataGet`, the
direction adjustment of `app_pccomm.c`). A frame is the request it carries or answers.
The code sees only the command bytes (`op`); `part` and `id` are there for the
properties. `Accepted` is each caller's test of the command bytes, including the
`&&` of `app_gps.c:135`. `Verdicts` says what a caller may conclude: with an empty
buffer the verdict is open, because the callers then test uninitialised stack; a GPS
answer may carry no position; and a version answer may have a length other than 32
(`app_pducomm.c:90`), upon which line 91 returns without posting `APP_PDU_Send_Sem`
(`LeavesUnposted`). `RxIsr` is the interrupt over a whole reply; behind an unread
frame it posts once per byte, as lines 156-166 of `hw_pducomm.c` do. The PDU and the
line (`PduExec`, `Lose`) are external: the PDU executes and answers in order, the
line may lose a frame, `Late` says whether an answer may be overtaken by its timeout.
Directions are the antenna's; `AntennaDirMapMotor` turns them into the motor's by a
fixed table that no property looks into.

Three history variables record what the properties need and no step reads: `alone`,
the tasks that began their exchange on a silent line (nothing on the wires, no unit in
`SWIFT_UART4_Rev_Sem`) and have had it to themselves since; `unsure`, the parts whose
last call failed or was not alone; `lost`, the units no task will post. `AckIsOwn`
and `MotorMoveIsTrue` speak of such exchanges *within* behaviours that have late
answers, losses, urgent frames and direct tasks: the condition is about one exchange,
not about the system.

### AdminControl

A handler reads the record when it starts and makes its writes one by one
(`todo[t]`), and any handler may be split by any other at any of them: the kernel is
preemptive, with round robin among equals, and a handler may block in its log entry. The
operator's grant and refusal (`OledAnswer`) test nothing, as in
`app_oledcomm.c:1644-1667`, so they may come when the request is gone or the PDU is in
control. The two counters of the monitor and the packet counter of `udpecho.c` are state.
`pc_admin_deal_sta` is left out: it is only written. A request sets it to 1, withdrawals and
timeouts clear it, the operator's answer leaves it at 1, although `devdef.h:450-452`
says it is 0 once the request was answered.

### GotoTask and ModeControl

`g` is the goto task with its locals; angles are integers in units of the code's
own comparison tolerance; the count of 1000 passes without movement is
`StuckLimit`. A call into the link is one step that succeeds, or fails with the
motor in either state, which is what `PduLink` shows a failed call to mean. A
handler (`h`) runs from one blocking call to the next, since it has a higher
priority than the three tasks; these can be interrupted anywhere. The handlers
of PC and panel are twins and modelled once. `TaskSatelliteTrack` and
`TaskSatGradientTrack` are modelled as they are: the tracking calls inside them
are commented out, so they leave their mode at once. A mode selection with a
value the handler has no branch for is `ModeSelOther`, with mode 4 for all of them.

### Monitor

A pass is `APP_MONITOR_DevHWSta` followed by `APP_MONITOR_DevMotorMonitor`; `m` is
the monitor's place and locals. Between two passes a driven part turns by one unit,
whether or not the monitor looks, and goes around at the ends: what stands between a
motor and the cable is the software. A part that is at a limit must be seen there in
`LimitCount` passes (3 in the code); the count is one for both limits and is not
cleared when the antenna changes from one to the other. The stop at a limit is tried
once, only if `motor_move` names the direction, and only when `motor_limit_sta` is
not yet set. A high alarm (a limit, a lost coder, a lost PDU) stops the motors and
then deletes each task that runs, and leaves the mode; a part that turns in mode 0 for
`TurnCount` passes (10) is stopped. The code makes that last comparison once a second
(`scan_cnt`, lines 1302-1305), the model in every pass. A driven part always turns here;
jammed ones are in `ModeControl`, as what these properties are about is motors that turn. The tasks of the modes run only where the monitor
blocks, handlers anywhere. Coders and the PDU link come and go (`LinkChange`).

### LogStore and FlashLog

The flash is a function from the addresses in use to cells; an information slot is one
cell, a record one or more, and programming can only clear bits (`Overwritten`). A save
is the sequence of reads, erasures and writes of `Save2Flash`, one action each; power
may fail in each (`Crash`, `Interrupted`), leaving the operation done, undone or torn.
`WriteDataBuff` writes and compares, and may find the write wrong (`MaxBad`).
`APP_LOG_Init` is `Scan`, `RepairErase`, `RepairWrite` and the soft reset. The repair of a log
without a good slot writes zeros in the code, and a total of 0 makes the next start take the first
values (lines 182-189); the model writes these values at once, and a start finds the same. The
test of the chip's id (lines 69-78) is left out: the chip is there. The two
wrappers around a save count failures (`TooMany`) and reset the MCU. Operation and
warning log are the same code with other addresses, and share the chip, the error
count and the semaphore.

`LogStore` is a sequence of records per log that only grows at its end, and a set of
acknowledged records that are all in it. The mapping is `log <- Stored`: what a start at
this moment would find, walking back from the newest slot. So `LogsKeepRecords` says
that whatever step power fails in, a start finds what was there, and at most the
record being saved besides.

### ParamStore

The EEPROM holds per list a number and records; `APP_PARAM_Init` builds the lists in
RAM. The two lists are searched differently: satellites until the stored number is
reached (`FoundSats`, the number then reduced to what was found), antenna records all of them.
A satellite or record is a number nobody else has, so that overwriting one with another shows.
A command runs from save to save; a save may fail having
written or not; records of two pages are written in two steps (`Straddling`); PC and
panel may have a command under way at once. A change of a satellite (`SatModify`) may name
any id, as `app_pccomm.c:346-398` tests nothing: of a satellite that is not listed, since
another PC has deleted it or the packet is late, it is counted in `count.stale`, stores the
satellite again and lists it without counting it. A start may fail to read the number of
satellites and takes it for 0 (`InitSatsBlind`, `app_param_save_read.c:47`, counted in
`count.blind`). The records are cleared by the adjustment of the coders
(`AntennaParamAdjust`, or `AntennaParamAdjustFails` when the coder map cannot be saved, upon
which nothing is cleared) and by the antenna parameters (`AntennaParamSet`, lines 464-477).

## Runs

All configurations say `CHECK_DEADLOCK FALSE`: inputs are bounded, and when they
are used up the system rests. "States" are distinct states.

Passing runs:

| run | configuration | shows |
|---|---|---|
| `two_lock_tasks` | `PduLinkTwo`: two lock tasks, a direct task, requests to start, stop and for the version, losses, late answers, an urgent frame, 3 requests; 6.2 M states | types, both mutual exclusions, no lost wake-up; a SUCC on a line of one's own is one's own answer; `motor_move` is then true; a unit kept is gone for good |
| `calls_return` | `PduLinkCalls`: the same tasks with stops, version queries and the GPS request; 505 k | every call returns, unless a version query kept the semaphore |
| `admin_any_order` | `AdminControl`: two PCs, 2 packets, one answer of the operator, 2 PDU changes, all handlers split by all others; 981 k | a PC that may command is watched; a unit under its own control can be asked; requests and silent PCs end |
| `goto_move` | `ModeMove`: two motors, angles 0..2, two failing calls, one command; 537 k | after a round the motors it started are at rest |
| `all_modes` | `ModeAll`: one motor, all commands (mode 4 by its own command only), two of them in any order, one failing call; 396 k | moves end, modes 3 and 4 are left |
| `limit_step` | `LimitStep`: one motor, angles 0..6 with limits 2 and 4, manual steps and modes 1 to 3, two commands, two failing calls, one change of a link; 936 k | no motor turns for ever; none passes a limit by more than the count allows |
| `limit_goto` | `LimitGoto`: the same antenna, a goto-record command, one failing call; 1.2 M | the same with the goto task and the alarm that deletes it |
| `log_lap` | `LogLap`: sectors of 2 cells, information areas of 2 and data areas of 6 sectors, 3 saves of 1 or 2 cells, one power failure while running, one record found wrong, 2 semaphore timeouts; 174 k | `FlashLog` implements `LogStore`, queries have no gaps, starts end |
| `param_store` | `ParamStore`: 3 satellites, 2 antenna records (one on two pages), 3 commands of PC and panel, 2 power failures, one failing save, one unreadable record, one start that cannot read the number, one overlap; 4.5 M | what is lost is bounded by the faults and by changes of satellites not listed; the numbers agree with the lists but for those changes and overlaps |

Runs that find a statement of the repository violated (`findings` in
`PROJECT.json` quotes each statement):

| run | property | what happens |
|---|---|---|
| `three_lock_tasks` | `PduMutex` | one post readies two waiters of a semaphore created with 1 |
| `log_wrap` | `SlotIsErased` | the information area is used a second time without erasing its first sector |
| `param_adjust` | `NoOldRecords` | power fails between the new coder map and the clearing of the records |

The models reach more states that a reader of the code may not expect, which have no
run of their own. Each condition in a property stands for one of them: without it TLC finds
a counterexample under the same configuration.

- `AckIsOwn` without `t \in alone`: two tasks transmit at once, or an answer came after its
  timeout, and the frame or the unit that is left is taken for the answer to the next request.
- `CallsReturn` without `lost > 0`: a version answer of another length, or a foreign one,
  ends a version query without its post (`app_pducomm.c:91`), and every later stop waits.
- `CanAskAgain` without `pduFails = 0`: a PC's request falls together with a takeover by the
  PDU and the loss of its link, whose handler ends the request and leaves its address
  (`app_monitor.c:941-957`); `APP_PCCOMM_PCAdminSet` then refuses every PC until the
  operator answers or control changes again.
- `SatsKept` without `count.blind = 0`: the start that took the number for 0 lists none.
- `SatsKept` without `count.stale` in `SatFaults`, `NumbersAgree` without it in its bound:
  a deleted satellite is changed; it is listed but not counted, and the query and the next
  start, which stop at the number, leave out another one, without any fault.

And these changes to a configuration give one:

- `LogLap` with `MaxCrashes = 2` and `BootCrashes = 1`: a power failure during the repair, between the erasure and the write,
  loses the log; with `BadAreas = {"info"}`: an acknowledged
  record whose slot was written at the second try is not found at the next start, since
  the scan ends at the spoilt slot before it; with `TornSlots = {"headless"}` likewise;
  with `DataSectors = 1` and `InfoSectors = 3`, so that the end of the data area is reached: the erasure ahead
  erases the first sector of the other log (all `LogsKeepRecords`).

Others are ordinary states of the models: a late grant takes control from the PDU, or gives
it to address 0 when the request is gone; a request made between two writes of the
monitor's timeout loses its address, so that `ASKING` stands with nobody asking until it times
out; `dev_admin_sta` and `admin_sta` differ with the PDU named in one of them only (never, at
rest, with `PC` in `admin_sta` alone: `PcIsWatched`); a request repeated within a
monitor period inherits the waiting time of the one before; a move that is called off
ends with its motor turning, or starts one after the handler has stopped them all
(`main.c:707`); the goto task sets the flag that its deletion has just cleared
(`main.c:416`); the tracking task, created before mode 2 is written, finds the old mode
and deletes itself; the start after a torn add drops the last satellite of the list.
They are in `hazards`.

**Bounds.** Three requests are what two tasks need for one to time out, the other
to use what is left over, and a third call to meet both; `ReplyBytes = 2` tells one
post from several. Two PCs, two packets, one answer and two PDU changes give every
pair of claims in every order, split anywhere; one tick stands for 15 s and for 5 min, since
the code only compares with a threshold. Three angles distinguish before, at and past the aim and
both limits; two failures are a failed call with its failed retry;
`StuckLimit = 1` tells "moved", "not moved" and "not moved for too long" apart.
Two angles beyond each limit are what the count of two passes may overshoot, and
`LimitCount = TurnCount = 2` tell "counting" from "counted". In `log_lap` three saves of
two sizes let a record end within a sector, at its end and in the next one, and one
more save follow each; the areas are large enough that no lap ends, as the property is about the
first lap. In `param_store` two power failures are one that tears a command and one
that shows whether the damage grows; three commands are a deletion, a change of what was
deleted and one that meets the result.

**Fairness.** Weak fairness of every task and handler: uC/OS-III runs every ready
task, each loop blocks in a delay, and pends on `SWIFT_UART4_Rev_Sem` have a
timeout. In `PduLink` a frame on the wire arrives or is lost. In `AdminControl`
the monitor, a periodic task, keeps ticking. Nothing is assumed of PCs,
operators, the PDU's claims or, in `ModeControl`, the motors, which may be jammed for ever. In `Monitor` the
monitor, a periodic task, keeps making passes, handlers finish, and each mode task runs
when the monitor blocks. In `FlashLog` the start and a save that
has begun go on. `ParamStore` states no liveness. `SilentPcLosesControl` uses that
the packets of a behaviour are bounded, so every PC falls silent.

**Mutants.** Each property of a passing run has a faulty variant of one mapped
definition (the operators with a suffix such as `SemPost_CountsOnly`) that
violates it.

## Proofs

Every result holds for all values of the constants that satisfy the assumptions named in
its module (`TasksAssumption`, `DataAssumption`, `ParamStoreAssumption`, ...) and the
hypotheses in its statement. Hypotheses are few: the number of tasks for the two mutual exclusions
and what rests on them, single steps for `RoundsEndAtRest`, a position between the limits for
`OvershootIsBounded`, the first lap for the log. Each is met by the run that checks the property, and
the text says what breaks without it. The results on answers, control and the parameter store have
none. All inductive invariants were checked with TLC on the configurations of
the runs, or larger ones, before they were proved.

**The PDU link** (`PduLink_proof`).

- `TypeCorrect`: `Spec => []TypeOK`. The type invariant is inductive; lemmas type
  each semaphore operation and the wires.
- `WakeupsKept`: `Spec => []NoLostWakeup`, for any number of tasks. Each operation
  keeps a semaphore *quiet* (a positive count has no waiter), because a pend waits
  only at zero and a post with waiters does not count.
- `PduMutexForTwo`: with at most two lock tasks, `Spec => []PduMutex`. `PduMutex`
  is not inductive by itself: a post could find the count positive with an owner inside. The
  inductive invariant `PduInv` adds that the count is at most 1 and is 0 while some
  task owns the semaphore, that every task on the pend list is at place `pdu`, and that a
  direct task is never at a pend or post of this semaphore. With two tasks a
  post by the owner finds at most one waiter, so readying all of them readies one.
  This is where the assumption is used, and run `three_lock_tasks` shows that it is needed.
- `LostUnitStaysLost`: `Spec => []LostUnitIsGone`, from the same invariant: the unit is in the
  count, with its one owner, or lost, and it is one.
- `UartMutexForTwo`: the same for `SWIFT_UART4_Send_Sem`, from `PduInv`: with at most two lock
  tasks and at most one direct task only two tasks can be near it at once.
- `AnswersAreOwn`, `MotorMoveTrue`: `Spec => []AckIsOwn` and `Spec => []MotorMoveIsTrue`, for any
  number of lock and direct tasks, with late answers, losses and urgent frames. The invariant
  `AnswerInv` needs no mutual exclusion: it says of a task in `alone` that, while it is in its
  exchange, nobody else is, and that either it waits, with no unit posted and only its own
  request on the wires, or the PDU has executed its request (`AloneInv`); requests on the
  wire have an id (`RequestInv`); and a part that no call is about and that is not in `unsure` has
  `motor_move` equal to the motor and no request about it on its way (`MotionInv`), so that no
  late frame can move it.

**Control** (`AdminControl_proof`), without hypotheses: for any set of PCs, any timeouts and
bounds, and any interleaving of the four tasks' writes. `AdminTypeCorrect`;
`PcControlIsWatched` (`Spec => []PcIsWatched`); `RequestsStayPossible` (`Spec => []CanAskAgain`).
A handler writes its fields one by one, so no relation between two fields holds at every step.
`AdminInv` says which writes follow which in every handler and in what is left of it
(`Shape`, by `Followed`), and for each relation that holds at rest which write is on its way while
it does not: where `admin_sta` is `PC` and `dev_admin_sta` is not, some task is about to write one
of them (`PcInv`); an address that is recorded is pending, about to be, or about to be cleared
(`AskInv`). `RefuseInv` carries the one handler that writes in the other order, `ForgetInv` the two
that may end a request without clearing its address: the withdrawal of a PC in control, and the loss of the PDU link.

**Modes and monitor** (`ModeControl_proof`, `Monitor_proof`).

- `ModesTypeCorrect`: `Spec => []TypeOK` for any parts, limits, failures and commands.
- `RoundsEndAtRest`: without single steps among the commands, `Spec => []RestAfterRound`,
  whatever calls fail. `RestInv` carries the reason: a part that this
  move has started (`dir # 0`) and that counts as done (`run = 0`) is at rest in truth and in
  `motor_move`, except while its start is retried, and until the move is given up. A single step
  drives a part behind the task's back, which is why it is excluded.
- `OvershootIsBounded`: `MonSpec => []OvershootBounded` with `RoomInside`, a position strictly between
  the limits. The invariant counts: while a motor drives beyond a limit, how far it is beyond it
  never exceeds the passes counted, or the stop is being made. The count is
  one for both limits and is cleared only inside them; without a position there (TLC finds
  the counterexample with `HighLimit = LowLimit + 1`) a count from one side would do for the other.

**The parameter store** (`ParamStore_proof`, `ParamSats_proof`, `ParamRecords_proof`), for any
sizes, straddling records, commands, power failures, failing saves, unreadable records, unreadable
numbers, stale changes and overlaps:

- `StoreTypeCorrect`: `Spec => []TypeOK`. `TypeInv` adds the locals each place of a
  command needs and that a satellite being added has room (`RoomLeft`). Its lemmas on `Min`, `Lowest` and
  cardinalities serve the other two modules.
- `SatellitesKept`: `Spec => []SatsKept`. `SatInv` is a potential argument: the satellites
  acknowledged that are gone, plus those stored beyond the number a start looks for, never exceed
  the faults and stale changes so far (`StoredBound`), and likewise for the list and the number in RAM
  (`ListedBound`); each fault or stale change adds at most one to either side, and a start moves
  from one bound to the other. A stale change under way is counted before it writes
  (`Reviving`, `Relisting`). Beside it: a satellite has one id wherever it appears (`OneHome`) and new
  ones have new numbers. It holds until a start cannot read the number (`SightedInv`).
- `AntennaRecordsKept`: `Spec => []RecordsKept`. The records that are lost already are not
  inductive: a command begun on an id that the other sender's command has chosen loses one
  only at its write. `AtRisk` counts a record as soon as a command under way threatens the only place
  it is in, and one more while two commands are in `Conflict` over an id where neither record is
  acknowledged yet; each overlap adds at most one, each write decides what was already
  counted, and a start adds only what it cannot read.
- `NumbersAreRight`: `Spec => []NumbersAgree`. The satellites need only what is counted, not what is
  stored, so `CountedInv` holds through every fault: the list exceeds the number by the stale changes at most, with
  the satellite being added and the one being listed again put in. The antenna records are from
  `NumberInv`: without overlaps one command runs, the number it read is still the number, and the list
  differs from it only between `RecordCompare` and `RecordNumber`.

**The log** (`FlashLog_proof`), for any sizes of sectors, areas and records and any bounds:

- `LogTypeCorrect`: `Spec => []TypeOK`, on every lap and with every fault of the model. `TypeInv` adds
  what each place of a save knows of its address, and bounds the totals in flash and RAM by the saves
  counted so far (`Counted`); the bits that two slots written over each other leave (`BothBits`) are at most those of
  either.
- `LogsRefineStore`: `FirstLap => (Spec => LogsKeepRecords)`: the initial state maps to an initial state of
  `LogStore`, and every step to one of its steps or to a stutter, under the mapping `log <- Stored`.
- `LogQueryAnswers`: `FirstLap => (Spec => []QueryAnswers)`.

`FirstLap` is what "first lap" means: the information area has a slot for every save and one more, the
data area two sectors for every save (a save may skip one), a sector has at least two cells; and, of the faults, that power does not
fail during a repair, a torn slot shows its head, and no slot is found wrong when it is compared. `LogLap.cfg`
meets all of it, with power failures while running and records found wrong; each of the last three is needed, as the changes to `LogLap`
above show. The inductive invariant `LapInv` says per log: in the information area, blank cells
follow the good slots up to the end of their sector, and what is in the next cell can only be blank or torn
(`SlotPart`); from the newest slot on every record links to the one before it, inside the written part of the
data area, which leaves room for the saves to come (`DataPart`: `Chain`, `Room`); `OptLogInfo` in RAM says what
the flash says, except between the assignments of lines 414 to 420 (`RamPart`: `Settled`, `Updating`); and
what a repair, a write under way and a save that is acknowledged can rely on (`RepairPart`, `WritePart`,
`OkPart`). `AllCodes` reads the list of records off the chain: `ChainGrows` shows that a
completed save puts one record before it, `LinkedAgree` and the frame lemmas that nothing else changes it. The recursive function
of `Places` is handled through least elements (`LeastIn`) instead of an induction over a predicate.

**Only model-checked.** Liveness under fairness (`CallsReturn`, `RequestEnds`,
`SilentPcLosesControl`, `GotoEnds`, `GotoModeEnds`, `FollowModeEnds`, `StartEnds`,
`MotorsStop`), which like `ENABLED` is out of the prover's reach. Every invariant and action property
of the passing runs, and the refinement, is a theorem. The log beyond its first lap has only its types
proved: there the changed configurations above and `log_wrap` show what is lost.

## Not modelled

Listed with reasons in `components` of `PROJECT.json`. Left out of the modelled
parts: bytes of frames and their checksums, log contents, display-only status
bytes (`antenna_*_sta`, `stop_flag`, which nobody reads, `comm_stat` of the PDU), the
direction-adjustment and factory commands, the 32-bit overflow of semaphore counts and
tick counters. In the monitor: the alarms of beacon, EEPROM, flash and GPS (they only add
causes of a high alarm or bits), alarm bits and buzzer; `MotorsStop` says nothing about a
part whose coder is lost, which nothing in the code stops while a manual mode drives it.
In the log: the bus driver, whose transactions are single steps, also against a query
that reads the same chip without `Log_Sem`. In the parameter store: the single-record
parameters, the choice of the current satellite (`CurrSatParam_Save` stores id 0, so
after a restart the current id names the first satellite listed, whatever the other
fields are), the mode saved before a reset, the I2C driver that
several tasks use without a lock.

## Plan

1. Done: `BspSem`, `PduLink` and its proofs, `AdminControl`, `GotoTask`, `ModeControl`.
2. Done: `Monitor` (was `SoftLimit`), `LogStore` and `FlashLog` with the refinement, `ParamStore`.
3. The angle calculation and `DateTime` as operators on integers against reference definitions;
   `SysArch` for the mailboxes.
4. The wait between limit test and start: the calls of `GotoTask` through `PduLink`.
5. An abstract lock specification that `PduLink` with two lock tasks implements, and
   a composition of `AdminControl` with the gate of `APP_PCCOMM_CmdDeal`.
6. Done: theorems for every invariant and action property of the passing runs, and for the
   refinement of `LogStore`. Left: the lock refinement of step 5, `PduLink` with two lock tasks as an abstract lock.
