------------------------------ MODULE Monitor ------------------------------
(***************************************************************************)
(* The monitor of APP/src/app_monitor.c: the soft limits and the reaction  *)
(* to a high alarm (APP_MONITOR_DevHWSta), and the watch over motors that  *)
(* turn in standby (APP_MONITOR_DevMotorMonitor), composed with the        *)
(* working modes, their tasks and the motors (ModeControl).                *)
(*                                                                         *)
(* A pass of the monitor is the two calls one after the other.  It gives   *)
(* way to the tasks of the modes, which have lower priorities (main.h),    *)
(* where it blocks, and to a command handler anywhere.  m.pc says where it *)
(* is:                                                                     *)
(*   rest     between two passes                                           *)
(*   limit    before the limits of m.part are tested                       *)
(*   stop     in the Antenna_DriveEnd of m.part at a limit                 *)
(*   react    before the high alarm's test of Task_Run_Flag[m.task]        *)
(*   stops    in an Antenna_AllDriveEnd of the reaction                    *)
(*   delete   the motors were stopped, task m.task is to be deleted        *)
(*   standby  the mode is to be left                                       *)
(*   watch    before the test whether m.part turns in standby              *)
(*   calm     in the Antenna_DriveEnd of m.part turning in standby         *)
(*                                                                         *)
(* Between two passes an antenna part that is driven turns by one unit,    *)
(* around past the last angle to the first.  The bits of dev_alarm_buff    *)
(* are not modelled: one of them is set whenever alarm_high_flag is.       *)
(***************************************************************************)
EXTENDS ModeControl

CONSTANTS
    LimitCount,     \* passes in a row beyond a limit that count (3)
    TurnCount,      \* passes in a row with movement that count (10)
    MaxLinks        \* bound: coders lost, found, PDU links lost, found

ASSUME MonitorAssumption ==
    /\ {LimitCount, TurnCount} \subseteq Nat \ {0}
    /\ MaxLinks \in Nat

VARIABLES
    m,                  \* the monitor's place and its locals
    motor_limit_sta,    \* per part: 0, or the limit that was reached
    limit_alarm_cnt,    \* per part: passes beyond a limit
    old_degree,         \* per part: the angle at the last test
    err_cnt,            \* per part: passes with movement
    coder,              \* per part: EleccoderStat.link_stat is COMM_LINK
    pdu,                \* PDUommStat.link_stat is COMM_LINK
    links               \* changes of links so far

monVars == <<m, motor_limit_sta, limit_alarm_cnt, old_degree, err_cnt, coder, pdu,
             links>>

allVars == <<vars, monVars>>

Resting == [pc |-> "rest", part |-> 1, task |-> 0, high |-> FALSE,
            try |-> 0, failed |-> FALSE, pass |-> 1]

MonInit ==
    /\ Init
    /\ m = Resting
    /\ motor_limit_sta = [p \in Parts |-> 0]
    /\ limit_alarm_cnt = [p \in Parts |-> 0]
    /\ old_degree = angle
    /\ err_cnt = [p \in Parts |-> 0]
    /\ coder = [p \in Parts |-> TRUE]
    /\ pdu = TRUE
    /\ links = 0
-----------------------------------------------------------------------------
(* The antenna and its links.                                              *)

Around(a) == IF a > MaxAngle THEN MinAngle ELSE IF a < MinAngle THEN MaxAngle ELSE a

(* Where the antenna is a pass later. *)
Swept == [p \in Parts |-> CASE motor[p] = LEFT -> Around(angle[p] - 1)
                             [] motor[p] = RIGHT -> Around(angle[p] + 1)
                             [] OTHER -> angle[p]]

LinkChange ==
    /\ links < MaxLinks
    /\ links' = links + 1
    /\ \/ /\ \E p \in Parts : coder' = [coder EXCEPT ![p] = ~@]
          /\ UNCHANGED pdu
       \/ /\ pdu' = ~pdu
          /\ UNCHANGED coder
    /\ UNCHANGED <<m, motor_limit_sta, limit_alarm_cnt, old_degree, err_cnt>>
    /\ UNCHANGED vars
-----------------------------------------------------------------------------
(* APP_MONITOR_DevHWSta.                                                   *)

(* On to the next part, or after the last one to the place after. *)
OnPart(r, again, after) ==
    IF r.part = NParts THEN [r EXCEPT !.pc = after, !.part = 1]
                       ELSE [r EXCEPT !.pc = again, !.part = @ + 1]

(* The antenna has turned since the last pass: a part that is driven turns *)
(* (a jammed one, which ModeControl has, is no danger here).  The alarm of *)
(* a lost coder or PDU is a high one; without the PDU the limits are not   *)
(* tested.                                                                 *)
PassBegin ==
    /\ m.pc = "rest"
    /\ angle' = Swept
    /\ m' = [Resting EXCEPT !.pc = IF pdu THEN "limit" ELSE "react",
                            !.high = ~pdu \/ \E p \in Parts : ~coder[p]]
    /\ UNCHANGED <<motor_limit_sta, limit_alarm_cnt, old_degree, err_cnt, coder, pdu, links>>
    /\ UNCHANGED <<SeekSat_Mode, dev_work_sta, Task_Run_Flag, aim, aim_hand, motor_move,
                   motor, g, fails, h, sat, grad, cmds>>

(* Faulty variant of AtLimit: the upper limit itself is still in range. *)
AtLimit_Beyond(p) ==
    CASE angle[p] <= LowLimit -> LEFT
      [] angle[p] > HighLimit + 1 -> RIGHT
      [] OTHER -> 0

(* The limit that part p is at or beyond. *)
AtLimit(p) ==
    CASE angle[p] <= LowLimit -> LEFT
      [] angle[p] > LowLimit /\ angle[p] >= HighLimit -> RIGHT
      [] OTHER -> 0

(* Faulty variant of LimitStops: no motor is stopped at a limit. *)
LimitStops_None(p) == FALSE

(* The motor is stopped only if it is known to drive towards the limit. *)
LimitStops(p) == motor_move[p] = AtLimit(p)

(* The limits of one part.  One count serves both limits; only a limit     *)
(* other than the last one counts as reached.                              *)
LimitTest ==
    /\ m.pc = "limit"
    /\ LET p == m.part
           counted == limit_alarm_cnt[p] + 1 >= LimitCount
           reached == counted /\ motor_limit_sta[p] # AtLimit(p)
       IN IF ~coder[p] \/ AtLimit(p) = 0
          THEN /\ motor_limit_sta' = [motor_limit_sta EXCEPT ![p] = 0]
               /\ limit_alarm_cnt' = [limit_alarm_cnt EXCEPT ![p] = 0]
               /\ m' = OnPart(m, "limit", "react")
          ELSE /\ limit_alarm_cnt' = [limit_alarm_cnt EXCEPT ![p] = IF counted THEN 0 ELSE @ + 1]
               /\ motor_limit_sta' = [motor_limit_sta EXCEPT ![p] = IF reached THEN AtLimit(p) ELSE @]
               /\ m' = IF reached /\ LimitStops(p) THEN [m EXCEPT !.pc = "stop", !.high = TRUE]
                       ELSE OnPart([m EXCEPT !.high = @ \/ reached], "limit", "react")
    /\ UNCHANGED <<old_degree, err_cnt, coder, pdu, links>>
    /\ UNCHANGED vars

(* One attempt, whatever comes of it. *)
LimitStop ==
    /\ m.pc = "stop"
    /\ \E ok \in BOOLEAN : Antenna_DriveEnd(m.part, ok)
    /\ m' = OnPart(m, "limit", "react")
    /\ UNCHANGED <<motor_limit_sta, limit_alarm_cnt, old_degree, err_cnt, coder, pdu,
                   links>>
    /\ UNCHANGED <<SeekSat_Mode, dev_work_sta, Task_Run_Flag, aim, aim_hand, angle, g,
                   h, sat, grad, cmds>>

(* The reaction to a high alarm goes through the three tasks: for one that *)
(* runs the motors are stopped and then the task is deleted.               *)
React ==
    /\ m.pc = "react"
    /\ m' = IF ~m.high \/ m.task = 3 THEN [m EXCEPT !.pc = "standby"]
            ELSE IF Task_Run_Flag[m.task] = 0 THEN [m EXCEPT !.task = @ + 1]
            ELSE [m EXCEPT !.pc = "stops", !.part = 1, !.try = 0, !.failed = FALSE, !.pass = 1]
    /\ UNCHANGED <<motor_limit_sta, limit_alarm_cnt, old_degree, err_cnt, coder, pdu,
                   links>>
    /\ UNCHANGED vars

(* One Antenna_DriveEnd of Antenna_AllDriveEnd, which is called once more  *)
(* when a part has failed twice.                                           *)
ReactStop ==
    /\ m.pc = "stops"
    /\ \E ok \in BOOLEAN :
         /\ Antenna_DriveEnd(m.part, ok)
         /\ LET failed == m.failed \/ (~ok /\ m.try = 1)
                again == failed /\ m.part = NParts /\ m.pass = 1
            IN m' = IF ~ok /\ m.try = 0 THEN [m EXCEPT !.try = 1]
                    ELSE IF again
                    THEN [m EXCEPT !.part = 1, !.try = 0, !.failed = FALSE, !.pass = 2]
                    ELSE OnPart([m EXCEPT !.try = 0, !.failed = failed], "stops", "delete")
    /\ UNCHANGED <<motor_limit_sta, limit_alarm_cnt, old_degree, err_cnt, coder, pdu,
                   links>>
    /\ UNCHANGED <<SeekSat_Mode, dev_work_sta, Task_Run_Flag, aim, aim_hand, angle, g,
                   h, sat, grad, cmds>>

ReactDelete ==
    /\ m.pc = "delete"
    /\ Delete({m.task})
    /\ m' = [m EXCEPT !.pc = "react", !.task = @ + 1]
    /\ UNCHANGED <<motor_limit_sta, limit_alarm_cnt, old_degree, err_cnt, coder, pdu,
                   links>>
    /\ UNCHANGED <<SeekSat_Mode, dev_work_sta, aim, aim_hand, motor_move, motor, angle, g,
                   fails, h, cmds>>

(* Faulty variant of AlarmMode: the mode outlives a high alarm. *)
AlarmMode_Kept == SeekSat_Mode

(* A high alarm leaves the mode. *)
AlarmMode == IF m.high THEN 0 ELSE SeekSat_Mode

(* In mode 0 the working state is 0. *)
ToStandby ==
    /\ m.pc = "standby"
    /\ SeekSat_Mode' = AlarmMode
    /\ dev_work_sta' = IF AlarmMode = 0 THEN 0 ELSE dev_work_sta
    /\ m' = IF AlarmMode = 0 THEN [m EXCEPT !.pc = "watch", !.part = 1] ELSE Resting
    /\ UNCHANGED <<motor_limit_sta, limit_alarm_cnt, old_degree, err_cnt, coder, pdu,
                   links>>
    /\ UNCHANGED <<Task_Run_Flag, aim, aim_hand, motor_move, motor, angle, g, fails,
                   h, sat, grad, cmds>>
-----------------------------------------------------------------------------
(* APP_MONITOR_DevMotorMonitor.                                            *)

Rested(r) == IF r.pc = "rest" THEN Resting ELSE r

(* A part that turns in standby pass after pass is stopped.  A lost coder  *)
(* goes on reading what it read last.  The code compares once a second     *)
(* (scan_cnt, lines 1302 to 1305), here every pass does.                   *)
StandbyTest ==
    /\ m.pc = "watch"
    /\ LET p == m.part
           seen == IF coder[p] THEN angle[p] ELSE old_degree[p]
           moved == seen # old_degree[p]
           counted == moved /\ err_cnt[p] + 1 >= TurnCount
       IN /\ old_degree' = [old_degree EXCEPT ![p] = seen]
          /\ err_cnt' = [err_cnt EXCEPT ![p] = IF moved /\ ~counted THEN @ + 1 ELSE 0]
          /\ m' = IF counted THEN [m EXCEPT !.pc = "calm"]
                             ELSE Rested(OnPart(m, "watch", "rest"))
    /\ UNCHANGED <<motor_limit_sta, limit_alarm_cnt, coder, pdu, links>>
    /\ UNCHANGED vars

StandbyStop ==
    /\ m.pc = "calm"
    /\ \E ok \in BOOLEAN : Antenna_DriveEnd(m.part, ok)
    /\ m' = Rested(OnPart(m, "watch", "rest"))
    /\ UNCHANGED <<motor_limit_sta, limit_alarm_cnt, old_degree, err_cnt, coder, pdu,
                   links>>
    /\ UNCHANGED <<SeekSat_Mode, dev_work_sta, Task_Run_Flag, aim, aim_hand, angle, g,
                   h, sat, grad, cmds>>
-----------------------------------------------------------------------------
MonitorStep ==
    \/ PassBegin \/ LimitTest \/ LimitStop \/ React \/ ReactStop \/ ReactDelete
    \/ ToStandby \/ StandbyTest \/ StandbyStop

OfModes(A) == A /\ UNCHANGED monVars

(* The monitor sleeps, or waits in a call into the PDU link. *)
Blocked == m.pc \in {"rest", "stop", "stops", "calm"}

OfTask(A) == Blocked /\ OfModes(A)

Command ==
    \/ \E op \in Commands : ModeSel(op)
    \/ ModeSelOther \/ RecordGoto \/ TurnCtr \/ TurnStop \/ SingleStep

MonNext ==
    \/ MonitorStep
    \/ LinkChange
    \/ OfModes(Command)
    \/ OfModes(HandlerStep)
    \/ OfTask(SatStep)
    \/ OfTask(GradStep)
    \/ OfTask(OfGoto(GotoStep))

(* The scheduler runs what is ready. *)
MonFairness ==
    /\ WF_allVars(MonitorStep)
    /\ WF_allVars(OfModes(HandlerStep))
    /\ WF_allVars(OfTask(SatStep))
    /\ WF_allVars(OfTask(GradStep))
    /\ WF_allVars(OfTask(OfGoto(GotoStep)))

MonSpec == MonInit /\ [][MonNext]_allVars /\ MonFairness
-----------------------------------------------------------------------------
(* No motor is left running: whichever call into the PDU link failed, in   *)
(* whatever mode, the task's own stop, the limit, the alarm or the watch   *)
(* over standby stops it, as long as its coder works (app_monitor.c lines  *)
(* 964-1127, 1214-1245 and 1300-1346).                                     *)
MotorsStop == \A p \in Parts : motor[p] # 0 ~> motor[p] = 0 \/ ~coder[p]

(* While no call fails and the links stand, no motor drives a part further *)
(* beyond a limit than the passes take to count to LimitCount, whoever     *)
(* started it (app_monitor.c lines 964-1008, app_motor.c lines 184-222).   *)
OvershootBounded ==
    fails = 0 /\ links = 0 =>
        \A p \in Parts : /\ motor[p] = LEFT => angle[p] > LowLimit - LimitCount
                         /\ motor[p] = RIGHT => angle[p] < HighLimit + LimitCount
=============================================================================
