----------------------------- MODULE ModeControl -----------------------------
(***************************************************************************)
(* The working modes of the antenna and the tasks behind them.  A command  *)
(* handler of the PC or the panel selects a mode, starts or stops a move,  *)
(* or makes a single step; TaskSatelliteTrack (mode 2),                    *)
(* TaskSatGradientTrack (mode 3) and TaskAntennaRecordGoto (modes 1 and 4, *)
(* module GotoTask) do the work and leave the mode when they are through.  *)
(*                                                                         *)
(* Sources: AimAtSatModeSel, AntennaTurnCtr, AntennaSigleStepCtr and       *)
(* AntennaRecordGoto of app_pccomm.c and app_oledcomm.c, which are twins;  *)
(* Antenna_AllDriveEnd and Motor_TimeConfigDrive of app_motor.c; the       *)
(* tasks, their creation and their deletion in main.c.                     *)
(*                                                                         *)
(* A handler has a higher priority than the three tasks, so it is          *)
(* interrupted by them only where it blocks: in a call into the PDU link,  *)
(* in a delay, and while it saves a log record (Log_Sem, and the flash     *)
(* driver's delays).  Each step below runs from one such place to the      *)
(* next.  The three tasks can be interrupted anywhere.  One handler runs   *)
(* at a time.  h.pc says where it is:                                      *)
(*   idle     no command                                                   *)
(*   stops    in Antenna_AllDriveEnd                                       *)
(*   log      saving the log record, the mode is still to be written       *)
(*   turn     in the BSP_Delay_ms(2) of a turn command                     *)
(*   read     before the recorded pose is read                             *)
(*   launch   mode 4 written, the goto task still to be started            *)
(*   step     in the 250 ms of a single step                               *)
(***************************************************************************)
EXTENDS GotoTask

CONSTANTS
    Commands,       \* the commands that are given
    MaxCmds         \* bound: commands in a behaviour

ASSUME CommandsAssumption ==
    /\ Commands \subseteq {"mode0", "mode1", "mode2", "mode3", "mode4",
                           "turn", "turnstop", "step", "record"}
    /\ MaxCmds \in Nat

VARIABLES
    h,              \* the command handler
    sat, grad,      \* the tracking tasks: "none" while they do not exist
    cmds            \* commands so far

vars == <<gotoVars, h, sat, grad, cmds>>

ModeOf(op) ==
    CASE op = "mode1" -> 1 [] op = "mode2" -> 2 [] op = "mode3" -> 3 [] OTHER -> 0

IdleHandler == [pc |-> "idle", op |-> "none", part |-> 1, dir |-> 0, try |-> 0,
                failed |-> FALSE, pass |-> 1]

Init ==
    /\ GotoInit
    /\ h = IdleHandler
    /\ sat = "none"
    /\ grad = "none"
    /\ cmds = 0
-----------------------------------------------------------------------------
(* A handler starts on command op. *)
Begin(op) ==
    /\ h.pc = "idle"
    /\ op \in Commands
    /\ cmds < MaxCmds
    /\ cmds' = cmds + 1

(* The deletion of the tasks in S: Task_Run_Flag is cleared and, for the   *)
(* tracking tasks, OSTaskDel is called.                                    *)
Delete(S) ==
    /\ Task_Run_Flag' = [i \in 0..2 |-> IF i \in S THEN 0 ELSE Task_Run_Flag[i]]
    /\ sat' = IF 0 \in S THEN "none" ELSE sat
    /\ grad' = IF 1 \in S THEN "none" ELSE grad

Running == {i \in 0..2 : Task_Run_Flag[i] > 0}

(* The tasks a selection of mode m deletes: every running one, or for mode *)
(* 0 the one of the present mode.                                          *)
Deleted(m) ==
    IF m # 0 THEN Running
    ELSE CASE SeekSat_Mode \in {1, 4} -> Running \cap {2}
           [] SeekSat_Mode = 2 -> Running \cap {0}
           [] SeekSat_Mode = 3 -> Running \cap {1}
           [] OTHER -> {}

(* AimAtSatModeSel up to its Antenna_AllDriveEnd. *)
ModeSel(op) ==
    /\ op \in {"mode0", "mode1", "mode2", "mode3"}
    /\ Begin(op)
    /\ Delete(Deleted(ModeOf(op)))
    /\ h' = [IdleHandler EXCEPT !.pc = "stops", !.op = op]
    /\ UNCHANGED <<SeekSat_Mode, dev_work_sta, aim, aim_hand, motor_move, motor,
                   angle, g, fails>>

(* AimAtSatModeSel with a mode it has no branch for (4; the code takes any *)
(* byte): nothing is deleted or stopped, the mode is written.              *)
ModeSelOther ==
    /\ Begin("mode4")
    /\ SeekSat_Mode' = 4
    /\ UNCHANGED <<dev_work_sta, Task_Run_Flag, aim, aim_hand, motor_move, motor,
                   angle, g, fails, h, sat, grad>>

(* AntennaRecordGoto up to its Antenna_AllDriveEnd: outside mode 0 it      *)
(* deletes one of the tasks and leaves the mode.                           *)
RecordGoto ==
    /\ Begin("record")
    /\ IF SeekSat_Mode = 0
       THEN /\ h' = [IdleHandler EXCEPT !.pc = "read", !.op = "record"]
            /\ UNCHANGED <<SeekSat_Mode, Task_Run_Flag, sat, grad>>
       ELSE /\ h' = [IdleHandler EXCEPT !.pc = "stops", !.op = "record"]
            /\ SeekSat_Mode' = 0
            /\ Delete(IF 2 \in Running THEN {2}
                      ELSE IF 1 \in Running THEN {1} ELSE Running)
    /\ UNCHANGED <<dev_work_sta, aim, aim_hand, motor_move, motor, angle, g, fails>>
-----------------------------------------------------------------------------
(* What AimAtSatModeSel does between Antenna_AllDriveEnd and its next      *)
(* blocking call: modes 2 and 3 create their task, mode 0 is through.      *)
AfterStops ==
    /\ h' = CASE h.op = "mode0" -> IdleHandler
              [] h.op = "record" -> [h EXCEPT !.pc = "read"]
              [] OTHER -> [h EXCEPT !.pc = "log"]
    /\ SeekSat_Mode' = IF h.op = "mode0" THEN 0 ELSE SeekSat_Mode
    /\ dev_work_sta' = CASE h.op = "mode0" -> 0
                         [] h.op = "mode2" -> 32
                         [] h.op = "mode3" -> 48
                         [] OTHER -> dev_work_sta
    /\ sat' = IF h.op = "mode2" THEN "new" ELSE sat
    /\ grad' = IF h.op = "mode3" THEN "new" ELSE grad

(* One Antenna_DriveEnd of Antenna_AllDriveEnd: a part is tried twice, and *)
(* when a part has failed twice the handler calls Antenna_AllDriveEnd once *)
(* more.                                                                   *)
HandlerStop ==
    /\ h.pc = "stops"
    /\ \E ok \in BOOLEAN :
         /\ Antenna_DriveEnd(h.part, ok)
         /\ LET failed == h.failed \/ (~ok /\ h.try = 1)
            IN IF ~ok /\ h.try = 0
               THEN /\ h' = [h EXCEPT !.try = 1]
                    /\ UNCHANGED <<SeekSat_Mode, dev_work_sta, sat, grad>>
               ELSE IF h.part < NParts
               THEN /\ h' = [h EXCEPT !.part = @ + 1, !.try = 0, !.failed = failed]
                    /\ UNCHANGED <<SeekSat_Mode, dev_work_sta, sat, grad>>
               ELSE IF failed /\ h.pass = 1
               THEN /\ h' = [h EXCEPT !.part = 1, !.try = 0, !.failed = FALSE, !.pass = 2]
                    /\ UNCHANGED <<SeekSat_Mode, dev_work_sta, sat, grad>>
               ELSE AfterStops
    /\ UNCHANGED <<Task_Run_Flag, aim, aim_hand, angle, g, cmds>>

(* The log record is saved; the mode is written last. *)
ModeWrite ==
    /\ h.pc = "log"
    /\ SeekSat_Mode' = ModeOf(h.op)
    /\ dev_work_sta' = IF h.op = "mode1" THEN 17 ELSE dev_work_sta
    /\ h' = IdleHandler
    /\ UNCHANGED <<Task_Run_Flag, aim, aim_hand, motor_move, motor, angle, g, fails,
                   sat, grad, cmds>>

(* The record is read, its antenna compared with ours and the beacon       *)
(* receiver tuned; any of these may fail and end the command.  A recorded  *)
(* pose is not compared with the limits.                                   *)
RecordRead ==
    /\ h.pc = "read"
    /\ \/ /\ h' = IdleHandler
          /\ UNCHANGED <<SeekSat_Mode, aim>>
       \/ /\ aim' \in [Parts -> Angles]
          /\ SeekSat_Mode' = 4
          /\ h' = [h EXCEPT !.pc = "launch"]
    /\ UNCHANGED <<dev_work_sta, Task_Run_Flag, aim_hand, motor_move, motor, angle, g,
                   fails, sat, grad, cmds>>

(* TaskAntennaRecordGotoCreate at the end of AntennaRecordGoto. *)
RecordLaunch ==
    /\ h.pc = "launch"
    /\ dev_work_sta' = 64
    /\ Task_Run_Flag' = [Task_Run_Flag EXCEPT ![2] = 1]
    /\ h' = IdleHandler
    /\ UNCHANGED <<SeekSat_Mode, aim, aim_hand, motor_move, motor, angle, g, fails,
                   sat, grad, cmds>>
-----------------------------------------------------------------------------
(* AntennaTurnCtr with angles, only in mode 1: they are stored before they *)
(* are compared with the limits.                                           *)
TurnCtr ==
    /\ SeekSat_Mode = 1
    /\ Begin("turn")
    /\ aim_hand' \in [Parts -> Angles]
    /\ h' = [IdleHandler EXCEPT !.pc = "turn", !.op = "turn"]
    /\ UNCHANGED <<SeekSat_Mode, dev_work_sta, Task_Run_Flag, aim, motor_move, motor,
                   angle, g, fails, sat, grad>>

(* After the delay: TaskAntennaRecordGotoCreate for angles in range. *)
TurnLaunch ==
    /\ h.pc = "turn"
    /\ Task_Run_Flag' =
         IF \A p \in Parts : LowLimit < aim_hand[p] /\ aim_hand[p] < HighLimit
         THEN [Task_Run_Flag EXCEPT ![2] = 1] ELSE Task_Run_Flag
    /\ h' = IdleHandler
    /\ UNCHANGED <<SeekSat_Mode, dev_work_sta, aim, aim_hand, motor_move, motor, angle,
                   g, fails, sat, grad, cmds>>

(* AntennaTurnCtr without angles: TaskAntennaRecordGotoDel. *)
TurnStop ==
    /\ SeekSat_Mode = 1
    /\ Begin("turnstop")
    /\ Delete(Running \cap {2})
    /\ h' = h
    /\ UNCHANGED <<SeekSat_Mode, dev_work_sta, aim, aim_hand, motor_move, motor, angle,
                   g, fails>>

(* AntennaSigleStepCtr, only in mode 1: Motor_TimeConfigDrive starts the   *)
(* motor ...                                                               *)
SingleStep ==
    /\ SeekSat_Mode = 1
    /\ Begin("step")
    /\ \E p \in Parts, d \in {LEFT, RIGHT}, ok \in BOOLEAN :
         /\ Antenna_DriveStart(p, d, ok)
         /\ dev_work_sta' = IF ok THEN 16 ELSE 17
         /\ h' = IF ok THEN [IdleHandler EXCEPT !.pc = "step", !.op = "step", !.part = p]
                 ELSE IdleHandler
    /\ UNCHANGED <<SeekSat_Mode, Task_Run_Flag, aim, aim_hand, angle, g, sat, grad>>

(* ... and 250 ms later makes one attempt to stop it. *)
SingleStepEnd ==
    /\ h.pc = "step"
    /\ \E ok \in BOOLEAN : Antenna_DriveEnd(h.part, ok)
    /\ dev_work_sta' = 17
    /\ h' = IdleHandler
    /\ UNCHANGED <<SeekSat_Mode, Task_Run_Flag, aim, aim_hand, angle, g, sat, grad,
                   cmds>>
-----------------------------------------------------------------------------
(* TaskSatelliteTrack: it announces itself, looks once for its mode, leaves*)
(* the mode if it was there, and deletes itself.  (The tracking itself,    *)
(* APP_Satellite_Track_Start, is commented out of it.)                     *)
SatBegin ==
    /\ sat = "new"
    /\ sat' = "test"
    /\ Task_Run_Flag' = [Task_Run_Flag EXCEPT ![0] = 1]
    /\ UNCHANGED <<SeekSat_Mode, dev_work_sta, aim, aim_hand, motor_move, motor, angle,
                   g, fails, h, grad, cmds>>

SatTest ==
    /\ sat = "test"
    /\ sat' = IF SeekSat_Mode = 2 THEN "leave" ELSE "exit"
    /\ UNCHANGED <<gotoVars, h, grad, cmds>>

SatLeave ==
    /\ sat = "leave"
    /\ sat' = "exit"
    /\ SeekSat_Mode' = 0
    /\ dev_work_sta' = 0
    /\ UNCHANGED <<Task_Run_Flag, aim, aim_hand, motor_move, motor, angle, g, fails, h,
                   grad, cmds>>

SatExit ==
    /\ sat = "exit"
    /\ sat' = "none"
    /\ Task_Run_Flag' = [Task_Run_Flag EXCEPT ![0] = 0]
    /\ UNCHANGED <<SeekSat_Mode, dev_work_sta, aim, aim_hand, motor_move, motor, angle,
                   g, fails, h, grad, cmds>>

(* Faulty variant of GradAfterTest: the task gives up at once. *)
GradAfterTest_Exits == IF SeekSat_Mode = 3 THEN "leave" ELSE "none"

(* TaskSatGradientTrack looks for its mode every 50 ms, for ever. *)
GradAfterTest == IF SeekSat_Mode = 3 THEN "leave" ELSE "test"

GradBegin ==
    /\ grad = "new"
    /\ grad' = "test"
    /\ Task_Run_Flag' = [Task_Run_Flag EXCEPT ![1] = 1]
    /\ UNCHANGED <<SeekSat_Mode, dev_work_sta, aim, aim_hand, motor_move, motor, angle,
                   g, fails, h, sat, cmds>>

GradTest ==
    /\ grad = "test"
    /\ grad' = GradAfterTest
    /\ UNCHANGED <<gotoVars, h, sat, cmds>>

(* It leaves the mode (APP_Sat_GradientTrack is commented out of it). *)
GradLeave ==
    /\ grad = "leave"
    /\ grad' = "test"
    /\ SeekSat_Mode' = 0
    /\ dev_work_sta' = 0
    /\ UNCHANGED <<Task_Run_Flag, aim, aim_hand, motor_move, motor, angle, g, fails, h,
                   sat, cmds>>
-----------------------------------------------------------------------------
HandlerStep ==
    \/ HandlerStop \/ ModeWrite \/ RecordRead \/ RecordLaunch \/ TurnLaunch
    \/ SingleStepEnd

SatStep == SatBegin \/ SatTest \/ SatLeave \/ SatExit

GradStep == GradBegin \/ GradTest \/ GradLeave

OfGoto(A) == A /\ UNCHANGED <<h, sat, grad, cmds>>

Next ==
    \/ \E op \in Commands : ModeSel(op)
    \/ ModeSelOther
    \/ RecordGoto \/ TurnCtr \/ TurnStop \/ SingleStep
    \/ HandlerStep
    \/ SatStep
    \/ GradStep
    \/ OfGoto(GotoStep)
    \/ \E p \in Parts : OfGoto(Turn(p))

(* The scheduler runs the handler and every task that is ready.  Nothing   *)
(* is assumed of the motors: they may be jammed.                           *)
Fairness ==
    /\ WF_vars(HandlerStep)
    /\ WF_vars(SatStep)
    /\ WF_vars(GradStep)
    /\ WF_vars(OfGoto(GotoStep))

Spec == Init /\ [][Next]_vars /\ Fairness
-----------------------------------------------------------------------------
(* Type correctness of the whole state. *)
TypeOK ==
    /\ SeekSat_Mode \in 0..4
    /\ dev_work_sta \in {0, 16, 17, 32, 48, 64}
    /\ Task_Run_Flag \in [0..2 -> 0..1]
    /\ aim \in [Parts -> Angles]
    /\ aim_hand \in [Parts -> Angles]
    /\ motor_move \in [Parts -> 0..2]
    /\ motor \in [Parts -> 0..2]
    /\ angle \in [Parts -> Angles]
    /\ g.pc \in {"idle", "begin", "start", "watch", "stop", "check", "loop", "pause",
                 "end", "endmode", "endwrite"}
    /\ g.part \in Parts
    /\ g.try \in 0..1
    /\ g.stops \in 0..2
    /\ g.round \in 1..Rounds
    /\ g.aim \in [Parts -> Angles \cup Garbage]
    /\ g.dir \in [Parts -> 0..2]
    /\ g.run \in [Parts -> 0..1]
    /\ g.err \in [Parts -> 0..(StuckLimit + 1)]
    /\ h.pc \in {"idle", "stops", "log", "turn", "read", "launch", "step"}
    /\ h.part \in Parts
    /\ sat \in {"none", "new", "test", "leave", "exit"}
    /\ grad \in {"none", "new", "test", "leave"}

(* Between two rounds of a move every motor that the round has started is  *)
(* at rest, whatever calls failed on the way.                              *)
RestAfterRound ==
    g.pc = "pause" =>
        \A p \in Parts : g.dir[p] # 0 => motor[p] = 0 /\ motor_move[p] = 0

(* A move ends, even with a jammed motor (main.c: a motor that does not    *)
(* move must not keep the task from leaving).                              *)
GotoEnds == g.pc = "begin" ~> g.pc = "idle"

(* Mode 4, entered to go to a record, is left once the move is over        *)
(* (app_pccomm.c: it is cancelled automatically and becomes standby).      *)
GotoModeEnds == SeekSat_Mode = 4 ~> SeekSat_Mode # 4

(* So is mode 3 when the gradient tracking gives up. *)
FollowModeEnds == SeekSat_Mode = 3 ~> SeekSat_Mode # 3
=============================================================================
