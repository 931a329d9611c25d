------------------------------ MODULE GotoTask ------------------------------
(***************************************************************************)
(* TaskAntennaRecordGoto (APP/src/main.c): the task that drives the        *)
(* antenna to a recorded pose (mode 4) or to angles given by hand (mode 1),*)
(* with the state that it shares with the command handlers: the mode, the  *)
(* run flags and the motors (APP/src/app_motor.c).                         *)
(*                                                                         *)
(* The task is never deleted: TaskAntennaRecordGotoDel only clears         *)
(* Task_Run_Flag[2], and the task looks at the flag at the end of each     *)
(* pass of its watch loop and while it waits.  g.pc says where it is:      *)
(*   idle     waiting for Task_Run_Flag[2] (lines 404 and 735)             *)
(*   begin    the flag was seen set, line 414 comes next                   *)
(*   start    starting the motor of g.part                                 *)
(*   watch    comparing the angle of g.part with the aim                   *)
(*   stop     in an Antenna_DriveEnd of g.part                             *)
(*   check    counting how long g.part has not moved                       *)
(*   loop     at the end of a pass of the watch loop                       *)
(*   pause    in the BSP_Delay_s(3) between two rounds                     *)
(*   end, endmode, endwrite   lines 710 to 732                             *)
(*                                                                         *)
(* A call into the PDU link is one step here: PduLink.tla shows what goes  *)
(* on inside it.  A call that returns FAIL may or may not have reached the *)
(* motor.  Angles are whole numbers of the resolution the code compares    *)
(* with (D_value and the 0.008 and 0.2 degrees of the movement test).      *)
(***************************************************************************)
EXTENDS Integers, FiniteSets

CONSTANTS
    NParts,         \* the antenna's driven parts are 1 .. NParts
    MinAngle,       \* the angles that the antenna can have
    MaxAngle,
    LowLimit,       \* motor_position_start and the like
    HighLimit,      \* motor_position_end and the like
    Garbage,        \* what an uninitialised angle of the task may hold
    StuckLimit,     \* passes without movement that mean a stuck motor (1000)
    MaxFails        \* bound: calls into the PDU link that fail

ASSUME PartsAssumption == NParts \in 1..3

ASSUME GotoAssumption ==
    /\ {MinAngle, MaxAngle, LowLimit, HighLimit} \subseteq Int
    /\ MinAngle <= LowLimit
    /\ LowLimit <= HighLimit
    /\ HighLimit <= MaxAngle
    /\ Garbage \subseteq Int
    /\ {StuckLimit, MaxFails} \subseteq Nat

VARIABLES
    SeekSat_Mode,   \* 0 standby, 1 manual, 2 automatic, 3 follow, 4 goto
    dev_work_sta,   \* 0, 16 (0x10), 17 (0x11), 32 (0x20), 48 (0x30), 64 (0x40)
    Task_Run_Flag,  \* of 0 the satellite, 1 the gradient, 2 the goto task
    aim, aim_hand,  \* AntennaParam.aim_* and aim_*_hand, per part
    motor_move,     \* ACUCurrSta.motor_move, per part
    motor,          \* what each motor really does
    angle,          \* antenna_position, antenna_cabrage, antenna_polar
    g,              \* the task's place and its locals
    fails           \* failed calls so far

gotoVars == <<SeekSat_Mode, dev_work_sta, Task_Run_Flag, aim, aim_hand,
              motor_move, motor, angle, g, fails>>

Parts == 1..NParts

Angles == MinAngle..MaxAngle

Rounds == 3

(* Directions: ANTENNA_DIR_LEFT_DOWN_ANTICLOCK and ANTENNA_DIR_RIGHT_UP_CLOCK. *)
LEFT == 1
RIGHT == 2

GotoInit ==
    /\ SeekSat_Mode = 0
    /\ dev_work_sta = 0
    /\ Task_Run_Flag = [i \in 0..2 |-> 0]
    /\ aim = [p \in Parts |-> LowLimit]
    /\ aim_hand = [p \in Parts |-> LowLimit]
    /\ motor_move = [p \in Parts |-> 0]
    /\ motor = [p \in Parts |-> 0]
    /\ angle \in [Parts -> Angles]
    /\ \E local \in [Parts -> Garbage] :
         g = [pc |-> "idle", part |-> 1, try |-> 0, stops |-> 0, back |-> "next",
              round |-> 1, aim |-> local, old |-> local,
              dir |-> [p \in Parts |-> 0], run |-> [p \in Parts |-> 0],
              err |-> [p \in Parts |-> 0]]
    /\ fails = 0
-----------------------------------------------------------------------------
(* Antenna_DriveStart refuses to drive on beyond a limit already reached. *)
Refused(p, d) ==
    \/ angle[p] <= LowLimit /\ d = LEFT
    \/ angle[p] > LowLimit /\ angle[p] >= HighLimit /\ d = RIGHT

(* Motor_DriveStart (d # 0) or Motor_DriveEnd (d = 0) under                *)
(* APP_PDU_Send_Sem: motor_move follows only an answered call.             *)
Drive(p, d, ok) ==
    \/ /\ ok
       /\ motor' = [motor EXCEPT ![p] = d]
       /\ motor_move' = [motor_move EXCEPT ![p] = d]
       /\ fails' = fails
    \/ /\ ~ok
       /\ fails < MaxFails
       /\ fails' = fails + 1
       /\ motor' \in {motor, [motor EXCEPT ![p] = d]}
       /\ motor_move' = motor_move

(* Antenna_DriveStart. *)
Antenna_DriveStart(p, d, ok) ==
    IF Refused(p, d)
    THEN ~ok /\ UNCHANGED <<motor, motor_move, fails>>
    ELSE Drive(p, d, ok)

(* Antenna_DriveEnd. *)
Antenna_DriveEnd(p, ok) == Drive(p, 0, ok)

(* The antenna turns with its motor; a jammed one does not. *)
Turn(p) ==
    /\ motor[p] # 0
    /\ angle' = [angle EXCEPT ![p] = IF motor[p] = LEFT THEN @ - 1 ELSE @ + 1]
    /\ angle'[p] \in Angles
    /\ UNCHANGED <<SeekSat_Mode, dev_work_sta, Task_Run_Flag, aim, aim_hand,
                   motor_move, motor, g, fails>>
-----------------------------------------------------------------------------
(* The task sees the flag that TaskAntennaRecordGotoCreate has set. *)
GotoWake ==
    /\ g.pc = "idle"
    /\ Task_Run_Flag[2] = 1
    /\ g' = [g EXCEPT !.pc = "begin"]
    /\ UNCHANGED <<SeekSat_Mode, dev_work_sta, Task_Run_Flag, aim, aim_hand,
                   motor_move, motor, angle, fails>>

(* The aims of the move: in a mode that is neither 4 nor 1 the locals keep *)
(* the values of the last move, or what the stack held.                    *)
AimOfMode ==
    CASE SeekSat_Mode = 4 -> aim
      [] SeekSat_Mode = 1 -> aim_hand
      [] OTHER -> g.aim

(* TaskAntennaRecordGoto_Begin sets the flag once more and starts a move. *)
GotoBegin ==
    /\ g.pc = "begin"
    /\ Task_Run_Flag' = [Task_Run_Flag EXCEPT ![2] = 1]
    /\ dev_work_sta' = CASE SeekSat_Mode = 4 -> 64
                         [] SeekSat_Mode = 1 -> 16
                         [] OTHER -> dev_work_sta
    /\ g' = [g EXCEPT !.pc = "start", !.part = 1, !.try = 0, !.round = 1,
                      !.aim = AimOfMode,
                      !.run = [p \in Parts |-> 0], !.err = [p \in Parts |-> 0]]
    /\ UNCHANGED <<SeekSat_Mode, aim, aim_hand, motor_move, motor, angle, fails>>

(* The direction from the angle of part p to its aim, 0 when it is there. *)
Toward(p) ==
    CASE angle[p] > g.aim[p] -> LEFT
      [] angle[p] < g.aim[p] -> RIGHT
      [] OTHER -> 0

(* On to the next part, or after the last one to the place after the loop  *)
(* over the parts.                                                         *)
NextPart(r, again, after) ==
    LET s == [r EXCEPT !.try = 0, !.stops = 0, !.back = "next"]
    IN IF r.part = NParts THEN [s EXCEPT !.pc = after, !.part = 1]
                          ELSE [s EXCEPT !.pc = again, !.part = @ + 1]

(* Start the motor of g.part unless it is at its aim; one retry after      *)
(* 50 ms, then the move is given up.                                       *)
GotoStart ==
    /\ g.pc = "start"
    /\ LET p == g.part
           d == IF g.try = 0 THEN Toward(p) ELSE g.dir[p]
           r == [g EXCEPT !.dir[p] = d]
       IN IF d = 0
          THEN /\ g' = NextPart([r EXCEPT !.run[p] = 0], "start", "watch")
               /\ UNCHANGED <<motor, motor_move, fails>>
          ELSE \E ok \in BOOLEAN :
                 /\ Antenna_DriveStart(p, d, ok)
                 /\ g' = IF ok THEN NextPart([r EXCEPT !.run[p] = 1], "start", "watch")
                         ELSE IF g.try = 0 THEN [r EXCEPT !.try = 1]
                         ELSE [r EXCEPT !.pc = "end"]
    /\ UNCHANGED <<SeekSat_Mode, dev_work_sta, Task_Run_Flag, aim, aim_hand, angle>>

(* Compare the angle of a running part with its aim.  At the aim the code  *)
(* stops the motor twice, once for being there and once for the direction  *)
(* having changed; past the aim once.                                      *)
GotoWatch ==
    /\ g.pc = "watch"
    /\ LET p == g.part IN
         g' = IF g.run[p] = 0 THEN NextPart(g, "watch", "loop")
              ELSE IF Toward(p) = g.dir[p] THEN [g EXCEPT !.pc = "check"]
              ELSE [g EXCEPT !.pc = "stop", !.try = 0, !.back = "check",
                             !.stops = IF Toward(p) = 0 THEN 2 ELSE 1]
    /\ UNCHANGED <<SeekSat_Mode, dev_work_sta, Task_Run_Flag, aim, aim_hand,
                   motor_move, motor, angle, fails>>

(* Faulty variant of StopFailed: the part is given up for stopped. *)
StopFailed_GoesOn(r) ==
    IF r.try = 0 THEN [r EXCEPT !.try = 1]
    ELSE NextPart([r EXCEPT !.run[r.part] = 0], "watch", "loop")

(* A stop that failed is tried once more, then the move is given up. *)
StopFailed(r) == IF r.try = 0 THEN [r EXCEPT !.try = 1] ELSE [r EXCEPT !.pc = "end"]

(* Antenna_DriveEnd in the watch loop. *)
GotoStop ==
    /\ g.pc = "stop"
    /\ LET p == g.part
           r == [g EXCEPT !.run[p] = 0, !.try = 0, !.stops = @ - 1]
       IN \E ok \in BOOLEAN :
            /\ Antenna_DriveEnd(p, ok)
            /\ g' = IF ~ok THEN StopFailed(g)
                    ELSE IF r.stops > 0 THEN r
                    ELSE IF g.back = "check" THEN [r EXCEPT !.pc = "check", !.back = "next"]
                    ELSE NextPart(r, "watch", "loop")
    /\ UNCHANGED <<SeekSat_Mode, dev_work_sta, Task_Run_Flag, aim, aim_hand, angle>>

(* Faulty variant of StillFor: every pass starts the count anew. *)
StillFor_Restarts(p) == 1

(* Passes in a row in which part p has not moved (capped: only whether it  *)
(* exceeds StuckLimit is looked at).                                       *)
StillFor(p) == IF g.err[p] > StuckLimit THEN g.err[p] ELSE g.err[p] + 1

(* A motor that has not moved for too long is stopped and counts as done.  *)
(* The count is not cleared by that, so in the next round it still stands. *)
GotoCheck ==
    /\ g.pc = "check"
    /\ LET p == g.part
           r == [g EXCEPT !.err[p] = StillFor(p)]
       IN g' = IF g.old[p] # angle[p]
               THEN NextPart([g EXCEPT !.old[p] = angle[p], !.err[p] = 0], "watch", "loop")
               ELSE IF r.err[p] > StuckLimit
               THEN [r EXCEPT !.pc = "stop", !.try = 0, !.stops = 1, !.back = "next"]
               ELSE NextPart(r, "watch", "loop")
    /\ UNCHANGED <<SeekSat_Mode, dev_work_sta, Task_Run_Flag, aim, aim_hand,
                   motor_move, motor, angle, fails>>

(* The end of a pass: all parts done, or the move was called off. *)
GotoLoop ==
    /\ g.pc = "loop"
    /\ g' = [g EXCEPT !.pc = IF \A p \in Parts : g.run[p] = 0 THEN "pause"
                             ELSE IF Task_Run_Flag[2] = 0 THEN "end"
                             ELSE "watch"]
    /\ UNCHANGED <<SeekSat_Mode, dev_work_sta, Task_Run_Flag, aim, aim_hand,
                   motor_move, motor, angle, fails>>

(* Faulty variant of MoreRounds: one round too many. *)
MoreRounds_Inclusive(r) == r <= Rounds

(* The move is made for(i=0;i<3;i++) times. *)
MoreRounds(r) == r < Rounds

(* After three seconds the next round; nobody looks at the flag here. *)
GotoPause ==
    /\ g.pc = "pause"
    /\ g' = IF MoreRounds(g.round)
            THEN [g EXCEPT !.pc = "start", !.part = 1, !.try = 0, !.round = @ + 1]
            ELSE [g EXCEPT !.pc = "end"]
    /\ UNCHANGED <<SeekSat_Mode, dev_work_sta, Task_Run_Flag, aim, aim_hand,
                   motor_move, motor, angle, fails>>

(* The locals whose values no later line reads are set back, so that two   *)
(* states that differ in nothing else are one.                             *)
Forgotten(r) ==
    [r EXCEPT !.part = 1, !.try = 0, !.stops = 0, !.back = "next", !.round = 1,
              !.dir = [p \in Parts |-> 0], !.run = [p \in Parts |-> 0],
              !.err = [p \in Parts |-> 0]]

(* TaskAntennaRecordGoto_END.  It stops no motor. *)
GotoEnd ==
    /\ g.pc = "end"
    /\ Task_Run_Flag' = [Task_Run_Flag EXCEPT ![2] = 0]
    /\ g' = [Forgotten(g) EXCEPT !.pc = "endmode"]
    /\ UNCHANGED <<SeekSat_Mode, dev_work_sta, aim, aim_hand, motor_move, motor,
                   angle, fails>>

(* Faulty variant of LeavesMode: no mode is left at the end of a move. *)
LeavesMode_None(m) == FALSE

(* A move in mode 4 ends the mode. *)
LeavesMode(m) == m = 4

(* It looks at the mode ... *)
GotoEndMode ==
    /\ g.pc = "endmode"
    /\ g' = [g EXCEPT !.pc = IF LeavesMode(SeekSat_Mode) THEN "endwrite" ELSE "idle"]
    /\ dev_work_sta' = CASE SeekSat_Mode = 0 -> 0
                         [] SeekSat_Mode = 1 -> 17
                         [] OTHER -> dev_work_sta
    /\ UNCHANGED <<SeekSat_Mode, Task_Run_Flag, aim, aim_hand, motor_move, motor,
                   angle, fails>>

(* ... and writes it, whatever it has become in between. *)
GotoEndWrite ==
    /\ g.pc = "endwrite"
    /\ SeekSat_Mode' = 0
    /\ dev_work_sta' = 0
    /\ g' = [g EXCEPT !.pc = "idle"]
    /\ UNCHANGED <<Task_Run_Flag, aim, aim_hand, motor_move, motor, angle, fails>>

GotoStep ==
    \/ GotoWake \/ GotoBegin \/ GotoStart \/ GotoWatch \/ GotoStop \/ GotoCheck
    \/ GotoLoop \/ GotoPause \/ GotoEnd \/ GotoEndMode \/ GotoEndWrite
=============================================================================
