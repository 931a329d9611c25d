---------------------------- MODULE Monitor_proof ----------------------------
(***************************************************************************)
(* Proof that the soft limits of the monitor bound how far a motor drives  *)
(* the antenna beyond them, for any number of parts, any commands and      *)
(* tasks, and any number of passes that a limit has to count.              *)
(***************************************************************************)
EXTENDS Monitor, ModeControl_proof

(* The antenna has a position strictly between its limits.                 *)
RoomInside == HighLimit >= LowLimit + 2

MonPlaces == {"rest", "limit", "stop", "react", "stops", "delete", "standby", "watch",
              "calm"}

MonState ==
    [pc : MonPlaces, part : Parts, task : Nat, high : BOOLEAN, try : 0..1,
     failed : BOOLEAN, pass : 1..2]

MonTypes ==
    /\ m \in MonState
    /\ motor_limit_sta \in [Parts -> 0..2]
    /\ limit_alarm_cnt \in [Parts -> 0..(LimitCount - 1)]
    /\ links \in Nat

(* The antenna has turned and the limits of part p are still to be tested. *)
Untested(p) == \/ m.pc = "limit" /\ m.part <= p
               \/ m.pc = "stop" /\ m.part < p

(* Part p is being stopped at a limit. *)
AtStop(p) == m.pc = "stop" /\ m.part = p

(* Passes that have tested part p where it is now. *)
Tested(p) == IF Untested(p) THEN 0 ELSE 1

(* Until a link changes, the links stand. *)
LinksStand == links = 0 => pdu = TRUE /\ \A p \in Parts : coder[p] = TRUE

(* Until a call fails, motor_move tells what the motors do. *)
MotorsKnown == fails = 0 => motor_move = motor

(* Between the limits, a test has cleared the count and the limit. *)
InsideClear ==
    \A p \in Parts : LowLimit < angle[p] /\ angle[p] < HighLimit /\ ~Untested(p) =>
                       motor_limit_sta[p] = 0 /\ limit_alarm_cnt[p] = 0

(* A motor that drives beyond a limit is being stopped, or each unit beyond*)
(* it has been counted.                                                    *)
LowCounted ==
    \A p \in Parts : motor[p] = LEFT /\ angle[p] <= LowLimit =>
        \/ AtStop(p) /\ LowLimit - angle[p] <= LimitCount - 1
        \/ /\ motor_limit_sta[p] # LEFT
           /\ LowLimit - angle[p] + Tested(p) <= limit_alarm_cnt[p]

HighCounted ==
    \A p \in Parts : motor[p] = RIGHT /\ angle[p] >= HighLimit =>
        \/ AtStop(p) /\ angle[p] - HighLimit <= LimitCount - 1
        \/ /\ motor_limit_sta[p] # RIGHT
           /\ angle[p] - HighLimit + Tested(p) <= limit_alarm_cnt[p]

(* Inductive together. *)
MonInv ==
    /\ TypeInv
    /\ MonTypes
    /\ LinksStand
    /\ MotorsKnown
    /\ fails = 0 /\ links = 0 => InsideClear /\ LowCounted /\ HighCounted
-----------------------------------------------------------------------------
(* A motor is called on through the PDU link, and not to drive on beyond a *)
(* limit it is at.                                                         *)
MotorCall ==
    \E p \in Parts, d \in 0..2, ok \in BOOLEAN : ~Refused(p, d) /\ Drive(p, d, ok)

(* A stop is never refused. *)
LEMMA StopCall ==
    ASSUME NEW p \in Parts, NEW ok \in BOOLEAN, Drive(p, 0, ok)
    PROVE  MotorCall
<1>1. ~Refused(p, 0)
  BY DEF Refused, LEFT, RIGHT
<1> QED BY <1>1, FieldFacts DEF MotorCall

(* Everything but the monitor turns no antenna, and reaches the motors     *)
(* through the PDU link only.                                              *)
LEMMA ModesCall ==
    ASSUME TypeInv, Command \/ HandlerStep \/ SatStep \/ GradStep \/ OfGoto(GotoStep)
    PROVE  /\ TypeInv'
           /\ angle' = angle
           /\ UNCHANGED <<motor, motor_move, fails>> \/ MotorCall
<1>1. CASE Command
  <2>1. TypeInv' /\ angle' = angle
    <3>1. Commanded
      BY <1>1 DEF Command, Commanded
    <3>2. angle' = angle
      BY <3>1 DEF Commanded, ModeSel, ModeSelOther, RecordGoto, TurnCtr, TurnStop, SingleStep
    <3> QED BY <3>1, <3>2, CommandType
  <2>2. CASE SingleStep
    <3>1. PICK p \in Parts, d \in {LEFT, RIGHT}, ok \in BOOLEAN : Antenna_DriveStart(p, d, ok)
      BY <2>2 DEF SingleStep
    <3>2. d \in 0..2
      BY FieldFacts
    <3> QED BY <2>1, <3>1, <3>2 DEF Antenna_DriveStart, MotorCall
  <2>3. CASE ~SingleStep
    BY <1>1, <2>1, <2>3 DEF Command, ModeSel, ModeSelOther, RecordGoto, TurnCtr, TurnStop
  <2> QED BY <2>2, <2>3
<1>2. CASE HandlerStep
  <2>1. h.part \in Parts
    BY DEF TypeInv, HandlerState
  <2>2. /\ angle' = angle
        /\ \/ UNCHANGED <<motor, motor_move, fails>>
           \/ \E ok \in BOOLEAN : Drive(h.part, 0, ok)
    BY <1>2 DEF HandlerStep, HandlerStop, ModeWrite, RecordRead, RecordLaunch, TurnLaunch,
                SingleStepEnd, Antenna_DriveEnd
  <2> QED BY <1>2, <2>1, <2>2, HandlerType, StopCall
<1>3. CASE SatStep \/ GradStep
  <2>1. angle' = angle /\ UNCHANGED <<motor, motor_move, fails>>
    BY <1>3 DEF SatStep, SatBegin, SatTest, SatLeave, SatExit, GradStep, GradBegin,
                GradTest, GradLeave, gotoVars
  <2> QED BY <1>3, <2>1, TrackingType
<1>4. CASE OfGoto(GotoStep)
  <2>1. GotoStep /\ TypeInv'
    BY <1>4, GotoStepType DEF OfGoto, GotoLocals, TypeInv, TasksOK
  <2>2. g.part \in Parts
    BY GotoFields DEF TypeInv
  <2>3. CASE GotoStart
    BY <2>1, <2>2, <2>3, GotoStartMotors DEF MotorCall
  <2>4. CASE GotoStop
    BY <2>1, <2>2, <2>4, GotoStopMotors, StopCall
  <2>5. CASE ~GotoStart /\ ~GotoStop
    <3>1. angle' = angle /\ UNCHANGED <<motor, motor_move, fails>>
      BY <2>1, <2>5 DEF GotoStep, GotoWake, GotoBegin, GotoWatch, GotoCheck, GotoLoop,
                        GotoPause, GotoEnd, GotoEndMode, GotoEndWrite
    <3> QED BY <2>1, <3>1
  <2> QED BY <2>3, <2>4, <2>5
<1> QED BY <1>1, <1>2, <1>3, <1>4

(* A step that turns no antenna, tests no limit and calls at most on the   *)
(* motors keeps the invariant, wherever else the monitor goes.             *)
LEMMA CallKeeps ==
    ASSUME MonInv, TypeInv', RoomInside, angle' = angle,
           UNCHANGED <<motor_limit_sta, limit_alarm_cnt, coder, pdu, links>>,
           m' \in MonState,
           \A p \in Parts : Untested(p)' <=> Untested(p),
           \A p \in Parts : AtStop(p) => AtStop(p)' \/ motor'[p] = 0 \/ fails' > 0,
           UNCHANGED <<motor, motor_move, fails>> \/ MotorCall
    PROVE  MonInv'
<1>1. MonTypes' /\ LinksStand'
  BY DEF MonInv, MonTypes, LinksStand
<1>2. TypeInv /\ MotorsOK /\ angle \in [Parts -> Angles]
  BY DEF MonInv, TypeInv, ModesOK
<1>3. CASE UNCHANGED <<motor, motor_move, fails>>
  <2>1. MotorsKnown'
    BY <1>3 DEF MonInv, MotorsKnown
  <2>2. ASSUME fails' = 0, links' = 0
        PROVE  (InsideClear /\ LowCounted /\ HighCounted)'
    <3>1. InsideClear /\ LowCounted /\ HighCounted
      BY <1>3, <2>2 DEF MonInv
    <3>2. InsideClear'
      BY <3>1 DEF InsideClear
    <3>3. \A p \in Parts : Tested(p)' = Tested(p)
      BY DEF Tested
    <3>4. \A p \in Parts : AtStop(p) => AtStop(p)' \/ motor'[p] = 0
      BY <2>2
    <3>5. LowCounted'
      BY <1>3, <3>1, <3>3, <3>4 DEF LowCounted, LEFT
    <3>6. HighCounted'
      BY <1>3, <3>1, <3>3, <3>4 DEF HighCounted, RIGHT
    <3> QED BY <3>2, <3>5, <3>6
  <2> QED BY <1>1, <2>1, <2>2 DEF MonInv
<1>4. CASE MotorCall
  <2>1. PICK p \in Parts, d \in 0..2, ok \in BOOLEAN : ~Refused(p, d) /\ Drive(p, d, ok)
    BY <1>4 DEF MotorCall
  <2>2. /\ \A q \in Parts : q # p => motor'[q] = motor[q] /\ motor_move'[q] = motor_move[q]
        /\ ok => motor'[p] = d /\ motor_move'[p] = d /\ fails' = fails
        /\ ~ok => fails' > 0
    BY <1>2, <2>1, DriveEffect
  <2>3. CASE ~ok
    <3>1. fails' # 0
      BY <2>2, <2>3
    <3> QED BY <1>1, <3>1 DEF MonInv, MotorsKnown
  <2>4. CASE ok
    <3>1. MotorsKnown'
      BY <2>1, <2>4 DEF MonInv, MotorsKnown, Drive
    <3>2. ASSUME fails' = 0, links' = 0
          PROVE  (InsideClear /\ LowCounted /\ HighCounted)'
      <4>1. InsideClear /\ LowCounted /\ HighCounted
        BY <2>2, <2>4, <3>2 DEF MonInv
      <4>2. InsideClear'
        BY <4>1 DEF InsideClear
      <4>3. \A q \in Parts : Tested(q)' = Tested(q)
        BY DEF Tested
      <4>4. \A q \in Parts : AtStop(q) => AtStop(q)' \/ motor'[q] = 0
        BY <3>2
      <4>5. motor'[p] = LEFT => angle'[p] > LowLimit
        BY <1>2, <2>1, <2>2, <2>4, GotoAssumption DEF Refused, Angles
      <4>6. motor'[p] = RIGHT => angle'[p] < HighLimit
        BY <1>2, <2>1, <2>2, <2>4, GotoAssumption DEF Refused, Angles, RoomInside
      <4>7. angle'[p] \in Int /\ LowLimit \in Int /\ HighLimit \in Int
        BY <1>2, GotoAssumption DEF Angles
      <4>8. LowCounted'
        <5>1. ASSUME NEW q \in Parts, motor'[q] = LEFT, angle'[q] <= LowLimit
              PROVE  \/ AtStop(q)' /\ LowLimit - angle'[q] <= LimitCount - 1
                     \/ /\ motor_limit_sta'[q] # LEFT
                        /\ LowLimit - angle'[q] + Tested(q)' <= limit_alarm_cnt'[q]
          <6>1. q # p
            BY <4>5, <4>7, <5>1
          <6>2. motor[q] = LEFT /\ angle[q] <= LowLimit /\ motor'[q] # 0
            BY <2>2, <5>1, <6>1 DEF LEFT
          <6> QED BY <4>1, <4>3, <4>4, <6>2 DEF LowCounted
        <5> QED BY <5>1 DEF LowCounted
      <4>9. HighCounted'
        <5>1. ASSUME NEW q \in Parts, motor'[q] = RIGHT, angle'[q] >= HighLimit
              PROVE  \/ AtStop(q)' /\ angle'[q] - HighLimit <= LimitCount - 1
                     \/ /\ motor_limit_sta'[q] # RIGHT
                        /\ angle'[q] - HighLimit + Tested(q)' <= limit_alarm_cnt'[q]
          <6>1. q # p
            BY <4>6, <4>7, <5>1
          <6>2. motor[q] = RIGHT /\ angle[q] >= HighLimit /\ motor'[q] # 0
            BY <2>2, <5>1, <6>1 DEF RIGHT
          <6> QED BY <4>1, <4>3, <4>4, <6>2 DEF HighCounted
        <5> QED BY <5>1 DEF HighCounted
      <4> QED BY <4>2, <4>8, <4>9
    <3> QED BY <1>1, <3>1, <3>2 DEF MonInv
  <2> QED BY <2>3, <2>4
<1> QED BY <1>3, <1>4
-----------------------------------------------------------------------------
(* The monitor's own steps.                                                *)

LEMMA RestingType == Resting \in MonState
BY FieldFacts DEF Resting, MonState, MonPlaces

(* On to the next part. *)
LEMMA OnPartType ==
    ASSUME NEW r \in MonState, NEW again \in MonPlaces, NEW after \in MonPlaces
    PROVE  /\ OnPart(r, again, after) \in MonState
           /\ r.part = NParts => OnPart(r, again, after).pc = after
           /\ r.part # NParts => /\ OnPart(r, again, after).pc = again
                                 /\ OnPart(r, again, after).part = r.part + 1
<1>1. r.part \in Parts /\ (r.part # NParts => r.part + 1 \in Parts)
  BY PartsAssumption DEF MonState, Parts
<1>2. CASE r.part = NParts
  <2>1. OnPart(r, again, after) = [r EXCEPT !.pc = after, !.part = 1]
    BY <1>2 DEF OnPart
  <2> QED BY <1>2, <2>1, FieldFacts, Zenon DEF MonState
<1>3. CASE r.part # NParts
  <2>1. OnPart(r, again, after) = [r EXCEPT !.pc = again, !.part = r.part + 1]
    BY <1>3 DEF OnPart
  <2> QED BY <1>1, <1>3, <2>1, Zenon DEF MonState
<1> QED BY <1>2, <1>3

(* After part m.part has been tested, or stopped at a limit, the parts     *)
(* after it are still to be tested, and no part is being stopped.          *)
LEMMA OnPartTested ==
    ASSUME NEW r \in MonState, r.part = m.part, m \in MonState,
           m' = OnPart(r, "limit", "react")
    PROVE  /\ m' \in MonState
           /\ \A p \in Parts : Untested(p)' <=> p > m.part
           /\ \A p \in Parts : ~AtStop(p)'
<1>1. "limit" \in MonPlaces /\ "react" \in MonPlaces
  BY DEF MonPlaces
<1>2. /\ m' \in MonState
      /\ m.part = NParts => m'.pc = "react"
      /\ m.part # NParts => m'.pc = "limit" /\ m'.part = m.part + 1
  BY <1>1, OnPartType
<1>3. m.part \in Parts
  BY DEF MonState
<1> QED BY <1>2, <1>3, PartsAssumption DEF Untested, AtStop, Parts

(* The places in which no part is untested or being stopped. *)
LEMMA ElsewhereTested ==
    ASSUME m.pc \notin {"limit", "stop"}
    PROVE  \A p \in Parts : ~Untested(p) /\ ~AtStop(p)
BY DEF Untested, AtStop

LEMMA LimitStopKeeps ==
    ASSUME MonInv, RoomInside, LimitStop
    PROVE  MonInv'
<1>1. m \in MonState /\ m.part \in Parts /\ m.pc = "stop" /\ TypeInv /\ MotorsOK
  BY DEF MonInv, MonTypes, MonState, LimitStop, TypeInv
<1>2. PICK ok \in BOOLEAN : Drive(m.part, 0, ok)
  BY DEF LimitStop, Antenna_DriveEnd
<1>3. MotorCall /\ MotorsOK'
  BY <1>1, <1>2, StopCall, DriveType, FieldFacts
<1>4. TypeInv'
  BY <1>1, <1>3 DEF LimitStop, TypeInv, ModesOK, TasksOK
<1>5. /\ m' \in MonState
      /\ \A p \in Parts : Untested(p)' <=> p > m.part
  BY <1>1, OnPartTested DEF LimitStop
<1>6. \A p \in Parts : Untested(p) <=> p > m.part
  BY <1>1, PartOne DEF Untested
<1>7. ok => motor'[m.part] = 0
  BY <1>1, <1>2, DriveEffect, FieldFacts
<1>8. ~ok => fails' > 0
  BY <1>1, <1>2, DriveEffect, FieldFacts
<1>9. \A p \in Parts : AtStop(p) => AtStop(p)' \/ motor'[p] = 0 \/ fails' > 0
  BY <1>7, <1>8 DEF AtStop
<1> QED BY <1>3, <1>4, <1>5, <1>6, <1>9, CallKeeps DEF LimitStop

(* The steps of the reaction and of the watch over standby: they test no   *)
(* limit.                                                                  *)
LEMMA ElsewhereKeeps ==
    ASSUME MonInv, RoomInside, TypeInv', angle' = angle,
           UNCHANGED <<motor_limit_sta, limit_alarm_cnt, coder, pdu, links>>,
           m.pc \notin {"limit", "stop"}, m' \in MonState, m'.pc \notin {"limit", "stop"},
           UNCHANGED <<motor, motor_move, fails>> \/ MotorCall
    PROVE  MonInv'
<1>1. \A p \in Parts : ~Untested(p) /\ ~AtStop(p)
  BY ElsewhereTested
<1>2. \A p \in Parts : ~Untested(p)'
  BY DEF Untested
<1> QED BY <1>1, <1>2, CallKeeps

LEMMA ReactKeeps ==
    ASSUME MonInv, RoomInside, React
    PROVE  MonInv'
<1>1. m \in MonState /\ m.pc = "react" /\ TypeInv /\ m.task + 1 \in Nat
  BY DEF MonInv, MonTypes, MonState, React
<1>2. m' \in MonState /\ m'.pc \in {"standby", "react", "stops"}
  <2>1. "standby" \in MonPlaces /\ "stops" \in MonPlaces
    BY DEF MonPlaces
  <2>2. CASE m' = [m EXCEPT !.pc = "standby"]
    BY <1>1, <2>1, <2>2, Zenon DEF MonState
  <2>3. CASE m' = [m EXCEPT !.task = m.task + 1]
    BY <1>1, <2>3, Zenon DEF MonState
  <2>4. CASE m' = [m EXCEPT !.pc = "stops", !.part = 1, !.try = 0, !.failed = FALSE, !.pass = 1]
    BY <1>1, <2>1, <2>4, FieldFacts, Zenon DEF MonState
  <2> QED BY <2>2, <2>3, <2>4 DEF React
<1>3. TypeInv'
  BY <1>1 DEF React, vars, gotoVars, TypeInv, ModesOK, MotorsOK, TasksOK
<1> QED BY <1>1, <1>2, <1>3, ElsewhereKeeps DEF React, vars, gotoVars

LEMMA ReactStopKeeps ==
    ASSUME MonInv, RoomInside, ReactStop
    PROVE  MonInv'
<1>1. /\ m \in MonState /\ m.part \in Parts /\ m.pc = "stops" /\ TypeInv /\ MotorsOK
      /\ m.failed \in BOOLEAN
  BY DEF MonInv, MonTypes, MonState, ReactStop, TypeInv
<1>2. PICK ok \in BOOLEAN :
        /\ Drive(m.part, 0, ok)
        /\ \/ m' = [m EXCEPT !.try = 1]
           \/ m' = [m EXCEPT !.part = 1, !.try = 0, !.failed = FALSE, !.pass = 2]
           \/ \E b \in BOOLEAN : m' = OnPart([m EXCEPT !.try = 0, !.failed = b], "stops", "delete")
  BY <1>1 DEF ReactStop, Antenna_DriveEnd
<1>3. MotorCall /\ MotorsOK'
  BY <1>1, <1>2, StopCall, DriveType, FieldFacts
<1>4. TypeInv'
  BY <1>1, <1>3 DEF ReactStop, TypeInv, ModesOK, TasksOK
<1>5. m' \in MonState /\ m'.pc \in {"stops", "delete"}
  <2>1. CASE m' = [m EXCEPT !.try = 1]
    BY <1>1, <2>1, FieldFacts, Zenon DEF MonState
  <2>2. CASE m' = [m EXCEPT !.part = 1, !.try = 0, !.failed = FALSE, !.pass = 2]
    BY <1>1, <2>2, FieldFacts, Zenon DEF MonState
  <2>3. CASE \E b \in BOOLEAN :
               m' = OnPart([m EXCEPT !.try = 0, !.failed = b], "stops", "delete")
    <3>1. PICK b \in BOOLEAN :
               m' = OnPart([m EXCEPT !.try = 0, !.failed = b], "stops", "delete")
      BY <2>3
    <3>2. [m EXCEPT !.try = 0, !.failed = b] \in MonState
      BY <1>1, FieldFacts, Zenon DEF MonState
    <3> QED BY <3>1, <3>2, OnPartType DEF MonPlaces
  <2> QED BY <1>2, <2>1, <2>2, <2>3
<1> QED BY <1>1, <1>3, <1>4, <1>5, ElsewhereKeeps DEF ReactStop

LEMMA ReactDeleteKeeps ==
    ASSUME MonInv, RoomInside, ReactDelete
    PROVE  MonInv'
<1>1. m \in MonState /\ m.pc = "delete" /\ TypeInv /\ m.task + 1 \in Nat
  BY DEF MonInv, MonTypes, MonState, ReactDelete
<1>2. m' = [m EXCEPT !.pc = "react", !.task = m.task + 1] /\ "react" \in MonPlaces
  BY DEF ReactDelete, MonPlaces
<1>3. m' \in MonState /\ m'.pc = "react"
  BY <1>1, <1>2, Zenon DEF MonState
<1>4. Task_Run_Flag' \in [0..2 -> 0..1] /\ TasksOK'
  BY <1>1, DeleteType DEF ReactDelete
<1>5. TypeInv'
  BY <1>1, <1>4 DEF ReactDelete, TypeInv, ModesOK, MotorsOK
<1> QED BY <1>1, <1>3, <1>5, ElsewhereKeeps DEF ReactDelete

LEMMA ToStandbyKeeps ==
    ASSUME MonInv, RoomInside, ToStandby
    PROVE  MonInv'
<1>1. m \in MonState /\ m.pc = "standby" /\ TypeInv
  BY DEF MonInv, MonTypes, ToStandby
<1>2. m' \in MonState /\ m'.pc \in {"watch", "rest"}
  <2>1. [m EXCEPT !.pc = "watch", !.part = 1] \in MonState
        /\ [m EXCEPT !.pc = "watch", !.part = 1].pc = "watch"
    <3>1. "watch" \in MonPlaces
      BY DEF MonPlaces
    <3> QED BY <1>1, <3>1, FieldFacts, Zenon DEF MonState
  <2>2. Resting.pc = "rest"
    BY DEF Resting
  <2> QED BY <2>1, <2>2, RestingType DEF ToStandby
<1>3. SeekSat_Mode' \in 0..4 /\ dev_work_sta' \in {0, 16, 17, 32, 48, 64}
  BY <1>1 DEF ToStandby, AlarmMode, TypeInv, ModesOK
<1>4. TypeInv'
  BY <1>1, <1>3 DEF ToStandby, TypeInv, ModesOK, MotorsOK, TasksOK
<1> QED BY <1>1, <1>2, <1>4, ElsewhereKeeps DEF ToStandby

(* On in the watch over standby. *)
LEMMA WatchOn ==
    ASSUME m \in MonState, m' = Rested(OnPart(m, "watch", "rest"))
    PROVE  m' \in MonState /\ m'.pc \in {"watch", "rest"}
<1>1. /\ OnPart(m, "watch", "rest") \in MonState
      /\ OnPart(m, "watch", "rest").pc \in {"watch", "rest"}
  BY OnPartType DEF MonPlaces
<1>2. Resting.pc = "rest"
  BY DEF Resting
<1> QED BY <1>1, <1>2, RestingType DEF Rested

LEMMA StandbyKeeps ==
    ASSUME MonInv, RoomInside, StandbyTest \/ StandbyStop
    PROVE  MonInv'
<1>1. m \in MonState /\ m.part \in Parts /\ TypeInv /\ MotorsOK
  BY DEF MonInv, MonTypes, MonState, TypeInv
<1>2. CASE StandbyTest
  <2>1. m' \in MonState /\ m'.pc \in {"watch", "rest", "calm"}
    <3>1. [m EXCEPT !.pc = "calm"] \in MonState /\ [m EXCEPT !.pc = "calm"].pc = "calm"
      <4>1. "calm" \in MonPlaces
        BY DEF MonPlaces
      <4> QED BY <1>1, <4>1, Zenon DEF MonState
    <3>2. \/ m' = [m EXCEPT !.pc = "calm"]
          \/ m' = Rested(OnPart(m, "watch", "rest"))
      BY <1>2 DEF StandbyTest
    <3> QED BY <1>1, <3>1, <3>2, WatchOn
  <2>2. TypeInv'
    BY <1>1, <1>2 DEF StandbyTest, vars, gotoVars, TypeInv, ModesOK, MotorsOK, TasksOK
  <2> QED BY <1>2, <2>1, <2>2, ElsewhereKeeps DEF StandbyTest, vars, gotoVars
<1>3. CASE StandbyStop
  <2>1. PICK ok \in BOOLEAN : Drive(m.part, 0, ok)
    BY <1>3 DEF StandbyStop, Antenna_DriveEnd
  <2>2. MotorCall /\ MotorsOK'
    BY <1>1, <2>1, StopCall, DriveType, FieldFacts
  <2>3. TypeInv'
    BY <1>1, <1>3, <2>2 DEF StandbyStop, TypeInv, ModesOK, TasksOK
  <2>4. m' \in MonState /\ m'.pc \in {"watch", "rest"}
    BY <1>1, <1>3, WatchOn DEF StandbyStop
  <2> QED BY <1>3, <2>2, <2>3, <2>4, ElsewhereKeeps DEF StandbyStop
<1> QED BY <1>2, <1>3
-----------------------------------------------------------------------------
(* The antenna turns by one unit where a motor runs. *)
LEMMA SweptFacts ==
    ASSUME angle \in [Parts -> Angles], RoomInside
    PROVE  /\ Swept \in [Parts -> Angles]
           /\ \A p \in Parts : /\ motor[p] = LEFT /\ Swept[p] <= LowLimit => Swept[p] = angle[p] - 1
                               /\ motor[p] = RIGHT /\ Swept[p] >= HighLimit => Swept[p] = angle[p] + 1
<1>1. ASSUME NEW p \in Parts
      PROVE  /\ Swept[p] \in Angles
             /\ motor[p] = LEFT /\ Swept[p] <= LowLimit => Swept[p] = angle[p] - 1
             /\ motor[p] = RIGHT /\ Swept[p] >= HighLimit => Swept[p] = angle[p] + 1
  <2>1. angle[p] \in MinAngle..MaxAngle
    BY DEF Angles
  <2>2. Swept[p] = CASE motor[p] = LEFT -> Around(angle[p] - 1)
                     [] motor[p] = RIGHT -> Around(angle[p] + 1)
                     [] OTHER -> angle[p]
    BY DEF Swept
  <2> QED BY <2>1, <2>2, GotoAssumption DEF Around, Angles, LEFT, RIGHT, RoomInside
<1>2. Swept = [p \in Parts |-> Swept[p]]
  BY DEF Swept
<1> QED BY <1>1, <1>2

LEMMA PassBeginKeeps ==
    ASSUME MonInv, RoomInside, PassBegin
    PROVE  MonInv'
<1>1. /\ m \in MonState /\ m.pc = "rest" /\ TypeInv /\ angle \in [Parts -> Angles]
      /\ motor_limit_sta \in [Parts -> 0..2]
      /\ limit_alarm_cnt \in [Parts -> 0..(LimitCount - 1)]
  BY DEF MonInv, MonTypes, PassBegin, TypeInv, ModesOK
<1>2. /\ angle' \in [Parts -> Angles]
      /\ \A p \in Parts : /\ motor[p] = LEFT /\ angle'[p] <= LowLimit => angle'[p] = angle[p] - 1
                          /\ motor[p] = RIGHT /\ angle'[p] >= HighLimit => angle'[p] = angle[p] + 1
  BY <1>1, SweptFacts DEF PassBegin
<1>3. TypeInv'
  BY <1>1, <1>2 DEF PassBegin, TypeInv, ModesOK, MotorsOK, TasksOK
<1>4. m' \in MonState /\ m'.part = 1 /\ (pdu => m'.pc = "limit")
  <2>1. "limit" \in MonPlaces /\ "react" \in MonPlaces
    BY DEF MonPlaces
  <2>2. \A place \in MonPlaces, b \in BOOLEAN :
          LET r == [Resting EXCEPT !.pc = place, !.high = b]
          IN r \in MonState /\ r.pc = place /\ r.part = Resting.part
    BY RestingType, Zenon DEF MonState
  <2>3. PICK place \in MonPlaces, b \in BOOLEAN :
             m' = [Resting EXCEPT !.pc = place, !.high = b] /\ (pdu => place = "limit")
    <3>1. (~pdu \/ \E p \in Parts : ~coder[p]) \in BOOLEAN
      OBVIOUS
    <3> QED BY <2>1, <3>1 DEF PassBegin
  <2>4. Resting.part = 1
    BY DEF Resting
  <2>5. m' \in MonState /\ m'.pc = place /\ m'.part = Resting.part
    BY <2>2, <2>3, Zenon
  <2> QED BY <2>3, <2>4, <2>5
<1>5. MonTypes' /\ LinksStand' /\ MotorsKnown'
  BY <1>4 DEF PassBegin, MonInv, MonTypes, LinksStand, MotorsKnown
<1>6. ASSUME fails' = 0, links' = 0
      PROVE  (InsideClear /\ LowCounted /\ HighCounted)'
  <2>1. fails = 0 /\ links = 0 /\ pdu
    BY <1>6 DEF PassBegin, MonInv, LinksStand
  <2>2. InsideClear /\ LowCounted /\ HighCounted
    BY <2>1 DEF MonInv
  <2>3. \A p \in Parts : ~Untested(p) /\ ~AtStop(p) /\ Tested(p) = 1
    BY <1>1, ElsewhereTested DEF Tested
  <2>4. \A p \in Parts : Untested(p)' /\ Tested(p)' = 0
    BY <1>4, <2>1, PartsAssumption DEF Untested, Tested, Parts
  <2>5. InsideClear'
    BY <2>4 DEF InsideClear
  <2>6. UNCHANGED <<motor, motor_limit_sta, limit_alarm_cnt>>
    BY DEF PassBegin
  <2>7. \A p \in Parts : /\ angle[p] \in Int /\ limit_alarm_cnt[p] \in Nat
                         /\ LowLimit \in Int /\ HighLimit \in Int
    BY <1>1, GotoAssumption, MonitorAssumption DEF Angles
  <2>8. LowCounted'
    <3>1. ASSUME NEW p \in Parts, motor[p] = LEFT, angle'[p] <= LowLimit
          PROVE  /\ motor_limit_sta[p] # LEFT
                 /\ LowLimit - angle'[p] <= limit_alarm_cnt[p]
      <4>1. angle'[p] = angle[p] - 1
        BY <1>2, <3>1
      <4>2. CASE angle[p] <= LowLimit
        <5>1. /\ motor_limit_sta[p] # LEFT
              /\ LowLimit - angle[p] + 1 <= limit_alarm_cnt[p]
          BY <2>2, <2>3, <3>1, <4>2 DEF LowCounted
        <5> QED BY <2>7, <4>1, <5>1
      <4>3. CASE angle[p] > LowLimit
        <5>1. LowLimit < angle[p] /\ angle[p] < HighLimit /\ LowLimit - angle'[p] <= 0
          BY <2>7, <3>1, <4>1, <4>3 DEF RoomInside
        <5>2. motor_limit_sta[p] = 0 /\ limit_alarm_cnt[p] = 0
          BY <2>2, <2>3, <5>1 DEF InsideClear
        <5> QED BY <5>1, <5>2 DEF LEFT
      <4> QED BY <2>7, <4>2, <4>3
    <3>2. \A p \in Parts : angle'[p] \in Int
      BY <1>2 DEF Angles
    <3>3. \A p \in Parts : LowLimit - angle'[p] + 0 = LowLimit - angle'[p]
      BY <2>7, <3>2
    <3> QED BY <2>4, <2>6, <3>1, <3>3 DEF LowCounted
  <2>9. HighCounted'
    <3>1. ASSUME NEW p \in Parts, motor[p] = RIGHT, angle'[p] >= HighLimit
          PROVE  /\ motor_limit_sta[p] # RIGHT
                 /\ angle'[p] - HighLimit <= limit_alarm_cnt[p]
      <4>1. angle'[p] = angle[p] + 1
        BY <1>2, <3>1
      <4>2. CASE angle[p] >= HighLimit
        <5>1. /\ motor_limit_sta[p] # RIGHT
              /\ angle[p] - HighLimit + 1 <= limit_alarm_cnt[p]
          BY <2>2, <2>3, <3>1, <4>2 DEF HighCounted
        <5> QED BY <2>7, <4>1, <5>1
      <4>3. CASE angle[p] < HighLimit
        <5>1. LowLimit < angle[p] /\ angle[p] < HighLimit /\ angle'[p] - HighLimit <= 0
          BY <2>7, <3>1, <4>1, <4>3 DEF RoomInside
        <5>2. motor_limit_sta[p] = 0 /\ limit_alarm_cnt[p] = 0
          BY <2>2, <2>3, <5>1 DEF InsideClear
        <5> QED BY <5>1, <5>2 DEF RIGHT
      <4> QED BY <2>7, <4>2, <4>3
    <3>2. \A p \in Parts : angle'[p] \in Int
      BY <1>2 DEF Angles
    <3>3. \A p \in Parts : angle'[p] - HighLimit + 0 = angle'[p] - HighLimit
      BY <2>7, <3>2
    <3> QED BY <2>4, <2>6, <3>1, <3>3 DEF HighCounted
  <2> QED BY <2>5, <2>8, <2>9
<1> QED BY <1>3, <1>5, <1>6 DEF MonInv

(* The limit that a part is at. *)
LEMMA AtLimitFacts ==
    ASSUME angle \in [Parts -> Angles], RoomInside, NEW p \in Parts
    PROVE  /\ AtLimit(p) \in 0..2
           /\ AtLimit(p) = LEFT <=> angle[p] <= LowLimit
           /\ AtLimit(p) = RIGHT <=> angle[p] >= HighLimit
           /\ AtLimit(p) = 0 <=> LowLimit < angle[p] /\ angle[p] < HighLimit
<1>1. angle[p] \in Int /\ LowLimit \in Int /\ HighLimit \in Int
  BY GotoAssumption DEF Angles
<1> QED BY <1>1 DEF AtLimit, RoomInside, LEFT, RIGHT

LEMMA LimitTestKeeps ==
    ASSUME MonInv, RoomInside, LimitTest
    PROVE  MonInv'
<1> DEFINE p == m.part
           L == AtLimit(p)
           counted == limit_alarm_cnt[p] + 1 >= LimitCount
           reached == counted /\ motor_limit_sta[p] # L
<1>1. /\ m \in MonState /\ p \in Parts /\ m.pc = "limit" /\ TypeInv
      /\ angle \in [Parts -> Angles] /\ motor \in [Parts -> 0..2]
      /\ motor_limit_sta \in [Parts -> 0..2]
      /\ limit_alarm_cnt \in [Parts -> 0..(LimitCount - 1)]
  BY DEF MonInv, MonTypes, MonState, LimitTest, TypeInv, ModesOK, MotorsOK
<1>2. /\ L \in 0..2
      /\ L = LEFT <=> angle[p] <= LowLimit
      /\ L = RIGHT <=> angle[p] >= HighLimit
      /\ L = 0 <=> LowLimit < angle[p] /\ angle[p] < HighLimit
  BY <1>1, AtLimitFacts
<1>3. \/ /\ ~coder[p] \/ L = 0
         /\ motor_limit_sta' = [motor_limit_sta EXCEPT ![p] = 0]
         /\ limit_alarm_cnt' = [limit_alarm_cnt EXCEPT ![p] = 0]
         /\ m' = OnPart(m, "limit", "react")
      \/ /\ L # 0
         /\ limit_alarm_cnt' = [limit_alarm_cnt EXCEPT ![p] = IF counted THEN 0
                                                              ELSE limit_alarm_cnt[p] + 1]
         /\ motor_limit_sta' = [motor_limit_sta EXCEPT ![p] = IF reached THEN L
                                                              ELSE motor_limit_sta[p]]
         /\ \/ reached /\ LimitStops(p) /\ m' = [m EXCEPT !.pc = "stop", !.high = TRUE]
            \/ /\ ~(reached /\ LimitStops(p))
               /\ \E b \in BOOLEAN : m' = OnPart([m EXCEPT !.high = b], "limit", "react")
  <2>1. \A b \in BOOLEAN : (m.high \/ b) \in BOOLEAN
    OBVIOUS
  <2> QED BY <1>1, <2>1 DEF LimitTest
<1>4. UNCHANGED <<motor, motor_move, fails, angle, coder, pdu, links>> /\ TypeInv'
  BY <1>1 DEF LimitTest, vars, gotoVars, TypeInv, ModesOK, MotorsOK, TasksOK
<1> HIDE DEF p, L
<1>5. /\ m' \in MonState
      /\ \A q \in Parts : Untested(q)' <=> q > p
      /\ \A q \in Parts : AtStop(q)' => q = p /\ reached /\ LimitStops(p) /\ L # 0
      /\ (reached /\ LimitStops(p) /\ L # 0 /\ coder[p]) => \A q \in Parts : q = p => AtStop(q)'
  <2>1. CASE m' = [m EXCEPT !.pc = "stop", !.high = TRUE] /\ reached /\ LimitStops(p) /\ L # 0
    <3>1. "stop" \in MonPlaces
      BY DEF MonPlaces
    <3>2. m' \in MonState /\ m'.pc = "stop" /\ m'.part = p
      BY <1>1, <2>1, <3>1, Zenon DEF MonState, p
    <3>3. \A q \in Parts : q > p <=> p < q
      BY <1>1, PartOne
    <3> QED BY <1>1, <2>1, <3>2, <3>3 DEF Untested, AtStop
  <2>2. CASE /\ ~(reached /\ LimitStops(p) /\ L # 0 /\ coder[p])
             /\ \E r \in MonState : r.part = m.part /\ m' = OnPart(r, "limit", "react")
    BY <1>1, <2>2, OnPartTested DEF p
  <2>3. \A b \in BOOLEAN : [m EXCEPT !.high = b] \in MonState /\ [m EXCEPT !.high = b].part = m.part
    BY <1>1, Zenon DEF MonState
  <2> QED BY <1>1, <1>3, <2>1, <2>2, <2>3
<1>6. \A q \in Parts : q # p => /\ motor_limit_sta'[q] = motor_limit_sta[q]
                                /\ limit_alarm_cnt'[q] = limit_alarm_cnt[q]
  BY <1>1, <1>3
<1>7. LimitCount \in Nat \ {0}
  BY MonitorAssumption
<1>8. MonTypes' /\ LinksStand' /\ MotorsKnown'
  <2>1. motor_limit_sta' \in [Parts -> 0..2]
    BY <1>1, <1>2, <1>3
  <2>2. limit_alarm_cnt' \in [Parts -> 0..(LimitCount - 1)]
    <3>1. 0 \in 0..(LimitCount - 1)
      BY <1>7
    <3>2. ~counted => limit_alarm_cnt[p] + 1 \in 0..(LimitCount - 1)
      BY <1>1, <1>7
    <3> QED BY <1>1, <1>3, <3>1, <3>2
  <2> QED BY <1>4, <1>5, <2>1, <2>2 DEF MonInv, MonTypes, LinksStand, MotorsKnown
<1>9. ASSUME fails' = 0, links' = 0
      PROVE  (InsideClear /\ LowCounted /\ HighCounted)'
  <2>1. InsideClear /\ LowCounted /\ HighCounted /\ coder[p] /\ motor_move = motor
    BY <1>1, <1>4, <1>9 DEF MonInv, LinksStand, MotorsKnown
  <2>2. \A q \in Parts : /\ Untested(q) <=> q >= p
                         /\ ~AtStop(q)
                         /\ q # p => Tested(q)' = Tested(q) /\ (Untested(q)' <=> Untested(q))
    <3>1. \A q \in Parts : (Untested(q) <=> q >= p) /\ ~AtStop(q)
      BY <1>1, PartOne DEF Untested, AtStop, p
    <3>2. \A q \in Parts : q # p => (q > p <=> q >= p)
      BY <1>1, PartOne
    <3> QED BY <1>5, <3>1, <3>2 DEF Tested
  <2>3. \A q \in Parts : q = p => Tested(q) = 0 /\ Tested(q)' = 1
    BY <1>1, <1>5, <2>2, PartOne DEF Tested
  <2>4. InsideClear'
    <3>1. ASSUME NEW q \in Parts, LowLimit < angle[q], angle[q] < HighLimit, ~Untested(q)'
          PROVE  motor_limit_sta'[q] = 0 /\ limit_alarm_cnt'[q] = 0
      <4>1. CASE q = p
        BY <1>1, <1>2, <1>3, <3>1, <4>1
      <4>2. CASE q # p
        BY <1>6, <2>1, <2>2, <3>1, <4>2 DEF InsideClear
      <4> QED BY <4>1, <4>2
    <3> QED BY <1>4, <3>1 DEF InsideClear
  <2>5. angle[p] \in Int /\ LowLimit \in Int /\ HighLimit \in Int /\ limit_alarm_cnt[p] \in Nat
        /\ limit_alarm_cnt[p] <= LimitCount - 1
    BY <1>1, <1>7, GotoAssumption DEF Angles
  <2>6. LowCounted'
    <3>1. ASSUME NEW q \in Parts, motor[q] = LEFT, angle[q] <= LowLimit
          PROVE  \/ AtStop(q)' /\ LowLimit - angle[q] <= LimitCount - 1
                 \/ /\ motor_limit_sta'[q] # LEFT
                    /\ LowLimit - angle[q] + Tested(q)' <= limit_alarm_cnt'[q]
      <4>1. /\ motor_limit_sta[q] # LEFT
            /\ LowLimit - angle[q] + Tested(q) <= limit_alarm_cnt[q]
        BY <2>1, <2>2, <3>1 DEF LowCounted
      <4>2. CASE q # p
        BY <1>6, <2>2, <4>1, <4>2
      <4>3. CASE q = p
        <5>1. L = LEFT /\ L # 0 /\ LimitStops(p)
          BY <1>2, <2>1, <3>1, <4>3 DEF LimitStops, L, LEFT
        <5>2. LowLimit - angle[p] <= limit_alarm_cnt[p]
          BY <2>3, <2>5, <4>1, <4>3
        <5>3. CASE counted
          <6>1. reached
            BY <4>1, <4>3, <5>1, <5>3
          <6>2. AtStop(q)'
            BY <1>5, <2>1, <4>3, <5>1, <6>1
          <6>3. LowLimit - angle[p] <= LimitCount - 1
            BY <1>7, <2>5, <5>2
          <6> QED BY <4>3, <6>2, <6>3
        <5>4. CASE ~counted
          <6>1. motor_limit_sta'[p] = motor_limit_sta[p] /\ limit_alarm_cnt'[p] = limit_alarm_cnt[p] + 1
            BY <1>1, <1>3, <2>1, <5>1, <5>4
          <6>2. LowLimit - angle[p] + 1 <= limit_alarm_cnt[p] + 1
            BY <2>5, <5>2
          <6> QED BY <2>3, <4>1, <4>3, <6>1, <6>2
        <5> QED BY <5>3, <5>4
      <4> QED BY <4>2, <4>3
    <3> QED BY <1>4, <3>1 DEF LowCounted
  <2>7. HighCounted'
    <3>1. ASSUME NEW q \in Parts, motor[q] = RIGHT, angle[q] >= HighLimit
          PROVE  \/ AtStop(q)' /\ angle[q] - HighLimit <= LimitCount - 1
                 \/ /\ motor_limit_sta'[q] # RIGHT
                    /\ angle[q] - HighLimit + Tested(q)' <= limit_alarm_cnt'[q]
      <4>1. /\ motor_limit_sta[q] # RIGHT
            /\ angle[q] - HighLimit + Tested(q) <= limit_alarm_cnt[q]
        BY <2>1, <2>2, <3>1 DEF HighCounted
      <4>2. CASE q # p
        BY <1>6, <2>2, <4>1, <4>2
      <4>3. CASE q = p
        <5>1. L = RIGHT /\ L # 0 /\ LimitStops(p)
          BY <1>2, <2>1, <3>1, <4>3 DEF LimitStops, L, RIGHT
        <5>2. angle[p] - HighLimit <= limit_alarm_cnt[p]
          BY <2>3, <2>5, <4>1, <4>3
        <5>3. CASE counted
          <6>1. reached
            BY <4>1, <4>3, <5>1, <5>3
          <6>2. AtStop(q)'
            BY <1>5, <2>1, <4>3, <5>1, <6>1
          <6>3. angle[p] - HighLimit <= LimitCount - 1
            BY <1>7, <2>5, <5>2
          <6> QED BY <4>3, <6>2, <6>3
        <5>4. CASE ~counted
          <6>1. motor_limit_sta'[p] = motor_limit_sta[p] /\ limit_alarm_cnt'[p] = limit_alarm_cnt[p] + 1
            BY <1>1, <1>3, <2>1, <5>1, <5>4
          <6>2. angle[p] - HighLimit + 1 <= limit_alarm_cnt[p] + 1
            BY <2>5, <5>2
          <6> QED BY <2>3, <4>1, <4>3, <6>1, <6>2
        <5> QED BY <5>3, <5>4
      <4> QED BY <4>2, <4>3
    <3> QED BY <1>4, <3>1 DEF HighCounted
  <2> QED BY <2>4, <2>6, <2>7
<1> QED BY <1>4, <1>8, <1>9 DEF MonInv
-----------------------------------------------------------------------------
LEMMA MonInitInv ==
    ASSUME MonInit
    PROVE  MonInv
<1>1. TypeInv /\ m = Resting /\ links = 0 /\ pdu = TRUE
  BY InitType DEF MonInit
<1>2. MonTypes
  <2>1. 0 \in 0..(LimitCount - 1)
    BY MonitorAssumption
  <2> QED BY <1>1, <2>1, RestingType, FunFacts DEF MonInit, MonTypes
<1>3. LinksStand /\ MotorsKnown
  BY <1>1 DEF MonInit, Init, GotoInit, LinksStand, MotorsKnown
<1>4. \A p \in Parts : /\ motor[p] = 0 /\ motor_limit_sta[p] = 0 /\ limit_alarm_cnt[p] = 0
  BY DEF MonInit, Init, GotoInit
<1>5. InsideClear /\ LowCounted /\ HighCounted
  BY <1>4 DEF InsideClear, LowCounted, HighCounted, LEFT, RIGHT
<1> QED BY <1>1, <1>2, <1>3, <1>5 DEF MonInv

LEMMA MonNextInv ==
    ASSUME MonInv, RoomInside, [MonNext]_allVars
    PROVE  MonInv'
<1>1. CASE MonitorStep
  BY <1>1, PassBeginKeeps, LimitTestKeeps, LimitStopKeeps, ReactKeeps, ReactStopKeeps,
     ReactDeleteKeeps, ToStandbyKeeps, StandbyKeeps DEF MonitorStep
<1>2. CASE LinkChange
  <2>1. links' # 0 /\ links' \in Nat
    BY <1>2 DEF LinkChange, MonInv, MonTypes
  <2>2. TypeInv'
    BY <1>2 DEF LinkChange, MonInv, vars, gotoVars, TypeInv, ModesOK, MotorsOK, TasksOK
  <2>3. UNCHANGED <<m, motor_limit_sta, limit_alarm_cnt, motor, motor_move, fails>>
    BY <1>2 DEF LinkChange, vars, gotoVars
  <2> QED BY <2>1, <2>2, <2>3 DEF MonInv, MonTypes, LinksStand, MotorsKnown
<1>3. CASE /\ Command \/ HandlerStep \/ SatStep \/ GradStep \/ OfGoto(GotoStep)
           /\ UNCHANGED monVars
  <2>1. TypeInv /\ m \in MonState
    BY DEF MonInv, MonTypes
  <2>2. /\ TypeInv'
        /\ angle' = angle
        /\ UNCHANGED <<motor, motor_move, fails>> \/ MotorCall
    BY <1>3, <2>1, ModesCall
  <2>3. UNCHANGED <<m, motor_limit_sta, limit_alarm_cnt, coder, pdu, links>>
    BY <1>3 DEF monVars
  <2>4. \A p \in Parts : (Untested(p)' <=> Untested(p)) /\ (AtStop(p)' <=> AtStop(p))
    BY <2>3 DEF Untested, AtStop
  <2> QED BY <2>1, <2>2, <2>3, <2>4, CallKeeps
<1>4. CASE UNCHANGED allVars
  <2>1. TypeInv'
    BY <1>4 DEF allVars, MonInv, vars, gotoVars, TypeInv, ModesOK, MotorsOK, TasksOK
  <2>2. UNCHANGED <<m, motor_limit_sta, limit_alarm_cnt, coder, pdu, links, motor,
                    motor_move, fails, angle>>
    BY <1>4 DEF allVars, monVars, vars, gotoVars
  <2>3. \A p \in Parts : (Untested(p)' <=> Untested(p)) /\ (AtStop(p)' <=> AtStop(p))
    BY <2>2 DEF Untested, AtStop
  <2>4. m \in MonState
    BY DEF MonInv, MonTypes
  <2> QED BY <2>1, <2>2, <2>3, <2>4, CallKeeps
<1> QED BY <1>1, <1>2, <1>3, <1>4 DEF MonNext, OfModes, OfTask

(* While no call into the PDU link fails and the links stand, no motor     *)
(* drives a part further beyond a soft limit than the LimitCount passes    *)
(* that the monitor counts before it stops it: whoever started the motor,  *)
(* in whatever order commands, tasks and passes of the monitor run, and    *)
(* although one count serves both limits.  The limits have to leave one    *)
(* position between them, where the count is cleared.                      *)
THEOREM OvershootIsBounded ==
    ASSUME RoomInside
    PROVE  MonSpec => []OvershootBounded
<1>1. MonInit => MonInv
  BY MonInitInv
<1>2. MonInv /\ [MonNext]_allVars => MonInv'
  BY MonNextInv
<1>3. MonInv => OvershootBounded
  <2> SUFFICES ASSUME MonInv, fails = 0, links = 0, NEW p \in Parts
               PROVE  /\ motor[p] = LEFT => angle[p] > LowLimit - LimitCount
                      /\ motor[p] = RIGHT => angle[p] < HighLimit + LimitCount
    BY DEF OvershootBounded
  <2>1. LowCounted /\ HighCounted
    BY DEF MonInv
  <2>2. /\ angle[p] \in Int /\ LowLimit \in Int /\ HighLimit \in Int
        /\ limit_alarm_cnt[p] \in 0..(LimitCount - 1) /\ LimitCount \in Nat \ {0}
    BY GotoAssumption, MonitorAssumption DEF MonInv, MonTypes, TypeInv, ModesOK, Angles
  <2>3. Tested(p) \in 0..1
    BY DEF Tested
  <2>4. motor[p] = LEFT => angle[p] > LowLimit - LimitCount
    BY <2>1, <2>2, <2>3 DEF LowCounted
  <2>5. motor[p] = RIGHT => angle[p] < HighLimit + LimitCount
    BY <2>1, <2>2, <2>3 DEF HighCounted
  <2> QED BY <2>4, <2>5
<1> QED BY <1>1, <1>2, <1>3, PTL DEF MonSpec
=============================================================================
