-------------------------- MODULE ModeControl_proof --------------------------
(***************************************************************************)
(* Proofs about the working modes and the goto task, for any number of     *)
(* parts, any limits, any count of failures and any commands.              *)
(***************************************************************************)
EXTENDS ModeControl, TLAPS

GotoPlaces == {"idle", "begin", "start", "watch", "stop", "check", "loop", "pause",
               "end", "endmode", "endwrite"}

(* The locals of the goto task. *)
GotoState ==
    [pc : GotoPlaces, part : Parts, try : 0..1, stops : 0..2, back : {"next", "check"},
     round : 1..Rounds, aim : [Parts -> Angles \cup Garbage],
     old : [Parts -> Angles \cup Garbage], dir : [Parts -> 0..2], run : [Parts -> 0..1],
     err : [Parts -> 0..(StuckLimit + 1)]]

(* The locals of a command handler. *)
HandlerState ==
    [pc : {"idle", "stops", "log", "turn", "read", "launch", "step"},
     op : {"none", "mode0", "mode1", "mode2", "mode3", "turn", "step", "record"},
     part : Parts, dir : {0}, try : 0..1, failed : BOOLEAN, pass : 1..2]

MotorsOK == motor_move \in [Parts -> 0..2] /\ motor \in [Parts -> 0..2] /\ fails \in Nat

ModesOK ==
    /\ SeekSat_Mode \in 0..4
    /\ dev_work_sta \in {0, 16, 17, 32, 48, 64}
    /\ Task_Run_Flag \in [0..2 -> 0..1]
    /\ aim \in [Parts -> Angles]
    /\ aim_hand \in [Parts -> Angles]
    /\ angle \in [Parts -> Angles]

TasksOK ==
    /\ sat \in {"none", "new", "test", "leave", "exit"}
    /\ grad \in {"none", "new", "test", "leave"}

(* Inductive type correctness: with the locals as whole records, and a     *)
(* stop that is still to be made wherever the task is in one.              *)
TypeInv ==
    /\ ModesOK
    /\ MotorsOK
    /\ g \in GotoState
    /\ g.pc = "stop" => g.stops > 0
    /\ h \in HandlerState
    /\ TasksOK
-----------------------------------------------------------------------------
LEMMA PartOne == 1 \in Parts /\ NParts \in Nat /\ Parts \subseteq Nat
BY PartsAssumption DEF Parts

(* A call into the PDU link leaves the motors typed. *)
LEMMA DriveType ==
    ASSUME MotorsOK, NEW p \in Parts, NEW d \in 0..2, NEW ok, Drive(p, d, ok)
    PROVE  MotorsOK'
BY DEF MotorsOK, Drive

(* The constants of the records' fields are of their types. *)
LEMMA FieldFacts ==
    /\ 0 \in 0..1 /\ 1 \in 0..1
    /\ 0 \in 0..2 /\ 1 \in 0..2 /\ 2 \in 0..2
    /\ 1 \in 1..2 /\ 2 \in 1..2
    /\ 1 \in 1..Rounds
    /\ 0 \in 0..(StuckLimit + 1)
    /\ 1 \in Parts
    /\ LEFT \in 0..2 /\ RIGHT \in 0..2
BY GotoAssumption, PartOne DEF Rounds, LEFT, RIGHT

(* Functions that are set or changed as a whole. *)
LEMMA FunFacts ==
    /\ [p \in Parts |-> 0] \in [Parts -> 0..2]
    /\ [p \in Parts |-> 0] \in [Parts -> 0..1]
    /\ [p \in Parts |-> 0] \in [Parts -> 0..(StuckLimit + 1)]
BY FieldFacts

(* The fields of the goto task's locals. *)
LEMMA GotoFields ==
    ASSUME NEW r \in GotoState
    PROVE  /\ r.pc \in GotoPlaces /\ r.part \in Parts /\ r.try \in 0..1
           /\ r.stops \in 0..2 /\ r.back \in {"next", "check"} /\ r.round \in 1..Rounds
           /\ r.aim \in [Parts -> Angles \cup Garbage]
           /\ r.old \in [Parts -> Angles \cup Garbage]
           /\ r.dir \in [Parts -> 0..2] /\ r.run \in [Parts -> 0..1]
           /\ r.err \in [Parts -> 0..(StuckLimit + 1)]
BY DEF GotoState

(* On to the next part. *)
LEMMA NextPartType ==
    ASSUME NEW r \in GotoState, NEW again \in GotoPlaces, NEW after \in GotoPlaces,
           again # "stop", after # "stop"
    PROVE  /\ NextPart(r, again, after) \in GotoState
           /\ NextPart(r, again, after).pc # "stop"
           /\ NextPart(r, again, after).dir = r.dir
           /\ NextPart(r, again, after).run = r.run
           /\ NextPart(r, again, after).try = 0
           /\ NextPart(r, again, after).pc \in {again, after}
<1>1. r.part \in Parts /\ (r.part # NParts => r.part + 1 \in Parts)
  BY PartsAssumption DEF GotoState, Parts
<1> DEFINE s == [r EXCEPT !.try = 0, !.stops = 0, !.back = "next"]
<1>2. s \in GotoState
  BY FieldFacts, Zenon DEF GotoState
<1>3. s.dir = r.dir /\ s.run = r.run /\ s.try = 0 /\ s.part = r.part
  BY Zenon DEF GotoState
<1>4. CASE r.part = NParts
  <2>1. NextPart(r, again, after) = [s EXCEPT !.pc = after, !.part = 1]
    BY <1>4 DEF NextPart
  <2> HIDE DEF s
  <2> QED BY FieldFacts, <1>2, <1>3, <2>1, Zenon DEF GotoState
<1>5. CASE r.part # NParts
  <2>1. NextPart(r, again, after) = [s EXCEPT !.pc = again, !.part = s.part + 1]
    BY <1>5 DEF NextPart
  <2> HIDE DEF s
  <2>2. s.part + 1 \in Parts
    BY <1>1, <1>3, <1>5
  <2> QED BY <1>2, <1>3, <2>1, <2>2, Zenon DEF GotoState
<1> QED BY <1>4, <1>5
-----------------------------------------------------------------------------
(* What a call into the PDU link does to the motors. *)
LEMMA DriveEffect ==
    ASSUME MotorsOK, NEW p \in Parts, NEW d \in 0..2, NEW ok \in BOOLEAN, Drive(p, d, ok)
    PROVE  /\ \A q \in Parts : q # p => motor'[q] = motor[q] /\ motor_move'[q] = motor_move[q]
           /\ motor'[p] \in {motor[p], d}
           /\ motor_move'[p] \in {motor_move[p], d}
           /\ ok => motor'[p] = d /\ motor_move'[p] = d /\ fails' = fails
           /\ ~ok => fails' > 0
BY DEF MotorsOK, Drive

(* The direction to an aim. *)
LEMMA TowardType ==
    ASSUME NEW p \in Parts
    PROVE  Toward(p) \in 0..2
BY DEF Toward, LEFT, RIGHT

(* What a step of the goto task does to the motors. *)
LEMMA GotoStartMotors ==
    ASSUME TypeInv, GotoStart
    PROVE  /\ MotorsOK'
           /\ angle' = angle
           /\ \/ UNCHANGED <<motor, motor_move, fails>>
              \/ \E d \in 0..2, ok \in BOOLEAN : ~Refused(g.part, d) /\ Drive(g.part, d, ok)
<1> DEFINE d == IF g.try = 0 THEN Toward(g.part) ELSE g.dir[g.part]
<1>1. g.part \in Parts /\ g.dir \in [Parts -> 0..2]
  BY GotoFields DEF TypeInv
<1>2. d \in 0..2
  BY <1>1, TowardType
<1>3. \/ UNCHANGED <<motor, motor_move, fails>>
      \/ \E ok \in BOOLEAN : Antenna_DriveStart(g.part, d, ok)
  BY DEF GotoStart
<1> HIDE DEF d
<1>4. CASE UNCHANGED <<motor, motor_move, fails>>
  BY <1>4 DEF TypeInv, MotorsOK, GotoStart
<1>5. CASE \E ok \in BOOLEAN : Antenna_DriveStart(g.part, d, ok)
  <2>1. PICK ok \in BOOLEAN : Antenna_DriveStart(g.part, d, ok)
    BY <1>5
  <2>2. CASE Refused(g.part, d)
    BY <2>1, <2>2, <1>4 DEF Antenna_DriveStart
  <2>3. CASE ~Refused(g.part, d)
    <3>1. Drive(g.part, d, ok)
      BY <2>1, <2>3 DEF Antenna_DriveStart
    <3>2. MotorsOK'
      BY <3>1, <1>1, <1>2, DriveType DEF TypeInv
    <3> QED BY <1>2, <2>3, <3>1, <3>2 DEF GotoStart
  <2> QED BY <2>2, <2>3
<1> QED BY <1>3, <1>4, <1>5

(* The same of GotoStop. *)
LEMMA GotoStopMotors ==
    ASSUME TypeInv, GotoStop
    PROVE  /\ MotorsOK'
           /\ angle' = angle
           /\ \E ok \in BOOLEAN : Drive(g.part, 0, ok)
<1>1. g.part \in Parts
  BY GotoFields DEF TypeInv
<1>2. PICK ok \in BOOLEAN : Drive(g.part, 0, ok)
  BY DEF GotoStop, Antenna_DriveEnd
<1>3. MotorsOK'
  BY <1>1, <1>2, DriveType, FieldFacts DEF TypeInv
<1> QED BY <1>2, <1>3 DEF GotoStop

(* What a step of the goto task leaves of its locals is of their type, and *)
(* a stop is under way only while there is one to make.                    *)
GotoLocals == g \in GotoState /\ (g.pc = "stop" => g.stops > 0)

LEMMA GotoBeginType ==
    ASSUME TypeInv, GotoBegin
    PROVE  GotoLocals' /\ ModesOK'
<1>1. AimOfMode \in [Parts -> Angles \cup Garbage]
  <2>1. aim \in [Parts -> Angles \cup Garbage] /\ aim_hand \in [Parts -> Angles \cup Garbage]
    BY DEF TypeInv, ModesOK
  <2> QED BY <2>1, GotoFields DEF AimOfMode, TypeInv
<1>2. g' = [g EXCEPT !.pc = "start", !.part = 1, !.try = 0, !.round = 1, !.aim = AimOfMode,
                     !.run = [p \in Parts |-> 0], !.err = [p \in Parts |-> 0]]
  BY DEF GotoBegin
<1>3. "start" \in GotoPlaces
  BY DEF GotoPlaces
<1>4. g' \in GotoState
  BY <1>1, <1>2, <1>3, FieldFacts, FunFacts, Zenon DEF GotoState, TypeInv
<1>5. g'.pc = "start"
  BY <1>2, Zenon DEF GotoState, TypeInv
<1>6. ModesOK'
  BY DEF GotoBegin, TypeInv, ModesOK
<1> QED BY <1>4, <1>5, <1>6 DEF GotoLocals

LEMMA GotoStartType ==
    ASSUME TypeInv, GotoStart
    PROVE  GotoLocals'
<1> DEFINE p == g.part
           d == IF g.try = 0 THEN Toward(p) ELSE g.dir[p]
           r == [g EXCEPT !.dir = [g.dir EXCEPT ![p] = d]]
<1>1. g \in GotoState /\ p \in Parts /\ g.dir \in [Parts -> 0..2] /\ g.run \in [Parts -> 0..1]
  BY GotoFields DEF TypeInv
<1>2. d \in 0..2
  BY <1>1, TowardType
<1>3. [g.dir EXCEPT ![p] = d] \in [Parts -> 0..2]
  BY <1>1, <1>2
<1>4. r \in GotoState /\ r.run = g.run /\ r.pc = g.pc
  BY <1>1, <1>3, Zenon DEF GotoState
<1>5. \/ g' = NextPart([r EXCEPT !.run = [r.run EXCEPT ![p] = 0]], "start", "watch")
      \/ g' = NextPart([r EXCEPT !.run = [r.run EXCEPT ![p] = 1]], "start", "watch")
      \/ g' = [r EXCEPT !.try = 1]
      \/ g' = [r EXCEPT !.pc = "end"]
  BY DEF GotoStart
<1>6. g.pc = "start"
  BY DEF GotoStart
<1> HIDE DEF d, r, p
<1>7. \A b \in 0..1 : [r EXCEPT !.run = [r.run EXCEPT ![p] = b]] \in GotoState
  <2> TAKE b \in 0..1
  <2>1. [r.run EXCEPT ![p] = b] \in [Parts -> 0..1]
    BY <1>1, <1>4
  <2> QED BY <1>4, <2>1 DEF GotoState
<1>8. \A s \in GotoState : /\ NextPart(s, "start", "watch") \in GotoState
                           /\ NextPart(s, "start", "watch").pc # "stop"
  BY NextPartType DEF GotoPlaces
<1>9. [r EXCEPT !.try = 1] \in GotoState /\ [r EXCEPT !.try = 1].pc = "start"
  BY <1>4, <1>6, FieldFacts, Zenon DEF GotoState
<1>10. [r EXCEPT !.pc = "end"] \in GotoState /\ [r EXCEPT !.pc = "end"].pc = "end"
  BY <1>4 DEF GotoState, GotoPlaces
<1>11. g' \in GotoState /\ g'.pc # "stop"
  BY <1>5, <1>7, <1>8, <1>9, <1>10, FieldFacts
<1> QED BY <1>11 DEF GotoLocals

LEMMA GotoWatchType ==
    ASSUME TypeInv, GotoWatch
    PROVE  GotoLocals'
<1>1. g \in GotoState
  BY DEF TypeInv
<1>2. NextPart(g, "watch", "loop") \in GotoState /\ NextPart(g, "watch", "loop").pc # "stop"
  BY <1>1, NextPartType DEF GotoPlaces
<1>3. "stop" \in GotoPlaces /\ "check" \in GotoPlaces
  BY DEF GotoPlaces
<1>4. \A n \in 1..2 : LET r == [g EXCEPT !.pc = "stop", !.try = 0, !.back = "check", !.stops = n]
                      IN r \in GotoState /\ r.stops = n
  <2> TAKE n \in 1..2
  <2>1. n \in 0..2
    OBVIOUS
  <2> QED BY <1>1, <1>3, <2>1, FieldFacts, Zenon DEF GotoState
<1>5. [g EXCEPT !.pc = "check"] \in GotoState /\ [g EXCEPT !.pc = "check"].pc = "check"
  BY <1>1, <1>3, Zenon DEF GotoState
<1>6. \/ g' = NextPart(g, "watch", "loop")
      \/ g' = [g EXCEPT !.pc = "check"]
      \/ \E n \in 1..2 : g' = [g EXCEPT !.pc = "stop", !.try = 0, !.back = "check", !.stops = n]
  BY FieldFacts DEF GotoWatch
<1>7. CASE \E n \in 1..2 : g' = [g EXCEPT !.pc = "stop", !.try = 0, !.back = "check",
                                          !.stops = n]
  <2>1. PICK n \in 1..2 : g' = [g EXCEPT !.pc = "stop", !.try = 0, !.back = "check", !.stops = n]
    BY <1>7
  <2>2. g' \in GotoState /\ g'.stops = n
    BY <1>4, <2>1
  <2> QED BY <2>2 DEF GotoLocals
<1> QED BY <1>2, <1>5, <1>6, <1>7 DEF GotoLocals

LEMMA GotoStopType ==
    ASSUME TypeInv, GotoStop
    PROVE  GotoLocals'
<1> DEFINE p == g.part
           r == [g EXCEPT !.run = [g.run EXCEPT ![p] = 0], !.try = 0, !.stops = g.stops - 1]
<1>1. g \in GotoState /\ p \in Parts /\ g.run \in [Parts -> 0..1] /\ g.stops \in 0..2
      /\ g.pc = "stop" /\ g.stops > 0
  BY GotoFields DEF TypeInv, GotoStop
<1>2. g.stops - 1 \in 0..2 /\ [g.run EXCEPT ![p] = 0] \in [Parts -> 0..1]
  BY <1>1
<1>3. r \in GotoState
  BY <1>1, <1>2, FieldFacts, Zenon DEF GotoState
<1>4. \/ g' = [g EXCEPT !.try = 1] 
      \/ g' = [g EXCEPT !.pc = "end"]
      \/ g' = r /\ r.stops > 0
      \/ g' = [r EXCEPT !.pc = "check", !.back = "next"]
      \/ g' = NextPart(r, "watch", "loop")
  BY DEF GotoStop, StopFailed
<1> HIDE DEF r, p
<1>5. [g EXCEPT !.try = 1] \in GotoState /\ [g EXCEPT !.try = 1].stops = g.stops
  BY <1>1, FieldFacts, Zenon DEF GotoState
<1>6. [g EXCEPT !.pc = "end"] \in GotoState /\ [g EXCEPT !.pc = "end"].pc = "end"
  BY <1>1 DEF GotoState, GotoPlaces
<1>7. LET s == [r EXCEPT !.pc = "check", !.back = "next"]
      IN s \in GotoState /\ s.pc = "check"
  <2>1. "check" \in GotoPlaces
    BY DEF GotoPlaces
  <2> QED BY <1>3, <2>1, Zenon DEF GotoState
<1>8. NextPart(r, "watch", "loop") \in GotoState /\ NextPart(r, "watch", "loop").pc # "stop"
  BY <1>3, NextPartType DEF GotoPlaces
<1> QED BY <1>1, <1>3, <1>4, <1>5, <1>6, <1>7, <1>8 DEF GotoLocals

LEMMA GotoCheckType ==
    ASSUME TypeInv, GotoCheck
    PROVE  GotoLocals'
<1> DEFINE p == g.part
           r == [g EXCEPT !.err = [g.err EXCEPT ![p] = StillFor(p)]]
           s == [g EXCEPT !.old = [g.old EXCEPT ![p] = angle[p]],
                          !.err = [g.err EXCEPT ![p] = 0]]
<1>1. g \in GotoState /\ p \in Parts /\ g.err \in [Parts -> 0..(StuckLimit + 1)]
      /\ g.old \in [Parts -> Angles \cup Garbage] /\ angle \in [Parts -> Angles]
  BY GotoFields DEF TypeInv, ModesOK
<1>2. StillFor(p) \in 0..(StuckLimit + 1)
  BY <1>1, GotoAssumption DEF StillFor
<1>3. [g.err EXCEPT ![p] = StillFor(p)] \in [Parts -> 0..(StuckLimit + 1)]
  BY <1>1, <1>2
<1>4. r \in GotoState
  BY <1>1, <1>3, Zenon DEF GotoState
<1>5. /\ [g.old EXCEPT ![p] = angle[p]] \in [Parts -> Angles \cup Garbage]
      /\ [g.err EXCEPT ![p] = 0] \in [Parts -> 0..(StuckLimit + 1)]
  BY <1>1, FieldFacts
<1>6. s \in GotoState
  BY <1>1, <1>5, Zenon DEF GotoState
<1>7. \/ g' = NextPart(s, "watch", "loop")
      \/ g' = [r EXCEPT !.pc = "stop", !.try = 0, !.stops = 1, !.back = "next"]
      \/ g' = NextPart(r, "watch", "loop")
  BY DEF GotoCheck
<1> HIDE DEF r, s, p
<1>8. LET n == [r EXCEPT !.pc = "stop", !.try = 0, !.stops = 1, !.back = "next"]
      IN n \in GotoState /\ n.stops = 1
  <2>1. "stop" \in GotoPlaces
    BY DEF GotoPlaces
  <2> QED BY <1>4, <2>1, FieldFacts, Zenon DEF GotoState
<1>9. \A n \in GotoState : /\ NextPart(n, "watch", "loop") \in GotoState
                           /\ NextPart(n, "watch", "loop").pc # "stop"
  BY NextPartType DEF GotoPlaces
<1>10. CASE g' = [r EXCEPT !.pc = "stop", !.try = 0, !.stops = 1, !.back = "next"]
  <2>1. g' \in GotoState /\ g'.stops = 1
    BY <1>8, <1>10
  <2> QED BY <2>1 DEF GotoLocals
<1> QED BY <1>4, <1>6, <1>7, <1>9, <1>10 DEF GotoLocals

(* The places that only move on. *)
LEMMA GotoPlaceType ==
    ASSUME TypeInv, NEW place \in GotoPlaces, place # "stop", g' = [g EXCEPT !.pc = place]
    PROVE  GotoLocals'
<1>1. g \in GotoState
  BY DEF TypeInv
<1>2. g' \in GotoState /\ g'.pc = place
  BY <1>1, Zenon DEF GotoState
<1> QED BY <1>2 DEF GotoLocals

LEMMA GotoPauseType ==
    ASSUME TypeInv, GotoPause
    PROVE  GotoLocals'
<1>1. g \in GotoState /\ g.round \in 1..Rounds
  BY GotoFields DEF TypeInv
<1>2. CASE MoreRounds(g.round)
  <2>1. g.round + 1 \in 1..Rounds
    BY <1>1, <1>2 DEF MoreRounds, Rounds
  <2>2. "start" \in GotoPlaces
    BY DEF GotoPlaces
  <2>3. g' = [g EXCEPT !.pc = "start", !.part = 1, !.try = 0, !.round = g.round + 1]
    BY <1>2 DEF GotoPause
  <2>4. g' \in GotoState /\ g'.pc = "start"
    BY <1>1, <2>1, <2>2, <2>3, FieldFacts, Zenon DEF GotoState
  <2> QED BY <2>4 DEF GotoLocals
<1>3. CASE ~MoreRounds(g.round)
  BY <1>3, GotoPlaceType DEF GotoPause, GotoPlaces
<1> QED BY <1>2, <1>3

LEMMA GotoEndType ==
    ASSUME TypeInv, GotoEnd
    PROVE  GotoLocals' /\ ModesOK'
<1>1. g \in GotoState
  BY DEF TypeInv
<1>2. Forgotten(g) \in GotoState
  BY <1>1, FieldFacts, FunFacts, Zenon DEF Forgotten, GotoState
<1>3. g' = [Forgotten(g) EXCEPT !.pc = "endmode"] /\ "endmode" \in GotoPlaces
  BY DEF GotoEnd, GotoPlaces
<1>4. g' \in GotoState /\ g'.pc = "endmode"
  BY <1>2, <1>3, Zenon DEF GotoState
<1>5. ModesOK'
  BY DEF GotoEnd, TypeInv, ModesOK
<1> QED BY <1>4, <1>5 DEF GotoLocals

(* A step of the goto task keeps the types. *)
LEMMA GotoStepType ==
    ASSUME TypeInv, GotoStep
    PROVE  ModesOK' /\ MotorsOK' /\ GotoLocals'
<1>1. CASE GotoWake
  BY <1>1, GotoPlaceType DEF GotoWake, GotoPlaces, TypeInv, ModesOK, MotorsOK
<1>2. CASE GotoBegin
  BY <1>2, GotoBeginType DEF GotoBegin, TypeInv, MotorsOK
<1>3. CASE GotoStart
  BY <1>3, GotoStartType, GotoStartMotors DEF GotoStart, TypeInv, ModesOK
<1>4. CASE GotoWatch
  BY <1>4, GotoWatchType DEF GotoWatch, TypeInv, ModesOK, MotorsOK
<1>5. CASE GotoStop
  BY <1>5, GotoStopType, GotoStopMotors DEF GotoStop, TypeInv, ModesOK
<1>6. CASE GotoCheck
  BY <1>6, GotoCheckType DEF GotoCheck, TypeInv, ModesOK, MotorsOK
<1>7. CASE GotoLoop
  <2>1. \E place \in {"pause", "end", "watch"} : g' = [g EXCEPT !.pc = place]
    BY <1>7 DEF GotoLoop
  <2>2. GotoLocals'
    BY <2>1, GotoPlaceType DEF GotoPlaces
  <2> QED BY <1>7, <2>2 DEF GotoLoop, TypeInv, ModesOK, MotorsOK
<1>8. CASE GotoPause
  BY <1>8, GotoPauseType DEF GotoPause, TypeInv, ModesOK, MotorsOK
<1>9. CASE GotoEnd
  BY <1>9, GotoEndType DEF GotoEnd, TypeInv, MotorsOK
<1>10. CASE GotoEndMode
  <2>1. \E place \in {"endwrite", "idle"} : g' = [g EXCEPT !.pc = place]
    BY <1>10 DEF GotoEndMode
  <2>2. GotoLocals'
    BY <2>1, GotoPlaceType DEF GotoPlaces
  <2> QED BY <1>10, <2>2 DEF GotoEndMode, TypeInv, ModesOK, MotorsOK
<1>11. CASE GotoEndWrite
  BY <1>11, GotoPlaceType DEF GotoEndWrite, GotoPlaces, TypeInv, ModesOK, MotorsOK
<1> QED BY <1>1, <1>2, <1>3, <1>4, <1>5, <1>6, <1>7, <1>8, <1>9, <1>10, <1>11 DEF GotoStep
-----------------------------------------------------------------------------
(* The command handlers and the tracking tasks.                            *)

HandlerPlaces == {"idle", "stops", "log", "turn", "read", "launch", "step"}

HandlerOps == {"none", "mode0", "mode1", "mode2", "mode3", "turn", "step", "record"}

(* The locals of a handler that starts, moves on or is through. *)
LEMMA HandlerFacts ==
    /\ IdleHandler \in HandlerState
    /\ \A place \in HandlerPlaces, o \in HandlerOps :
         /\ [IdleHandler EXCEPT !.pc = place, !.op = o] \in HandlerState
         /\ \A p \in Parts :
              [IdleHandler EXCEPT !.pc = place, !.op = o, !.part = p] \in HandlerState
    /\ \A place \in HandlerPlaces, r \in HandlerState :
         [r EXCEPT !.pc = place] \in HandlerState
<1>1. IdleHandler \in HandlerState
  BY FieldFacts DEF IdleHandler, HandlerState
<1>2. ASSUME NEW place \in HandlerPlaces, NEW o \in HandlerOps, NEW p \in Parts,
             NEW r \in HandlerState
      PROVE  /\ [r EXCEPT !.pc = place, !.op = o] \in HandlerState
             /\ [r EXCEPT !.pc = place, !.op = o, !.part = p] \in HandlerState
             /\ [r EXCEPT !.pc = place] \in HandlerState
  BY Zenon DEF HandlerState, HandlerPlaces, HandlerOps
<1>3. "idle" \in HandlerPlaces /\ "none" \in HandlerOps /\ 1 \in Parts
  BY FieldFacts DEF HandlerPlaces, HandlerOps
<1> QED BY <1>1, <1>2, <1>3

(* The deletion of tasks. *)
LEMMA DeleteType ==
    ASSUME TypeInv, NEW S, Delete(S)
    PROVE  Task_Run_Flag' \in [0..2 -> 0..1] /\ TasksOK'
<1>1. \A i \in 0..2 : (IF i \in S THEN 0 ELSE Task_Run_Flag[i]) \in 0..1
  BY FieldFacts DEF TypeInv, ModesOK
<1>2. Task_Run_Flag' \in [0..2 -> 0..1]
  BY <1>1 DEF Delete
<1>3. TasksOK'
  BY DEF Delete, TypeInv, TasksOK
<1> QED BY <1>2, <1>3

(* The commands. *)
Commanded ==
    \/ \E op \in Commands : ModeSel(op)
    \/ ModeSelOther \/ RecordGoto \/ TurnCtr \/ TurnStop \/ SingleStep

LEMMA CommandType ==
    ASSUME TypeInv, Commanded
    PROVE  TypeInv'
<1> USE DEF TypeInv
<1>1. CASE \E op \in Commands : ModeSel(op)
  <2>1. PICK op \in Commands : ModeSel(op)
    BY <1>1
  <2>2. h' \in HandlerState
    <3>1. "stops" \in HandlerPlaces /\ op \in HandlerOps
      BY <2>1 DEF ModeSel, HandlerPlaces, HandlerOps
    <3>2. h' = [IdleHandler EXCEPT !.pc = "stops", !.op = op]
      BY <2>1 DEF ModeSel
    <3> QED BY <3>1, <3>2, HandlerFacts, Zenon
  <2>3. Task_Run_Flag' \in [0..2 -> 0..1] /\ TasksOK'
    BY <2>1, DeleteType DEF ModeSel
  <2> QED BY <2>1, <2>2, <2>3 DEF ModeSel, ModesOK, MotorsOK
<1>2. CASE ModeSelOther
  BY <1>2 DEF ModeSelOther, ModesOK, MotorsOK, TasksOK
<1>3. CASE RecordGoto
  <2>1. h' \in HandlerState
    <3>1. "stops" \in HandlerPlaces /\ "read" \in HandlerPlaces /\ "record" \in HandlerOps
      BY DEF HandlerPlaces, HandlerOps
    <3>2. \/ h' = [IdleHandler EXCEPT !.pc = "read", !.op = "record"]
          \/ h' = [IdleHandler EXCEPT !.pc = "stops", !.op = "record"]
      BY <1>3 DEF RecordGoto
    <3>3. CASE h' = [IdleHandler EXCEPT !.pc = "read", !.op = "record"]
      BY <3>1, <3>3, HandlerFacts, Zenon
    <3>4. CASE h' = [IdleHandler EXCEPT !.pc = "stops", !.op = "record"]
      BY <3>1, <3>4, HandlerFacts, Zenon
    <3> QED BY <3>2, <3>3, <3>4
  <2>2. CASE SeekSat_Mode = 0
    BY <1>3, <2>1, <2>2 DEF RecordGoto, ModesOK, MotorsOK, TasksOK
  <2>3. CASE SeekSat_Mode # 0
    <3>1. PICK S : Delete(S)
      BY <1>3, <2>3 DEF RecordGoto
    <3>2. Task_Run_Flag' \in [0..2 -> 0..1] /\ TasksOK'
      BY <3>1, DeleteType
    <3> QED BY <1>3, <2>1, <2>3, <3>2 DEF RecordGoto, ModesOK, MotorsOK
  <2> QED BY <2>2, <2>3
<1>4. CASE TurnCtr
  <2>1. h' \in HandlerState
    <3>1. "turn" \in HandlerPlaces /\ "turn" \in HandlerOps
      BY DEF HandlerPlaces, HandlerOps
    <3>2. h' = [IdleHandler EXCEPT !.pc = "turn", !.op = "turn"]
      BY <1>4 DEF TurnCtr
    <3> QED BY <3>1, <3>2, HandlerFacts, Zenon
  <2> QED BY <1>4, <2>1 DEF TurnCtr, ModesOK, MotorsOK, TasksOK
<1>5. CASE TurnStop
  <2>1. Task_Run_Flag' \in [0..2 -> 0..1] /\ TasksOK'
    BY <1>5, DeleteType DEF TurnStop
  <2> QED BY <1>5, <2>1 DEF TurnStop, ModesOK, MotorsOK
<1>6. CASE SingleStep
  <2>1. PICK p \in Parts, d \in {LEFT, RIGHT}, ok \in BOOLEAN :
             /\ Antenna_DriveStart(p, d, ok)
             /\ dev_work_sta' = IF ok THEN 16 ELSE 17
             /\ h' = IF ok THEN [IdleHandler EXCEPT !.pc = "step", !.op = "step", !.part = p]
                     ELSE IdleHandler
    BY <1>6 DEF SingleStep
  <2>2. h' \in HandlerState
    BY <2>1, HandlerFacts DEF HandlerPlaces, HandlerOps
  <2>3. MotorsOK'
    <3>1. CASE Refused(p, d)
      BY <2>1, <3>1 DEF Antenna_DriveStart, MotorsOK
    <3>2. CASE ~Refused(p, d)
      BY <2>1, <3>2, DriveType, FieldFacts DEF Antenna_DriveStart
    <3> QED BY <3>1, <3>2
  <2>4. ModesOK'
    BY <1>6, <2>1 DEF SingleStep, ModesOK
  <2> QED BY <1>6, <2>2, <2>3, <2>4 DEF SingleStep, TasksOK
<1> QED BY <1>1, <1>2, <1>3, <1>4, <1>5, <1>6 DEF Commanded

LEMMA HandlerStopType ==
    ASSUME TypeInv, HandlerStop
    PROVE  TypeInv'
<1>1. /\ h \in HandlerState /\ h.part \in Parts
      /\ h.failed \in BOOLEAN
  BY DEF TypeInv, HandlerState
<1>2. PICK ok \in BOOLEAN :
         /\ Drive(h.part, 0, ok)
         /\ \/ h' = [h EXCEPT !.try = 1] /\ UNCHANGED <<SeekSat_Mode, dev_work_sta, sat, grad>>
            \/ /\ h.part < NParts
               /\ \E b \in BOOLEAN :
                     h' = [h EXCEPT !.part = h.part + 1, !.try = 0, !.failed = b]
               /\ UNCHANGED <<SeekSat_Mode, dev_work_sta, sat, grad>>
            \/ /\ h' = [h EXCEPT !.part = 1, !.try = 0, !.failed = FALSE, !.pass = 2]
               /\ UNCHANGED <<SeekSat_Mode, dev_work_sta, sat, grad>>
            \/ AfterStops
  BY <1>1 DEF HandlerStop, Antenna_DriveEnd
<1>3. MotorsOK'
  BY <1>1, <1>2, DriveType, FieldFacts DEF TypeInv
<1>4. h' \in HandlerState
  <2>1. CASE h' = [h EXCEPT !.try = 1]
    BY <1>1, <2>1, FieldFacts, Zenon DEF HandlerState
  <2>2. CASE /\ h.part < NParts
             /\ \E b \in BOOLEAN : h' = [h EXCEPT !.part = h.part + 1, !.try = 0, !.failed = b]
    <3>1. h.part + 1 \in Parts
      BY <1>1, <2>2, PartsAssumption DEF Parts
    <3> QED BY <1>1, <2>2, <3>1, FieldFacts, Zenon DEF HandlerState
  <2>3. CASE h' = [h EXCEPT !.part = 1, !.try = 0, !.failed = FALSE, !.pass = 2]
    BY <1>1, <2>3, FieldFacts, Zenon DEF HandlerState
  <2>4. CASE AfterStops
    BY <1>1, <2>4, HandlerFacts DEF AfterStops, HandlerPlaces
  <2> QED BY <1>2, <2>1, <2>2, <2>3, <2>4
<1>5. /\ SeekSat_Mode' \in 0..4
      /\ dev_work_sta' \in {0, 16, 17, 32, 48, 64}
      /\ TasksOK'
  <2>1. CASE AfterStops
    BY <2>1 DEF AfterStops, TypeInv, ModesOK, TasksOK
  <2>2. CASE UNCHANGED <<SeekSat_Mode, dev_work_sta, sat, grad>>
    BY <2>2 DEF TypeInv, ModesOK, TasksOK
  <2> QED BY <1>2, <2>1, <2>2
<1>6. ModesOK'
  BY <1>5 DEF HandlerStop, TypeInv, ModesOK
<1> QED BY <1>3, <1>4, <1>5, <1>6 DEF HandlerStop, TypeInv

LEMMA HandlerType ==
    ASSUME TypeInv, HandlerStep
    PROVE  TypeInv'
<1> USE DEF TypeInv
<1>1. CASE HandlerStop
  BY <1>1, HandlerStopType
<1>2. CASE ModeWrite
  <2>1. ModesOK'
    BY <1>2 DEF ModeWrite, ModesOK, ModeOf
  <2> QED BY <1>2, <2>1, HandlerFacts DEF ModeWrite, MotorsOK, TasksOK
<1>3. CASE RecordRead
  <2>1. h' \in HandlerState
    BY <1>3, HandlerFacts DEF RecordRead, HandlerPlaces
  <2> QED BY <1>3, <2>1 DEF RecordRead, ModesOK, MotorsOK, TasksOK
<1>4. CASE RecordLaunch
  <2>1. Task_Run_Flag' \in [0..2 -> 0..1] /\ dev_work_sta' = 64
    BY <1>4 DEF RecordLaunch, ModesOK
  <2> QED BY <1>4, <2>1, HandlerFacts DEF RecordLaunch, ModesOK, MotorsOK, TasksOK
<1>5. CASE TurnLaunch
  <2>1. Task_Run_Flag' \in [0..2 -> 0..1]
    BY <1>5 DEF TurnLaunch, ModesOK
  <2> QED BY <1>5, <2>1, HandlerFacts DEF TurnLaunch, ModesOK, MotorsOK, TasksOK
<1>6. CASE SingleStepEnd
  <2>1. PICK ok \in BOOLEAN : Drive(h.part, 0, ok)
    BY <1>6 DEF SingleStepEnd, Antenna_DriveEnd
  <2>2. h.part \in Parts
    BY DEF HandlerState
  <2>3. MotorsOK'
    BY <2>1, <2>2, DriveType, FieldFacts
  <2> QED BY <1>6, <2>3, HandlerFacts DEF SingleStepEnd, ModesOK, TasksOK
<1> QED BY <1>1, <1>2, <1>3, <1>4, <1>5, <1>6 DEF HandlerStep

LEMMA TrackingType ==
    ASSUME TypeInv, SatStep \/ GradStep
    PROVE  TypeInv'
BY DEF SatStep, SatBegin, SatTest, SatLeave, SatExit, GradStep, GradBegin, GradTest,
       GradAfterTest, GradLeave, TypeInv, ModesOK, MotorsOK, TasksOK, gotoVars

(* The antenna turns. *)
LEMMA TurnType ==
    ASSUME TypeInv, NEW p \in Parts, OfGoto(Turn(p))
    PROVE  TypeInv'
<1>1. angle' \in [Parts -> Angles]
  BY DEF Turn, OfGoto, TypeInv, ModesOK
<1> QED BY <1>1 DEF Turn, OfGoto, TypeInv, ModesOK, MotorsOK, TasksOK
-----------------------------------------------------------------------------
(* Every state that Init allows is well typed. *)
LEMMA InitType ==
    ASSUME Init
    PROVE  TypeInv
<1>1. PICK local \in [Parts -> Garbage] :
         g = [pc |-> "idle", part |-> 1, try |-> 0, stops |-> 0, back |-> "next",
              round |-> 1, aim |-> local, old |-> local,
              dir |-> [p \in Parts |-> 0], run |-> [p \in Parts |-> 0],
              err |-> [p \in Parts |-> 0]]
  BY DEF Init, GotoInit
<1>2. local \in [Parts -> Angles \cup Garbage] /\ "idle" \in GotoPlaces
  BY DEF GotoPlaces
<1>3. g \in GotoState
  BY <1>1, <1>2, FieldFacts, FunFacts, Zenon DEF GotoState
<1>4. LowLimit \in Angles
  BY GotoAssumption DEF Angles
<1>5. ModesOK
  BY <1>4 DEF Init, GotoInit, ModesOK
<1>6. MotorsOK
  BY FunFacts DEF Init, GotoInit, MotorsOK
<1> QED BY <1>1, <1>3, <1>5, <1>6, HandlerFacts DEF Init, TypeInv, TasksOK

(* TypeInv is inductive. *)
LEMMA NextType ==
    ASSUME TypeInv, [Next]_vars
    PROVE  TypeInv'
<1>1. CASE Commanded
  BY <1>1, CommandType
<1>2. CASE HandlerStep
  BY <1>2, HandlerType
<1>3. CASE SatStep \/ GradStep
  BY <1>3, TrackingType
<1>4. CASE OfGoto(GotoStep)
  BY <1>4, GotoStepType DEF OfGoto, GotoLocals, TypeInv, TasksOK
<1>5. CASE \E p \in Parts : OfGoto(Turn(p))
  BY <1>5, TurnType
<1>6. CASE UNCHANGED vars
  BY <1>6 DEF vars, gotoVars, TypeInv, ModesOK, MotorsOK, TasksOK
<1> QED BY <1>1, <1>2, <1>3, <1>4, <1>5, <1>6 DEF Next, Commanded

(* Every reachable state of the modes, their tasks and the motors is well  *)
(* typed, for any number of parts, limits, failures and commands: in       *)
(* particular no handler or task goes past the last part, and the count of *)
(* passes without movement does not outgrow its cap.                       *)
THEOREM ModesTypeCorrect == Spec => []TypeOK
<1>1. Init => TypeInv
  BY InitType
<1>2. TypeInv /\ [Next]_vars => TypeInv'
  BY NextType
<1>3. TypeInv => TypeOK
  BY GotoFields DEF TypeInv, ModesOK, MotorsOK, TasksOK, HandlerState, GotoPlaces, TypeOK
<1> QED BY <1>1, <1>2, <1>3, PTL DEF Spec
-----------------------------------------------------------------------------
(* Rest after a round.                                                     *)

(* The start of part p is being tried once more: it may have reached the   *)
(* motor although it was not answered.                                     *)
Retried(p) == g.pc = "start" /\ g.part = p /\ g.try = 1

(* Inductive: a motor that this move has started and that counts as done   *)
(* is at rest, until the move is given up; a move begins with no           *)
(* directions of an earlier one; between rounds every motor is done.       *)
RestInv ==
    /\ g.pc # "end" =>
         \A p \in Parts : g.run[p] = 0 /\ g.dir[p] # 0 /\ ~Retried(p) =>
                            motor[p] = 0 /\ motor_move[p] = 0
    /\ g.pc \in {"endmode", "endwrite", "idle", "begin"} => \A p \in Parts : g.dir[p] = 0
    /\ g.pc = "pause" => \A p \in Parts : g.run[p] = 0

(* A step that leaves the task alone and starts no motor keeps it. *)
LEMMA OthersKeepRest ==
    ASSUME RestInv, g' = g,
           \A p \in Parts : /\ motor[p] = 0 => motor'[p] = 0
                            /\ motor_move[p] = 0 => motor_move'[p] = 0
    PROVE  RestInv'
BY DEF RestInv, Retried

(* Stopping a motor starts none. *)
LEMMA StopStartsNone ==
    ASSUME MotorsOK, NEW p \in Parts, NEW ok \in BOOLEAN, Drive(p, 0, ok)
    PROVE  \A q \in Parts : /\ motor[q] = 0 => motor'[q] = 0
                            /\ motor_move[q] = 0 => motor_move'[q] = 0
<1>1. /\ \A q \in Parts : q # p => motor'[q] = motor[q] /\ motor_move'[q] = motor_move[q]
      /\ motor'[p] \in {motor[p], 0}
      /\ motor_move'[p] \in {motor_move[p], 0}
  BY DriveEffect, FieldFacts
<1> QED BY <1>1

LEMMA StartKeepsRest ==
    ASSUME TypeInv, RestInv, GotoStart
    PROVE  RestInv'
<1> DEFINE p == g.part
           d == IF g.try = 0 THEN Toward(p) ELSE g.dir[p]
           r == [g EXCEPT !.dir = [g.dir EXCEPT ![p] = d]]
           n0 == [r EXCEPT !.run = [r.run EXCEPT ![p] = 0]]
           n1 == [r EXCEPT !.run = [r.run EXCEPT ![p] = 1]]
<1>1. /\ g \in GotoState /\ p \in Parts /\ g.dir \in [Parts -> 0..2]
      /\ g.run \in [Parts -> 0..1] /\ g.try \in 0..1 /\ g.pc = "start"
  BY GotoFields DEF TypeInv, GotoStart
<1>2. d \in 0..2
  BY <1>1, TowardType
<1>3. [g.dir EXCEPT ![p] = d] \in [Parts -> 0..2]
  BY <1>1, <1>2
<1>4. /\ r \in GotoState /\ r.run = g.run /\ r.pc = g.pc /\ r.part = p /\ r.try = g.try
      /\ r.dir = [g.dir EXCEPT ![p] = d]
  BY <1>1, <1>3, Zenon DEF GotoState
<1>5. \/ d = 0 /\ g' = NextPart(n0, "start", "watch") /\ UNCHANGED <<motor, motor_move>>
      \/ \E ok \in BOOLEAN :
           /\ Antenna_DriveStart(p, d, ok)
           /\ \/ ok /\ g' = NextPart(n1, "start", "watch")
              \/ g.try = 0 /\ g' = [r EXCEPT !.try = 1]
              \/ g' = [r EXCEPT !.pc = "end"]
  BY DEF GotoStart
<1> HIDE DEF d, r, p
<1>6. /\ n0 \in GotoState /\ n1 \in GotoState
      /\ n0.dir = r.dir /\ n1.dir = r.dir
      /\ n0.run = [g.run EXCEPT ![p] = 0] /\ n1.run = [g.run EXCEPT ![p] = 1]
  <2>1. [r.run EXCEPT ![p] = 0] \in [Parts -> 0..1] /\ [r.run EXCEPT ![p] = 1] \in [Parts -> 0..1]
    BY <1>1, <1>4
  <2> QED BY <1>4, <2>1, Zenon DEF GotoState
<1> HIDE DEF n0, n1
<1>7. \A q \in Parts : q # p => ~Retried(q)
  BY DEF Retried, p
<1>8. CASE d = 0 /\ g' = NextPart(n0, "start", "watch") /\ UNCHANGED <<motor, motor_move>>
  <2>1. g'.dir = r.dir /\ g'.run = n0.run /\ g'.try = 0 /\ g'.pc \in {"start", "watch"}
    BY <1>6, <1>8, NextPartType DEF GotoPlaces
  <2>2. /\ g'.dir[p] = 0
        /\ \A q \in Parts : q # p => g'.dir[q] = g.dir[q] /\ g'.run[q] = g.run[q]
    BY <1>1, <1>4, <1>6, <1>8, <2>1
  <2> QED BY <1>1, <1>7, <1>8, <2>1, <2>2 DEF RestInv
<1>9. CASE \E ok \in BOOLEAN :
             /\ Antenna_DriveStart(p, d, ok)
             /\ \/ ok /\ g' = NextPart(n1, "start", "watch")
                \/ g.try = 0 /\ g' = [r EXCEPT !.try = 1]
                \/ g' = [r EXCEPT !.pc = "end"]
  <2>1. PICK ok \in BOOLEAN :
             /\ Antenna_DriveStart(p, d, ok)
             /\ \/ ok /\ g' = NextPart(n1, "start", "watch")
                \/ g.try = 0 /\ g' = [r EXCEPT !.try = 1]
                \/ g' = [r EXCEPT !.pc = "end"]
    BY <1>9
  <2>2. \A q \in Parts : q # p => motor'[q] = motor[q] /\ motor_move'[q] = motor_move[q]
    <3>1. CASE Refused(p, d)
      BY <2>1, <3>1 DEF Antenna_DriveStart
    <3>2. CASE ~Refused(p, d)
      BY <1>1, <1>2, <2>1, <3>2, DriveEffect DEF Antenna_DriveStart, TypeInv
    <3> QED BY <3>1, <3>2
  <2>3. CASE g' = NextPart(n1, "start", "watch")
    <3>1. g'.dir = r.dir /\ g'.run = n1.run /\ g'.try = 0 /\ g'.pc \in {"start", "watch"}
      BY <1>6, <2>3, NextPartType DEF GotoPlaces
    <3>2. /\ g'.run[p] = 1
          /\ \A q \in Parts : q # p => g'.dir[q] = g.dir[q] /\ g'.run[q] = g.run[q]
      BY <1>1, <1>4, <1>6, <3>1
    <3> QED BY <1>1, <1>7, <2>2, <3>1, <3>2 DEF RestInv
  <2>4. CASE g' = [r EXCEPT !.try = 1]
    <3>1. g'.dir = r.dir /\ g'.run = r.run /\ g'.try = 1 /\ g'.pc = "start" /\ g'.part = p
      BY <1>1, <1>4, <2>4, Zenon DEF GotoState
    <3>2. \A q \in Parts : q # p => g'.dir[q] = g.dir[q] /\ g'.run[q] = g.run[q]
      BY <1>1, <1>4, <3>1
    <3>3. \A q \in Parts : q = p => Retried(q)'
      BY <3>1 DEF Retried
    <3> QED BY <1>1, <1>7, <2>2, <3>1, <3>2, <3>3 DEF RestInv
  <2>5. CASE g' = [r EXCEPT !.pc = "end"]
    <3>1. g'.pc = "end"
      BY <1>4, <2>5, Zenon DEF GotoState
    <3> QED BY <3>1 DEF RestInv
  <2> QED BY <2>1, <2>3, <2>4, <2>5
<1> QED BY <1>5, <1>8, <1>9

LEMMA StopKeepsRest ==
    ASSUME TypeInv, RestInv, GotoStop
    PROVE  RestInv'
<1> DEFINE p == g.part
           r == [g EXCEPT !.run = [g.run EXCEPT ![p] = 0], !.try = 0, !.stops = g.stops - 1]
<1>1. /\ g \in GotoState /\ p \in Parts /\ g.run \in [Parts -> 0..1]
      /\ g.dir \in [Parts -> 0..2] /\ g.stops \in 0..2 /\ g.pc = "stop" /\ g.stops > 0
  BY GotoFields DEF TypeInv, GotoStop
<1>2. g.stops - 1 \in 0..2 /\ [g.run EXCEPT ![p] = 0] \in [Parts -> 0..1]
  BY <1>1
<1>3. /\ r \in GotoState /\ r.dir = g.dir /\ r.run = [g.run EXCEPT ![p] = 0]
      /\ r.pc = "stop"
  BY <1>1, <1>2, FieldFacts, Zenon DEF GotoState
<1>4. PICK ok \in BOOLEAN :
        /\ Drive(p, 0, ok)
        /\ \/ g' = [g EXCEPT !.try = 1]
           \/ g' = [g EXCEPT !.pc = "end"]
           \/ /\ ok
              /\ \/ g' = r
                 \/ g' = [r EXCEPT !.pc = "check", !.back = "next"]
                 \/ g' = NextPart(r, "watch", "loop")
  BY DEF GotoStop, StopFailed, Antenna_DriveEnd
<1> HIDE DEF r, p
<1>5. \A q \in Parts : /\ motor[q] = 0 => motor'[q] = 0
                       /\ motor_move[q] = 0 => motor_move'[q] = 0
  BY <1>1, <1>4, StopStartsNone DEF TypeInv
<1>6. \A q \in Parts : ~Retried(q)
  BY <1>1 DEF Retried
<1>7. CASE g' = [g EXCEPT !.try = 1]
  <2>1. g'.pc = "stop" /\ g'.run = g.run /\ g'.dir = g.dir
    BY <1>1, <1>7, Zenon DEF GotoState
  <2> QED BY <1>1, <1>5, <1>6, <2>1 DEF RestInv
<1>8. CASE g' = [g EXCEPT !.pc = "end"]
  <2>1. g'.pc = "end"
    BY <1>1, <1>8, Zenon DEF GotoState
  <2> QED BY <2>1 DEF RestInv
<1>9. CASE ok /\ \/ g' = r
                 \/ g' = [r EXCEPT !.pc = "check", !.back = "next"]
                 \/ g' = NextPart(r, "watch", "loop")
  <2>1. g'.run = r.run /\ g'.dir = r.dir /\ g'.pc \in {"stop", "check", "watch", "loop"}
    <3>1. CASE g' = r
      BY <1>3, <3>1
    <3>2. CASE g' = [r EXCEPT !.pc = "check", !.back = "next"]
      BY <1>3, <3>2, Zenon DEF GotoState
    <3>3. CASE g' = NextPart(r, "watch", "loop")
      BY <1>3, <3>3, NextPartType DEF GotoPlaces
    <3> QED BY <1>9, <3>1, <3>2, <3>3
  <2>2. motor'[p] = 0 /\ motor_move'[p] = 0
    BY <1>1, <1>4, <1>9, DriveEffect, FieldFacts DEF TypeInv
  <2>3. \A q \in Parts : q # p => g'.run[q] = g.run[q] /\ g'.dir[q] = g.dir[q]
    BY <1>1, <1>3, <2>1
  <2> QED BY <1>1, <1>5, <1>6, <2>1, <2>2, <2>3 DEF RestInv
<1> QED BY <1>4, <1>7, <1>8, <1>9

(* The steps of the task that call nobody and go on in the same move. *)
LEMMA SameMove ==
    ASSUME TypeInv, RestInv, UNCHANGED <<motor, motor_move>>, g.pc # "end",
           g'.run = g.run, g'.dir = g.dir, g'.pc \in GotoPlaces,
           \A p \in Parts : ~Retried(p),
           g'.pc \in {"endmode", "endwrite", "idle", "begin"} =>
              g.pc \in {"endmode", "endwrite", "idle", "begin"},
           g'.pc = "pause" => \A p \in Parts : g.run[p] = 0
    PROVE  RestInv'
BY DEF RestInv

LEMMA GotoKeepsRest ==
    ASSUME TypeInv, RestInv, GotoStep
    PROVE  RestInv'
<1>0. g \in GotoState /\ (g.pc # "start" => \A p \in Parts : ~Retried(p))
  BY DEF TypeInv, Retried
<1>a. ASSUME NEW place, NEW again, g' = NextPart(again, place, "loop"), place = "watch",
             again \in GotoState, again.run = g.run, again.dir = g.dir
      PROVE  g'.run = g.run /\ g'.dir = g.dir /\ g'.pc \in {"watch", "loop"}
  BY <1>a, NextPartType DEF GotoPlaces
<1>1. CASE GotoWake
  <2>1. g'.run = g.run /\ g'.dir = g.dir /\ g'.pc = "begin"
    BY <1>0, <1>1, Zenon DEF GotoWake, GotoState
  <2> QED BY <1>0, <1>1, <2>1, SameMove DEF GotoWake, GotoPlaces
<1>2. CASE GotoBegin
  <2>1. g'.dir = g.dir /\ g'.pc = "start"
    BY <1>0, <1>2, Zenon DEF GotoBegin, GotoState
  <2> QED BY <1>2, <2>1 DEF RestInv, GotoBegin
<1>3. CASE GotoStart
  BY <1>3, StartKeepsRest
<1>4. CASE GotoWatch
  <2>1. \/ g' = NextPart(g, "watch", "loop")
        \/ g' = [g EXCEPT !.pc = "check"]
        \/ \E n \in 1..2 : g' = [g EXCEPT !.pc = "stop", !.try = 0, !.back = "check", !.stops = n]
    BY <1>4, FieldFacts DEF GotoWatch
  <2>2. g'.run = g.run /\ g'.dir = g.dir /\ g'.pc \in {"watch", "loop", "check", "stop"}
    <3>1. CASE g' = NextPart(g, "watch", "loop")
      BY <1>0, <3>1, <1>a
    <3>2. CASE g' = [g EXCEPT !.pc = "check"]
      BY <1>0, <3>2, Zenon DEF GotoState
    <3>3. CASE \E n \in 1..2 : g' = [g EXCEPT !.pc = "stop", !.try = 0, !.back = "check",
                                              !.stops = n]
      BY <1>0, <3>3, Zenon DEF GotoState
    <3> QED BY <2>1, <3>1, <3>2, <3>3
  <2> QED BY <1>0, <1>4, <2>2, SameMove DEF GotoWatch, GotoPlaces
<1>5. CASE GotoStop
  BY <1>5, StopKeepsRest
<1>6. CASE GotoCheck
  <2> DEFINE p == g.part
             r == [g EXCEPT !.err = [g.err EXCEPT ![p] = StillFor(p)]]
             s == [g EXCEPT !.old = [g.old EXCEPT ![p] = angle[p]],
                            !.err = [g.err EXCEPT ![p] = 0]]
  <2>1. \/ g' = NextPart(s, "watch", "loop")
        \/ g' = [r EXCEPT !.pc = "stop", !.try = 0, !.stops = 1, !.back = "next"]
        \/ g' = NextPart(r, "watch", "loop")
    BY <1>6 DEF GotoCheck
  <2>2. /\ p \in Parts /\ g.err \in [Parts -> 0..(StuckLimit + 1)]
        /\ g.old \in [Parts -> Angles \cup Garbage] /\ angle \in [Parts -> Angles]
    BY <1>0, GotoFields DEF TypeInv, ModesOK
  <2>3. StillFor(p) \in 0..(StuckLimit + 1)
    BY <2>2, GotoAssumption DEF StillFor
  <2>4. /\ [g.err EXCEPT ![p] = StillFor(p)] \in [Parts -> 0..(StuckLimit + 1)]
        /\ [g.old EXCEPT ![p] = angle[p]] \in [Parts -> Angles \cup Garbage]
        /\ [g.err EXCEPT ![p] = 0] \in [Parts -> 0..(StuckLimit + 1)]
    BY <2>2, <2>3, FieldFacts
  <2>5. r \in GotoState /\ s \in GotoState
    BY <1>0, <2>4, Zenon DEF GotoState
  <2>6. r.run = g.run /\ r.dir = g.dir /\ s.run = g.run /\ s.dir = g.dir
    BY <1>0, Zenon DEF GotoState
  <2> HIDE DEF r, s, p
  <2>7. g'.run = g.run /\ g'.dir = g.dir /\ g'.pc \in {"watch", "loop", "stop"}
    <3>1. CASE g' = NextPart(s, "watch", "loop")
      BY <2>5, <2>6, <3>1, <1>a
    <3>2. CASE g' = NextPart(r, "watch", "loop")
      BY <2>5, <2>6, <3>2, <1>a
    <3>3. CASE g' = [r EXCEPT !.pc = "stop", !.try = 0, !.stops = 1, !.back = "next"]
      BY <2>5, <2>6, <3>3, Zenon DEF GotoState
    <3> QED BY <2>1, <3>1, <3>2, <3>3
  <2> QED BY <1>0, <1>6, <2>7, SameMove DEF GotoCheck, GotoPlaces
<1>7. CASE GotoLoop
  <2>1. PICK place \in {"pause", "end", "watch"} :
           g' = [g EXCEPT !.pc = place] /\ (place = "pause" => \A p \in Parts : g.run[p] = 0)
    BY <1>7 DEF GotoLoop
  <2>2. g'.run = g.run /\ g'.dir = g.dir /\ g'.pc = place
    BY <1>0, <2>1, Zenon DEF GotoState
  <2> QED BY <1>0, <1>7, <2>1, <2>2, SameMove DEF GotoLoop, GotoPlaces
<1>8. CASE GotoPause
  <2>1. g'.run = g.run /\ g'.dir = g.dir /\ g'.pc \in {"start", "end"}
    <3>1. CASE MoreRounds(g.round)
      <4>1. g' = [g EXCEPT !.pc = "start", !.part = 1, !.try = 0, !.round = g.round + 1]
        BY <1>8, <3>1 DEF GotoPause
      <4> QED BY <1>0, <4>1, Zenon DEF GotoState
    <3>2. CASE ~MoreRounds(g.round)
      BY <1>0, <1>8, <3>2, Zenon DEF GotoPause, GotoState
    <3> QED BY <3>1, <3>2
  <2> QED BY <1>0, <1>8, <2>1, SameMove DEF GotoPause, GotoPlaces
<1>9. CASE GotoEnd
  <2>1. Forgotten(g) \in GotoState /\ Forgotten(g).dir = [p \in Parts |-> 0]
    BY <1>0, FieldFacts, FunFacts, Zenon DEF Forgotten, GotoState
  <2>2. g' = [Forgotten(g) EXCEPT !.pc = "endmode"]
    BY <1>9 DEF GotoEnd
  <2>3. g'.dir = [p \in Parts |-> 0] /\ g'.pc = "endmode"
    BY <2>1, <2>2, Zenon DEF GotoState
  <2> QED BY <2>3 DEF RestInv
<1>10. CASE GotoEndMode
  <2>1. PICK place \in {"endwrite", "idle"} : g' = [g EXCEPT !.pc = place]
    BY <1>10 DEF GotoEndMode
  <2>2. g'.run = g.run /\ g'.dir = g.dir /\ g'.pc = place
    BY <1>0, <2>1, Zenon DEF GotoState
  <2> QED BY <1>0, <1>10, <2>1, <2>2, SameMove DEF GotoEndMode, GotoPlaces
<1>11. CASE GotoEndWrite
  <2>1. g'.run = g.run /\ g'.dir = g.dir /\ g'.pc = "idle"
    BY <1>0, <1>11, Zenon DEF GotoEndWrite, GotoState
  <2> QED BY <1>0, <1>11, <2>1, SameMove DEF GotoEndWrite, GotoPlaces
<1> QED BY <1>1, <1>2, <1>3, <1>4, <1>5, <1>6, <1>7, <1>8, <1>9, <1>10, <1>11 DEF GotoStep

(* As long as nobody makes a single step in between, every motor that a    *)
(* round has started is at rest when the next round begins: whatever calls *)
(* fail, and however often the move is called off, begun again or met by   *)
(* other commands.                                                         *)
THEOREM RoundsEndAtRest ==
    ASSUME "step" \notin Commands
    PROVE  Spec => []RestAfterRound
<1>1. Init => RestInv
  <2> SUFFICES ASSUME Init PROVE RestInv
    OBVIOUS
  <2>1. g.pc = "idle" /\ g.dir = [p \in Parts |-> 0]
    BY DEF Init, GotoInit
  <2> QED BY <2>1 DEF RestInv
<1>2. TypeInv /\ RestInv /\ [Next]_vars => RestInv'
  <2> SUFFICES ASSUME TypeInv, RestInv, [Next]_vars
               PROVE  RestInv'
    OBVIOUS
  <2>1. CASE Commanded
    <3>1. g' = g /\ UNCHANGED <<motor, motor_move>>
      BY <2>1 DEF Commanded, ModeSel, ModeSelOther, RecordGoto, TurnCtr, TurnStop,
                  SingleStep, Begin
    <3> QED BY <3>1, OthersKeepRest
  <2>2. CASE HandlerStep
    <3>1. h.part \in Parts /\ MotorsOK
      BY DEF TypeInv, HandlerState
    <3>2. g' = g /\ (UNCHANGED <<motor, motor_move>> \/ \E ok \in BOOLEAN : Drive(h.part, 0, ok))
      BY <2>2 DEF HandlerStep, HandlerStop, ModeWrite, RecordRead, RecordLaunch, TurnLaunch,
                  SingleStepEnd, Antenna_DriveEnd
    <3>3. CASE UNCHANGED <<motor, motor_move>>
      BY <3>2, <3>3, OthersKeepRest
    <3>4. CASE \E ok \in BOOLEAN : Drive(h.part, 0, ok)
      BY <3>1, <3>2, <3>4, StopStartsNone, OthersKeepRest
    <3> QED BY <3>2, <3>3, <3>4
  <2>3. CASE SatStep \/ GradStep
    <3>1. g' = g /\ UNCHANGED <<motor, motor_move>>
      BY <2>3 DEF SatStep, SatBegin, SatTest, SatLeave, SatExit, GradStep, GradBegin,
                  GradTest, GradLeave, gotoVars
    <3> QED BY <3>1, OthersKeepRest
  <2>4. CASE OfGoto(GotoStep)
    BY <2>4, GotoKeepsRest DEF OfGoto
  <2>5. CASE \E p \in Parts : OfGoto(Turn(p))
    BY <2>5, OthersKeepRest DEF OfGoto, Turn
  <2>6. CASE UNCHANGED vars
    BY <2>6, OthersKeepRest DEF vars, gotoVars
  <2> QED BY <2>1, <2>2, <2>3, <2>4, <2>5, <2>6 DEF Next, Commanded
<1>3. TypeInv /\ RestInv => RestAfterRound
  BY DEF RestInv, RestAfterRound, Retried
<1>4. Init => TypeInv
  BY InitType
<1>5. TypeInv /\ [Next]_vars => TypeInv'
  BY NextType
<1> QED BY <1>1, <1>2, <1>3, <1>4, <1>5, PTL DEF Spec
=============================================================================
