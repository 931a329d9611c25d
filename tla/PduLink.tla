------------------------------- MODULE PduLink -------------------------------
(***************************************************************************)
(* The link between the antenna control unit and the power drive unit      *)
(* (PDU): one UART (UART4) shared by every task that moves a motor or      *)
(* polls the PDU.                                                          *)
(*                                                                         *)
(* Sources: APP/src/app_motor.c, APP/src/app_pducomm.c, APP/src/app_gps.c, *)
(* HW/hw_pducomm.c (driver and receive interrupt), BSP/src/bsp_os.c and    *)
(* the kernel semaphore it wraps.                                          *)
(*                                                                         *)
(* Every request follows the same path, and pc[t] says where task t is:    *)
(*   idle   not in a PDU call                                              *)
(*   pdu    pended on APP_PDU_Send_Sem (blocked while on its pend list)    *)
(*   uart   in SWIFT_UART4_SendBuff, pended on SWIFT_UART4_Send_Sem        *)
(*   tx     receive buffer cleared, frame being transmitted                *)
(*   sent   frame sent, about to pend on SWIFT_UART4_Rev_Sem               *)
(*   rev    pended on SWIFT_UART4_Rev_Sem with a timeout                   *)
(*   done   verdict known, about to post APP_PDU_Send_Sem                  *)
(* Lock tasks take the whole path.  Direct tasks call Motor_DriveStart,    *)
(* Motor_DriveEnd or APP_GPS_DataGet themselves, without APP_PDU_Send_Sem. *)
(*                                                                         *)
(* Frames are abstracted to the request they carry or answer; only the     *)
(* command bytes (op) are visible to the code, the part and the serial     *)
(* number id of the request answered are there for the properties.         *)
(* Directions are the antenna's: AntennaDirMapMotor turns them into the    *)
(* motor's by a fixed table, for the start and for what the motor does.    *)
(***************************************************************************)
EXTENDS BspSem, Integers, Sequences, FiniteSets

CONSTANTS
    LockTasks,      \* tasks that go through APP_PDU_Send_Sem
    DirectTasks,    \* tasks that use the UART without it
    Parts,          \* the motors driven: 1 azimuth, 2 elevation, 3 polarisation
    LockOps,        \* requests the lock tasks make
    DirectOps,      \* requests the direct tasks make
    Lossy,          \* may the line lose a frame
    Late,           \* may an answer come after its timeout
    ReplyBytes,     \* bytes of a reply frame
    MaxReq,         \* bound: requests in a behaviour
    MaxUrgent       \* bound: urgent frames in a behaviour

ASSUME TasksAssumption == LockTasks \cap DirectTasks = {}

ASSUME DataAssumption ==
    /\ Parts \subseteq 1..3
    /\ LockOps \subseteq {"start", "stop", "ver", "sta"}
    /\ DirectOps \subseteq {"start", "stop", "gps"}
    /\ Lossy \in BOOLEAN
    /\ Late \in BOOLEAN
    /\ ReplyBytes \in Nat \ {0}
    /\ MaxReq \in Nat
    /\ MaxUrgent \in Nat

VARIABLES
    pc,                     \* pc[t]: see above
    cmd,                    \* cmd[t]: the request t is making or made last
    result,                 \* result[t]: what its last call returned
    APP_PDU_Send_Sem,       \* created with 1
    SWIFT_UART4_Send_Sem,   \* created with 1
    SWIFT_UART4_Rev_Sem,    \* created with 0
    rx,                     \* the frame at the head of SWIFT_UART4_Buff
    motor_move,             \* ACUCurrSta.motor_move, per part
    link_stat,              \* PDUommStat.link_stat
    toPdu, toAcu,           \* frames on the two wires
    motor,                  \* what each motor really does (in the PDU)
    executed,               \* ids of the requests the PDU has executed
    reqs, urgents           \* requests and urgent frames so far

(* History of a behaviour, for the properties: no step depends on it. *)
VARIABLES
    alone,      \* tasks that have had a silent line to themselves, see Clears
    unsure,     \* parts whose last motor call to end failed or was not alone
    lost        \* units of APP_PDU_Send_Sem that no task will post

history  == <<alone, unsure, lost>>
taskVars == <<pc, cmd, result>>
semVars  == <<APP_PDU_Send_Sem, SWIFT_UART4_Send_Sem, SWIFT_UART4_Rev_Sem>>
wireVars == <<toPdu, toAcu, motor, executed>>
vars == <<taskVars, semVars, rx, motor_move, link_stat, wireVars, reqs, urgents, history>>

Tasks == LockTasks \cup DirectTasks

COMM_LINK == 0
COMM_UNLINK == 1

(* Directions of motor_move: 0 stopped, ANTENNA_DIR_LEFT_DOWN_ANTICLOCK,   *)
(* ANTENNA_DIR_RIGHT_UP_CLOCK.                                             *)
Dirs == 0..2

Places == {"idle", "pdu", "uart", "tx", "sent", "rev", "done"}

Frame == [op : {"none", "start", "stop", "ver", "sta", "gps"},
          part : 0..3, dir : Dirs, id : Nat]

NoFrame == [op |-> "none", part |-> 0, dir |-> 0, id |-> 0]

(* The frames a request of kind op may be: a start names a part and a      *)
(* direction, a stop a part, the polls neither.                            *)
Requests(op, id) ==
    CASE op = "start" -> [op : {op}, part : Parts, dir : {1, 2}, id : {id}]
      [] op = "stop"  -> [op : {op}, part : Parts, dir : {0}, id : {id}]
      [] OTHER        -> [op : {op}, part : {0}, dir : {0}, id : {id}]

IsMotor(c) == c.op \in {"start", "stop"}

(* APP_PDUCOMM_Init and SWIFT_UART4_Init. *)
Init ==
    /\ pc = [t \in Tasks |-> "idle"]
    /\ cmd = [t \in Tasks |-> NoFrame]
    /\ result = [t \in Tasks |-> "none"]
    /\ APP_PDU_Send_Sem = SemCreate(1)
    /\ SWIFT_UART4_Send_Sem = SemCreate(1)
    /\ SWIFT_UART4_Rev_Sem = SemCreate(0)
    /\ rx = NoFrame
    /\ motor_move = [p \in Parts |-> 0]
    /\ link_stat = COMM_LINK
    /\ toPdu = << >>
    /\ toAcu = << >>
    /\ motor = [p \in Parts |-> 0]
    /\ executed = {}
    /\ reqs = 0
    /\ urgents = 0
    /\ alone = {}
    /\ unsure = {}
    /\ lost = 0
-----------------------------------------------------------------------------
(* Antenna_DriveStart, Antenna_DriveEnd, APP_PDUCOMM_VersionQue and        *)
(* APP_PDUCOMM_PDUDevStaQue up to and including their                      *)
(* BSP_OS_Sem_Pend(&APP_PDU_Send_Sem, 0).  A start refused by the soft     *)
(* limits returns before it and changes nothing.                           *)
LockCall(t) ==
    /\ pc[t] = "idle"
    /\ reqs < MaxReq
    /\ \E op \in LockOps : \E c \in Requests(op, reqs + 1) :
          cmd' = [cmd EXCEPT ![t] = c]
    /\ reqs' = reqs + 1
    /\ APP_PDU_Send_Sem' = SemPend(APP_PDU_Send_Sem, t)
    /\ pc' = [pc EXCEPT ![t] = "pdu"]
    /\ UNCHANGED <<result, SWIFT_UART4_Send_Sem, SWIFT_UART4_Rev_Sem,
                   rx, motor_move, link_stat, wireVars, urgents, history>>

(* APP_GPS_DataGet, and Motor_DriveStart / Motor_DriveEnd called by the    *)
(* turn-direction commands of app_pccomm.c: no APP_PDU_Send_Sem.           *)
DirectCall(t) ==
    /\ pc[t] = "idle"
    /\ reqs < MaxReq
    /\ \E op \in DirectOps : \E c \in Requests(op, reqs + 1) :
          cmd' = [cmd EXCEPT ![t] = c]
    /\ reqs' = reqs + 1
    /\ SWIFT_UART4_Send_Sem' = SemPend(SWIFT_UART4_Send_Sem, t)
    /\ pc' = [pc EXCEPT ![t] = "uart"]
    /\ UNCHANGED <<result, APP_PDU_Send_Sem, SWIFT_UART4_Rev_Sem,
                   rx, motor_move, link_stat, wireVars, urgents, history>>

(* Faulty variant of OwnsPdu: the semaphore is not waited for. *)
OwnsPdu_Unchecked(t) == TRUE

(* BSP_OS_Sem_Pend(&APP_PDU_Send_Sem, 0) returned. *)
OwnsPdu(t) == t \notin APP_PDU_Send_Sem.pend

(* A lock task that owns APP_PDU_Send_Sem enters SWIFT_UART4_SendBuff. *)
SendBuffEnter(t) ==
    /\ pc[t] = "pdu"
    /\ OwnsPdu(t)
    /\ SWIFT_UART4_Send_Sem' = SemPend(SWIFT_UART4_Send_Sem, t)
    /\ pc' = [pc EXCEPT ![t] = "uart"]
    /\ UNCHANGED <<cmd, result, APP_PDU_Send_Sem, SWIFT_UART4_Rev_Sem,
                   rx, motor_move, link_stat, wireVars, reqs, urgents, history>>

(* The wire after a reset of write_p: the rest of a reply that was just    *)
(* being received no longer starts with 0xBC and is dropped byte by byte.  *)
CutShort(w) == {w} \cup (IF w = << >> THEN {} ELSE {Tail(w)})

(* BSP_OS_Sem_Pend(&SWIFT_UART4_Send_Sem, 0) returned. *)
OwnsUart(t) == t \notin SWIFT_UART4_Send_Sem.pend

(* t has the line from its transmission to the end of its wait. *)
Engaged(t) == pc[t] \in {"tx", "sent", "rev"}

(* alone after t cleared the receive buffer, where wire is what it leaves  *)
(* on its way from the PDU: t begins alone when nothing is on its way, no  *)
(* post is pending and nobody else has the line, and it disturbs whoever   *)
(* has.                                                                    *)
Clears(t, wire) ==
    IF /\ toPdu = << >> /\ wire = << >>
       /\ SWIFT_UART4_Rev_Sem = SemCreate(0)
       /\ \A u \in Tasks \ {t} : ~Engaged(u)
    THEN alone \cup {t}
    ELSE {u \in alone : u # t /\ ~Engaged(u)}

(* SWIFT_UART4_RecvBuff_Clear in SWIFT_UART4_SendBuff.  It empties the     *)
(* buffer and leaves SWIFT_UART4_Rev_Sem as it is.                         *)
RecvBuffClear(t) ==
    /\ pc[t] = "uart"
    /\ OwnsUart(t)
    /\ rx' = NoFrame
    /\ toAcu' \in CutShort(toAcu)
    /\ pc' = [pc EXCEPT ![t] = "tx"]
    /\ alone' = Clears(t, toAcu')
    /\ UNCHANGED <<cmd, result, semVars, motor_move, link_stat,
                   toPdu, motor, executed, reqs, urgents, unsure, lost>>

(* BSP_UART_Send and the post of SWIFT_UART4_Send_Sem.  Two tasks that     *)
(* transmit at once interleave their bytes, and the PDU may then find no   *)
(* frame in them.                                                          *)
UartSend(t) ==
    /\ pc[t] = "tx"
    /\ \/ toPdu' = Append(toPdu, cmd[t])
       \/ /\ \E u \in Tasks \ {t} : pc[u] = "tx"
          /\ toPdu' = toPdu
    /\ SWIFT_UART4_Send_Sem' = SemPost(SWIFT_UART4_Send_Sem)
    /\ pc' = [pc EXCEPT ![t] = "sent"]
    /\ UNCHANGED <<cmd, result, APP_PDU_Send_Sem, SWIFT_UART4_Rev_Sem, rx, motor_move,
                   link_stat, toAcu, motor, executed, reqs, urgents, history>>

(* BSP_OS_Sem_Pend(&SWIFT_UART4_Rev_Sem, timeout). *)
RevPend(t) ==
    /\ pc[t] = "sent"
    /\ SWIFT_UART4_Rev_Sem' = SemPend(SWIFT_UART4_Rev_Sem, t)
    /\ pc' = [pc EXCEPT ![t] = "rev"]
    /\ UNCHANGED <<cmd, result, APP_PDU_Send_Sem, SWIFT_UART4_Send_Sem,
                   rx, motor_move, link_stat, wireVars, reqs, urgents, history>>
-----------------------------------------------------------------------------
(* The test each caller makes of the command bytes of the buffer.          *)
(* APP_GPS_DataGet joins its three tests with &&, so it refuses only a     *)
(* frame that differs in all of them: an answer to a stop.                 *)
Accepted(c, f) == IF c.op = "gps" THEN f.op # "stop" ELSE f.op = c.op

(* APP_PDUCOMM_VersionQue returns on a refused answer without posting      *)
(* APP_PDU_Send_Sem.                                                       *)
LeavesUnposted(c, ok) == c.op = "ver" /\ ~ok

(* Faulty variant of Answered: the result of BSP_OS_Sem_Pend is not        *)
(* looked at.                                                              *)
Answered_Unchecked(t) == TRUE

(* BSP_OS_Sem_Pend(&SWIFT_UART4_Rev_Sem, timeout) returned SUCC. *)
Answered(t) == t \notin SWIFT_UART4_Rev_Sem.pend

(* Faulty variant of MotionAfter: a stop leaves motor_move as it was. *)
MotionAfter_StartOnly(t, c, ok) ==
    IF ok /\ c.op = "start" /\ t \in LockTasks
    THEN [motor_move EXCEPT ![c.part] = c.dir]
    ELSE motor_move

(* motor_move after t made request c: only Antenna_DriveStart and          *)
(* Antenna_DriveEnd, which lock tasks call, record the motion.             *)
MotionAfter(t, c, ok) ==
    IF ok /\ IsMotor(c) /\ t \in LockTasks
    THEN [motor_move EXCEPT ![c.part] = c.dir]
    ELSE motor_move

(* The verdicts t may reach.  With nothing in the buffer revbuff keeps     *)
(* what the stack held (or the first bytes of a reply still arriving), and *)
(* the verdict is open.  A GPS answer may carry no valid position, and     *)
(* APP_PDUCOMM_VersionQue also refuses an answer whose length is not 32.   *)
Verdicts(t) ==
    IF rx = NoFrame THEN BOOLEAN
    ELSE {Accepted(cmd[t], rx)} \cup (IF cmd[t].op \in {"gps", "ver"} THEN {FALSE} ELSE {})

(* unsure after t's request ended with verdict ok. *)
UnsureAfter(t, ok) ==
    IF ok /\ t \in alone /\ t \in LockTasks
    THEN unsure \ {cmd[t].part}
    ELSE unsure \cup ({cmd[t].part} \cap Parts)

(* SWIFT_UART4_RecvBuff and the rest of the call up to its return or its   *)
(* post.                                                                   *)
Recv(t) ==
    /\ pc[t] = "rev"
    /\ Answered(t)
    /\ \E ok \in Verdicts(t) :
          /\ result' = [result EXCEPT ![t] = IF ok THEN "SUCC" ELSE "FAIL"]
          /\ motor_move' = MotionAfter(t, cmd[t], ok)
          /\ unsure' = UnsureAfter(t, ok)
          /\ lost' = IF t \in LockTasks /\ LeavesUnposted(cmd[t], ok) THEN lost + 1 ELSE lost
          /\ pc' = [pc EXCEPT ![t] =
                IF t \in LockTasks /\ ~LeavesUnposted(cmd[t], ok)
                THEN "done" ELSE "idle"]
    /\ rx' = NoFrame
    /\ toAcu' \in (IF rx = NoFrame THEN CutShort(toAcu) ELSE {toAcu})
    /\ link_stat' = IF cmd[t].op = "ver" THEN link_stat ELSE COMM_LINK
    /\ UNCHANGED <<cmd, semVars, toPdu, motor, executed, reqs, urgents, alone>>

(* The request of t or its answer is still on its way. *)
InFlight(t) ==
    \/ \E i \in DOMAIN toPdu : toPdu[i].id = cmd[t].id
    \/ \E i \in DOMAIN toAcu : toAcu[i].id = cmd[t].id

(* Faulty variant of AfterTimeout: the timeout path returns at once. *)
AfterTimeout_Unposted(t) == "idle"

(* Where a call goes on after a timeout: its lock task still posts. *)
AfterTimeout(t) == IF t \in LockTasks THEN "done" ELSE "idle"

(* The pend on SWIFT_UART4_Rev_Sem times out (100, 200 or 300 ms). *)
RevTimeout(t) ==
    /\ pc[t] = "rev"
    /\ t \in SWIFT_UART4_Rev_Sem.pend
    /\ Late \/ ~InFlight(t)
    /\ SWIFT_UART4_Rev_Sem' = SemForget(SWIFT_UART4_Rev_Sem, t)
    /\ result' = [result EXCEPT ![t] = "FAIL"]
    /\ unsure' = UnsureAfter(t, FALSE)
    /\ link_stat' = IF cmd[t].op = "ver" THEN link_stat ELSE COMM_UNLINK
    /\ pc' = [pc EXCEPT ![t] = AfterTimeout(t)]
    /\ UNCHANGED <<cmd, APP_PDU_Send_Sem, SWIFT_UART4_Send_Sem, rx, motor_move,
                   wireVars, reqs, urgents, alone, lost>>

(* BSP_OS_Sem_Post(&APP_PDU_Send_Sem), then return to the caller. *)
PduPost(t) ==
    /\ pc[t] = "done"
    /\ APP_PDU_Send_Sem' = SemPost(APP_PDU_Send_Sem)
    /\ pc' = [pc EXCEPT ![t] = "idle"]
    /\ UNCHANGED <<cmd, result, SWIFT_UART4_Send_Sem, SWIFT_UART4_Rev_Sem,
                   rx, motor_move, link_stat, wireVars, reqs, urgents, history>>
-----------------------------------------------------------------------------
(* The PDU: it executes the requests in the order of the wire and answers  *)
(* each one at once.                                                       *)
PduExec ==
    /\ toPdu # << >>
    /\ LET c == Head(toPdu) IN
          /\ motor' = IF IsMotor(c) THEN [motor EXCEPT ![c.part] = c.dir] ELSE motor
          /\ executed' = executed \cup {c.id}
          /\ toAcu' = Append(toAcu, c)
    /\ toPdu' = Tail(toPdu)
    /\ UNCHANGED <<taskVars, semVars, rx, motor_move, link_stat, reqs, urgents, history>>

(* The line loses a request or an answer. *)
Lose ==
    /\ Lossy
    /\ \/ /\ toPdu # << >>
          /\ toPdu' = Tail(toPdu)
          /\ toAcu' = toAcu
       \/ /\ toAcu # << >>
          /\ toAcu' = Tail(toAcu)
          /\ toPdu' = toPdu
    /\ UNCHANGED <<taskVars, semVars, rx, motor_move, link_stat, motor, executed,
                   reqs, urgents, history>>

(* SWITFT_UART4_IntHandler over the bytes of a whole reply.  In an empty   *)
(* buffer the last byte completes the frame and posts once.  Behind a      *)
(* frame nobody has read yet, write_p is past that frame's end on every    *)
(* byte and every byte posts; the frame at the head stays, or is lost when *)
(* the 64-byte buffer wraps.                                               *)
RxIsr ==
    /\ toAcu # << >>
    /\ toAcu' = Tail(toAcu)
    /\ IF rx = NoFrame
       THEN /\ rx' = Head(toAcu)
            /\ SWIFT_UART4_Rev_Sem' = SemPost(SWIFT_UART4_Rev_Sem)
       ELSE /\ rx' \in {rx, NoFrame}
            /\ SWIFT_UART4_Rev_Sem' = SemPostTimes(SWIFT_UART4_Rev_Sem, ReplyBytes)
    /\ UNCHANGED <<taskVars, APP_PDU_Send_Sem, SWIFT_UART4_Send_Sem, motor_move,
                   link_stat, toPdu, motor, executed, reqs, urgents, history>>

(* The same handler on an urgent frame (command 0x?D..): in an empty       *)
(* buffer SWIFT_UART4_UrgentDeal consumes it in the interrupt and marks    *)
(* the link alive; behind an unread frame it is taken for more of it.      *)
UrgentIsr ==
    /\ urgents < MaxUrgent
    /\ urgents' = urgents + 1
    /\ IF rx = NoFrame
       THEN /\ link_stat' = COMM_LINK
            /\ UNCHANGED <<rx, SWIFT_UART4_Rev_Sem>>
       ELSE /\ rx' \in {rx, NoFrame}
            /\ SWIFT_UART4_Rev_Sem' = SemPostTimes(SWIFT_UART4_Rev_Sem, ReplyBytes)
            /\ link_stat' = link_stat
    /\ UNCHANGED <<taskVars, APP_PDU_Send_Sem, SWIFT_UART4_Send_Sem, motor_move,
                   wireVars, reqs, history>>
-----------------------------------------------------------------------------
(* What a task does inside a call, once it has made it. *)
TaskStep(t) ==
    \/ SendBuffEnter(t)
    \/ RecvBuffClear(t)
    \/ UartSend(t)
    \/ RevPend(t)
    \/ Recv(t)
    \/ RevTimeout(t)
    \/ PduPost(t)

Wire == PduExec \/ Lose \/ RxIsr

Next ==
    \/ \E t \in LockTasks : LockCall(t)
    \/ \E t \in DirectTasks : DirectCall(t)
    \/ \E t \in Tasks : TaskStep(t)
    \/ Wire
    \/ UrgentIsr

(* The scheduler runs every ready task and expires every timeout, and a    *)
(* frame on a wire arrives or is lost: none is delayed for ever.           *)
Fairness ==
    /\ \A t \in Tasks : WF_vars(TaskStep(t))
    /\ WF_vars(Wire)

Spec == Init /\ [][Next]_vars /\ Fairness
-----------------------------------------------------------------------------
(* Type correctness of the whole state. *)
TypeOK ==
    /\ pc \in [Tasks -> Places]
    /\ cmd \in [Tasks -> Frame]
    /\ result \in [Tasks -> {"none", "SUCC", "FAIL"}]
    /\ APP_PDU_Send_Sem \in Semaphore(LockTasks)
    /\ SWIFT_UART4_Send_Sem \in Semaphore(Tasks)
    /\ SWIFT_UART4_Rev_Sem \in Semaphore(Tasks)
    /\ rx \in Frame
    /\ motor_move \in [Parts -> Dirs]
    /\ link_stat \in {COMM_LINK, COMM_UNLINK}
    /\ toPdu \in Seq(Frame)
    /\ toAcu \in Seq(Frame)
    /\ motor \in [Parts -> Dirs]
    /\ executed \subseteq Nat
    /\ reqs \in Nat
    /\ urgents \in Nat
    /\ alone \subseteq Tasks
    /\ unsure \subseteq Parts
    /\ lost \in Nat

(* t owns APP_PDU_Send_Sem: its pend returned and it has not posted yet. *)
HoldsPdu(t) ==
    \/ pc[t] \in {"uart", "tx", "sent", "rev", "done"}
    \/ pc[t] = "pdu" /\ t \notin APP_PDU_Send_Sem.pend

(* t owns SWIFT_UART4_Send_Sem. *)
HoldsUart(t) ==
    \/ pc[t] = "tx"
    \/ pc[t] = "uart" /\ t \notin SWIFT_UART4_Send_Sem.pend

(* APP_PDU_Send_Sem, created with 1 in APP_PDUCOMM_Init, lets one lock     *)
(* task at a time talk to the PDU.                                         *)
PduMutex == \A t, u \in LockTasks : HoldsPdu(t) /\ HoldsPdu(u) => t = u

(* SWIFT_UART4_Send_Sem, created with 1 in SWIFT_UART4_Init, lets one task *)
(* at a time clear the receive buffer and transmit.                        *)
UartMutex == \A t, u \in Tasks : HoldsUart(t) /\ HoldsUart(u) => t = u

(* No task sleeps on a semaphore that has a unit to give: OSSemPend blocks *)
(* only at 0 and OS_SemPost readies the waiters instead of counting.       *)
NoLostWakeup ==
    \A s \in {APP_PDU_Send_Sem, SWIFT_UART4_Send_Sem, SWIFT_UART4_Rev_Sem} :
        s.ctr > 0 => s.pend = {}

(* A lock task that had the line to itself from a silent start may trust a *)
(* SUCC: the answer that Motor_DriveStart, Motor_DriveEnd or a poll took   *)
(* from the buffer, or the post that let it look, was not left over from   *)
(* somebody else's, or an earlier, request, and no urgent frame stood in   *)
(* for it.  Late answers, losses and tasks that join in are all possible   *)
(* around it.                                                              *)
AckIsOwn ==
    \A t \in LockTasks :
        pc[t] = "done" /\ result[t] = "SUCC" /\ t \in alone => cmd[t].id \in executed

(* After such an exchange motor_move says what the motor does, and goes on *)
(* doing so until the next request about the part is transmitted: no late, *)
(* duplicate or foreign frame moves the motor behind its back.  The        *)
(* soft-limit monitor stops a motor only on the word of motor_move.        *)
MotorMoveIsTrue ==
    \A p \in Parts \ unsure :
        (\A t \in Tasks : ~(Engaged(t) /\ cmd[t].part = p))
            => motor_move[p] = motor[p]

(* Once APP_PDUCOMM_VersionQue has returned without its post, the one unit *)
(* of APP_PDU_Send_Sem is gone for good: no lock task gets it again, and   *)
(* no later Antenna_DriveEnd reaches the PDU.                              *)
LostUnitIsGone ==
    lost > 0 => APP_PDU_Send_Sem.ctr = 0 /\ \A t \in LockTasks : ~HoldsPdu(t)

(* Every call into the link returns, with whatever verdict, in particular  *)
(* the Antenna_AllDriveEnd with which every mode change begins; the one    *)
(* thing that can keep it waiting for ever is the unit a refused version   *)
(* answer took away.                                                       *)
CallsReturn == \A t \in Tasks : (pc[t] # "idle") ~> (pc[t] = "idle" \/ lost > 0)
=============================================================================
