---------------------------- MODULE PduLink_proof ----------------------------
(***************************************************************************)
(* Proofs about the PDU link, for every set of tasks, every set of parts   *)
(* and every bound.                                                        *)
(***************************************************************************)
EXTENDS PduLink, TLAPS

(* The semaphore operations keep a semaphore a semaphore, and keep what    *)
(* the kernel relies on: a semaphore with units to give has no waiter.     *)
Quiet(s) == s.ctr > 0 => s.pend = {}

(* OSSemCreate of bsp_os.c makes a well-formed, quiet semaphore. *)
LEMMA CreateType ==
    ASSUME NEW T, NEW n \in Nat
    PROVE  SemCreate(n) \in Semaphore(T) /\ Quiet(SemCreate(n))
BY DEF SemCreate, Semaphore, Quiet

(* OSSemPend takes a unit or queues the caller. *)
LEMMA PendType ==
    ASSUME NEW T, NEW t \in T, NEW s \in Semaphore(T)
    PROVE  SemPend(s, t) \in Semaphore(T) /\ (Quiet(s) => Quiet(SemPend(s, t)))
BY DEF SemPend, Semaphore, Quiet

(* OS_SemPost with OS_OPT_POST_ALL counts or readies, never both. *)
LEMMA PostType ==
    ASSUME NEW T, NEW s \in Semaphore(T)
    PROVE  SemPost(s) \in Semaphore(T) /\ (Quiet(s) => Quiet(SemPost(s)))
BY DEF SemPost, Semaphore, Quiet

(* So does a burst of posts from the receive interrupt. *)
LEMMA PostTimesType ==
    ASSUME NEW T, NEW s \in Semaphore(T), NEW n \in Nat \ {0}
    PROVE  SemPostTimes(s, n) \in Semaphore(T) /\ (Quiet(s) => Quiet(SemPostTimes(s, n)))
BY DEF SemPostTimes, Semaphore, Quiet

(* A timeout only shortens the pend list. *)
LEMMA ForgetType ==
    ASSUME NEW T, NEW t, NEW s \in Semaphore(T)
    PROVE  SemForget(s, t) \in Semaphore(T) /\ (Quiet(s) => Quiet(SemForget(s, t)))
BY DEF SemForget, Semaphore, Quiet

(* The requests that the callers build are frames. *)
LEMMA RequestsType ==
    ASSUME NEW op \in LockOps \cup DirectOps, NEW id \in Nat, NEW c \in Requests(op, id)
    PROVE  c \in Frame
BY DataAssumption DEF Requests, Frame, Dirs

(* Taking the first frame off a wire, and putting one more on it. *)
LEMMA WireType ==
    ASSUME NEW w \in Seq(Frame)
    PROVE  /\ w # << >> => Head(w) \in Frame /\ Tail(w) \in Seq(Frame)
           /\ \A f \in Frame : Append(w, f) \in Seq(Frame)
OBVIOUS

(* The empty buffer is a frame of its own kind. *)
LEMMA NoFrameType == NoFrame \in Frame
BY DEF NoFrame, Frame, Dirs

(* What a cut leaves on the wire is a sequence of frames. *)
LEMMA CutType ==
    ASSUME NEW w \in Seq(Frame), NEW v \in CutShort(w)
    PROVE  v \in Seq(Frame)
BY DEF CutShort

-----------------------------------------------------------------------------
(* Every reachable state of the link is well typed: in particular no       *)
(* semaphore count goes below zero and only lock tasks wait for            *)
(* APP_PDU_Send_Sem.                                                       *)
THEOREM TypeCorrect == Spec => []TypeOK
<1>1. Init => TypeOK
  BY CreateType DEF Init, TypeOK, Tasks, Places, Frame, NoFrame, Dirs, COMM_LINK, COMM_UNLINK
<1>2. TypeOK /\ [Next]_vars => TypeOK'
  <2> SUFFICES ASSUME TypeOK, [Next]_vars
               PROVE  TypeOK'
    OBVIOUS
  <2> USE DEF TypeOK
  <2>1. ASSUME NEW t \in LockTasks, LockCall(t)
        PROVE  TypeOK'
    <3>1. t \in Tasks /\ reqs + 1 \in Nat /\ "pdu" \in Places
      BY DEF Tasks, Places
    <3>2. PICK op \in LockOps : \E c \in Requests(op, reqs + 1) : cmd' = [cmd EXCEPT ![t] = c]
      BY <2>1 DEF LockCall
    <3>3. PICK c \in Requests(op, reqs + 1) : cmd' = [cmd EXCEPT ![t] = c]
      BY <3>2
    <3>4. c \in Frame
      BY <3>1, RequestsType
    <3>5. APP_PDU_Send_Sem' \in Semaphore(LockTasks)
      BY <2>1, PendType DEF LockCall
    <3> QED BY <2>1, <3>1, <3>3, <3>4, <3>5 DEF LockCall, wireVars, history
  <2>2. ASSUME NEW t \in DirectTasks, DirectCall(t)
        PROVE  TypeOK'
    <3>1. t \in Tasks /\ reqs + 1 \in Nat /\ "uart" \in Places
      BY DEF Tasks, Places
    <3>2. PICK op \in DirectOps : \E c \in Requests(op, reqs + 1) : cmd' = [cmd EXCEPT ![t] = c]
      BY <2>2 DEF DirectCall
    <3>3. PICK c \in Requests(op, reqs + 1) : cmd' = [cmd EXCEPT ![t] = c]
      BY <3>2
    <3>4. c \in Frame
      BY <3>1, RequestsType
    <3>5. SWIFT_UART4_Send_Sem' \in Semaphore(Tasks)
      BY <2>2, <3>1, PendType DEF DirectCall
    <3> QED BY <2>2, <3>1, <3>3, <3>4, <3>5 DEF DirectCall, wireVars, history
  <2>3. ASSUME NEW t \in Tasks, TaskStep(t)
        PROVE  TypeOK'
    <3>1. CASE SendBuffEnter(t)
      <4>1. SWIFT_UART4_Send_Sem' \in Semaphore(Tasks)
        BY <3>1, PendType DEF SendBuffEnter
      <4> QED BY <3>1, <4>1 DEF SendBuffEnter, wireVars, history, Places
    <3>2. CASE RecvBuffClear(t)
      <4>1. toAcu' \in Seq(Frame)
        BY <3>2, CutType DEF RecvBuffClear
      <4>2. rx' \in Frame
        BY <3>2, NoFrameType DEF RecvBuffClear
      <4>3. alone' \subseteq Tasks
        BY <3>2 DEF RecvBuffClear, Clears
      <4> QED BY <3>2, <4>1, <4>2, <4>3 DEF RecvBuffClear, semVars, Places
    <3>3. CASE UartSend(t)
      <4>1. SWIFT_UART4_Send_Sem' \in Semaphore(Tasks)
        BY <3>3, PostType DEF UartSend
      <4>2. toPdu' \in Seq(Frame)
        BY <3>3, WireType DEF UartSend
      <4> QED BY <3>3, <4>1, <4>2 DEF UartSend, Places, history
    <3>4. CASE RevPend(t)
      <4>1. SWIFT_UART4_Rev_Sem' \in Semaphore(Tasks)
        BY <3>4, PendType DEF RevPend
      <4> QED BY <3>4, <4>1 DEF RevPend, wireVars, history, Places
    <3>5. CASE Recv(t)
      <4>1. toAcu' \in Seq(Frame)
        BY <3>5, CutType DEF Recv
      <4>2. rx' \in Frame
        BY <3>5, NoFrameType DEF Recv
      <4>3. cmd[t].part \in 0..3 /\ cmd[t].dir \in Dirs
        BY DEF Frame
      <4>4. motor_move' \in [Parts -> Dirs]
        BY <3>5, <4>3 DEF Recv, MotionAfter
      <4>5. result' \in [Tasks -> {"none", "SUCC", "FAIL"}]
        BY <3>5 DEF Recv
      <4>6. unsure' \subseteq Parts
        BY <3>5 DEF Recv, UnsureAfter
      <4>7. pc' \in [Tasks -> Places]
        BY <3>5 DEF Recv, Places
      <4>8. link_stat' \in {COMM_LINK, COMM_UNLINK}
        BY <3>5 DEF Recv
      <4>9. lost' \in Nat
        BY <3>5 DEF Recv
      <4> QED BY <3>5, <4>1, <4>2, <4>4, <4>5, <4>6, <4>7, <4>8, <4>9 DEF Recv, semVars
    <3>6. CASE RevTimeout(t)
      <4>1. SWIFT_UART4_Rev_Sem' \in Semaphore(Tasks)
        BY <3>6, ForgetType DEF RevTimeout
      <4> QED BY <3>6, <4>1 DEF RevTimeout, AfterTimeout, UnsureAfter, wireVars, Places
    <3>7. CASE PduPost(t)
      <4>1. APP_PDU_Send_Sem' \in Semaphore(LockTasks)
        BY <3>7, PostType DEF PduPost
      <4> QED BY <3>7, <4>1 DEF PduPost, wireVars, history, Places
    <3> QED BY <2>3, <3>1, <3>2, <3>3, <3>4, <3>5, <3>6, <3>7 DEF TaskStep
  <2>6. CASE PduExec
    <3>1. Head(toPdu) \in Frame /\ Tail(toPdu) \in Seq(Frame)
      BY <2>6 DEF PduExec
    <3>2. Head(toPdu).dir \in Dirs /\ Head(toPdu).id \in Nat
      BY <3>1 DEF Frame
    <3>3. motor' \in [Parts -> Dirs] /\ executed' \subseteq Nat
      BY <2>6, <3>2 DEF PduExec
    <3> QED BY <2>6, <3>1, <3>3 DEF PduExec, taskVars, semVars, history
  <2>7. CASE Lose
    <3>1. toPdu' \in Seq(Frame) /\ toAcu' \in Seq(Frame)
      BY <2>7, WireType DEF Lose
    <3> QED BY <2>7, <3>1 DEF Lose, taskVars, semVars, history
  <2>8. CASE RxIsr
    <3>1. SWIFT_UART4_Rev_Sem' \in Semaphore(Tasks)
      BY <2>8, PostType, PostTimesType, DataAssumption DEF RxIsr
    <3>2. rx' \in Frame /\ toAcu' \in Seq(Frame)
      BY <2>8, WireType, NoFrameType DEF RxIsr
    <3> QED BY <2>8, <3>1, <3>2 DEF RxIsr, taskVars, history
  <2>9. CASE UrgentIsr
    <3>1. SWIFT_UART4_Rev_Sem' \in Semaphore(Tasks)
      BY <2>9, PostTimesType, DataAssumption DEF UrgentIsr
    <3>2. rx' \in Frame
      BY <2>9, NoFrameType DEF UrgentIsr
    <3> QED BY <2>9, <3>1, <3>2 DEF UrgentIsr, taskVars, wireVars, history
  <2>10. CASE UNCHANGED vars
    BY <2>10 DEF vars, taskVars, semVars, wireVars, history
  <2> QED BY <2>1, <2>2, <2>3, <2>6, <2>7, <2>8, <2>9, <2>10 DEF Next, Wire
<1> QED BY <1>1, <1>2, PTL DEF Spec

-----------------------------------------------------------------------------
(* At most two lock tasks: OS_OPT_POST_ALL readies every waiter, so mutual *)
(* exclusion needs that at most one task ever waits behind the owner.      *)
AtMostTwo == \A t, u, v \in LockTasks : t = u \/ u = v \/ t = v

(* At most one task uses the UART without APP_PDU_Send_Sem. *)
AtMostOneDirect == \A t, u \in DirectTasks : t = u

(* Why PduMutex holds: the unit of APP_PDU_Send_Sem is in its counter,     *)
(* with its one owner or gone for good, waiters are inside their pend, and *)
(* a direct task never reaches a pend or a post of it.                     *)
PduInv ==
    /\ PduMutex
    /\ APP_PDU_Send_Sem.ctr \in 0..1
    /\ APP_PDU_Send_Sem.ctr = 1 => \A t \in LockTasks : ~HoldsPdu(t)
    /\ \A t \in APP_PDU_Send_Sem.pend : pc[t] = "pdu"
    /\ \A t \in DirectTasks : pc[t] \notin {"pdu", "done"}
    /\ LostUnitIsGone

(* The same for SWIFT_UART4_Send_Sem, whose waiters are inside             *)
(* SWIFT_UART4_SendBuff.                                                   *)
UartInv ==
    /\ UartMutex
    /\ SWIFT_UART4_Send_Sem.ctr \in 0..1
    /\ SWIFT_UART4_Send_Sem.ctr = 1 => \A t \in Tasks : ~HoldsUart(t)
    /\ \A t \in SWIFT_UART4_Send_Sem.pend : pc[t] = "uart"

-----------------------------------------------------------------------------
(* No task of the link ever sleeps on a semaphore that has a unit to give, *)
(* whatever the number of tasks: OSSemPend blocks at 0 only, and           *)
(* OS_SemPost and the interrupt's bursts of posts count only when nobody   *)
(* waits.                                                                  *)
THEOREM WakeupsKept == Spec => []NoLostWakeup
<1> DEFINE AllQuiet == /\ Quiet(APP_PDU_Send_Sem)
                       /\ Quiet(SWIFT_UART4_Send_Sem)
                       /\ Quiet(SWIFT_UART4_Rev_Sem)
<1>1. Init => AllQuiet
  BY CreateType DEF Init
<1>2. TypeOK /\ AllQuiet /\ [Next]_vars => AllQuiet'
  <2> SUFFICES ASSUME TypeOK, AllQuiet, [Next]_vars
               PROVE  AllQuiet'
    OBVIOUS
  <2> USE DEF TypeOK
  <2>1. ASSUME NEW t \in LockTasks, LockCall(t)
        PROVE  AllQuiet'
    BY <2>1, PendType DEF LockCall
  <2>2. ASSUME NEW t \in DirectTasks, DirectCall(t)
        PROVE  AllQuiet'
    BY <2>2, PendType DEF DirectCall, Tasks
  <2>3. ASSUME NEW t \in Tasks, TaskStep(t)
        PROVE  AllQuiet'
    <3>1. CASE SendBuffEnter(t) \/ RevPend(t)
      BY <3>1, PendType DEF SendBuffEnter, RevPend
    <3>2. CASE UartSend(t) \/ PduPost(t)
      BY <3>2, PostType DEF UartSend, PduPost
    <3>3. CASE RecvBuffClear(t) \/ Recv(t)
      BY <3>3 DEF RecvBuffClear, Recv, semVars
    <3>4. CASE RevTimeout(t)
      BY <3>4, ForgetType DEF RevTimeout
    <3> QED BY <2>3, <3>1, <3>2, <3>3, <3>4 DEF TaskStep
  <2>6. CASE PduExec \/ Lose
    BY <2>6 DEF PduExec, Lose, semVars
  <2>7. CASE RxIsr
    BY <2>7, PostType, PostTimesType, DataAssumption DEF RxIsr
  <2>8. CASE UrgentIsr
    BY <2>8, PostTimesType, DataAssumption DEF UrgentIsr
  <2>9. CASE UNCHANGED vars
    BY <2>9 DEF vars, semVars
  <2> QED BY <2>1, <2>2, <2>3, <2>6, <2>7, <2>8, <2>9 DEF Next, Wire
<1>3. AllQuiet => NoLostWakeup
  BY DEF NoLostWakeup, Quiet
<1> QED BY <1>1, <1>2, <1>3, TypeCorrect, PTL DEF Spec
-----------------------------------------------------------------------------
(* PduInv holds in the initial state made by APP_PDUCOMM_Init. *)
LEMMA PduInvInit == Init => PduInv
BY DEF Init, PduInv, PduMutex, LostUnitIsGone, HoldsPdu, SemCreate, Tasks

(* A step that leaves APP_PDU_Send_Sem alone and moves one task that       *)
(* stays an owner, or stops being one, keeps PduInv.                       *)
LEMMA PduInvMove ==
    ASSUME TypeOK, PduInv, NEW t \in Tasks, NEW place,
           UNCHANGED APP_PDU_Send_Sem,
           pc' = [pc EXCEPT ![t] = place],
           place # "pdu",
           t \in DirectTasks => place # "done",
           t \in LockTasks => t \notin APP_PDU_Send_Sem.pend,
           t \in LockTasks => HoldsPdu(t) \/ place = "idle",
           lost' = lost \/ (t \in LockTasks /\ HoldsPdu(t) /\ place = "idle")
    PROVE  PduInv'
BY DEF TypeOK, PduInv, PduMutex, LostUnitIsGone, HoldsPdu, Tasks, Semaphore

(* Every step of the link keeps PduInv. *)
LEMMA PduInvStep ==
    ASSUME AtMostTwo
    PROVE  TypeOK /\ PduInv /\ [Next]_vars => PduInv'
<1> SUFFICES ASSUME TypeOK, PduInv, [Next]_vars
             PROVE  PduInv'
  OBVIOUS
<1>1. ASSUME NEW t \in LockTasks, LockCall(t)
      PROVE  PduInv'
  BY <1>1, TasksAssumption
     DEF LockCall, history, TypeOK, PduInv, PduMutex, LostUnitIsGone, HoldsPdu, SemPend, Semaphore, Tasks
<1>2. ASSUME NEW t \in DirectTasks, DirectCall(t)
      PROVE  PduInv'
  BY <1>2, TasksAssumption, PduInvMove DEF DirectCall, Tasks, history
<1>3. ASSUME NEW t \in Tasks, TaskStep(t)
      PROVE  PduInv'
  <2>1. CASE SendBuffEnter(t)
    BY <2>1, PduInvMove DEF SendBuffEnter, history, HoldsPdu, OwnsPdu
  <2>2. CASE RecvBuffClear(t)
    BY <2>2, PduInvMove DEF RecvBuffClear, HoldsPdu, PduInv, semVars
  <2>3. CASE UartSend(t)
    BY <2>3, PduInvMove DEF UartSend, history, HoldsPdu, PduInv
  <2>4. CASE RevPend(t)
    BY <2>4, PduInvMove DEF RevPend, history, HoldsPdu, PduInv
  <2>5. CASE Recv(t)
    <3>1. PICK ok \in BOOLEAN :
             /\ pc' = [pc EXCEPT ![t] =
                   IF t \in LockTasks /\ ~LeavesUnposted(cmd[t], ok) THEN "done" ELSE "idle"]
             /\ lost' = IF t \in LockTasks /\ LeavesUnposted(cmd[t], ok) THEN lost + 1 ELSE lost
      BY <2>5 DEF Recv, Verdicts, Accepted
    <3>2. /\ UNCHANGED APP_PDU_Send_Sem
          /\ pc[t] = "rev" /\ HoldsPdu(t)
          /\ t \in LockTasks => t \notin APP_PDU_Send_Sem.pend
      BY <2>5 DEF Recv, HoldsPdu, PduInv, semVars
    <3>3. CASE t \in LockTasks /\ LeavesUnposted(cmd[t], ok)
      BY <3>1, <3>2, <3>3, PduInvMove
    <3>4. CASE t \in LockTasks /\ ~LeavesUnposted(cmd[t], ok)
      BY <3>1, <3>2, <3>4, TasksAssumption, PduInvMove
    <3>5. CASE t \notin LockTasks
      BY <3>1, <3>2, <3>5, PduInvMove
    <3> QED BY <3>3, <3>4, <3>5
  <2>6. CASE RevTimeout(t)
    BY <2>6, TasksAssumption, PduInvMove DEF RevTimeout, AfterTimeout, HoldsPdu, PduInv
  <2>7. CASE PduPost(t)
    <3>1. t \in LockTasks /\ HoldsPdu(t)
      BY <2>7 DEF PduPost, PduInv, HoldsPdu, Tasks
    <3>2. APP_PDU_Send_Sem.ctr = 0
      BY <3>1 DEF PduInv
    <3>3. APP_PDU_Send_Sem \in Semaphore(LockTasks) /\ pc \in [Tasks -> Places]
      BY DEF TypeOK
    <3>4. CASE APP_PDU_Send_Sem.pend = {}
      BY <2>7, <3>1, <3>2, <3>3, <3>4
         DEF PduPost, history, SemPost, PduInv, PduMutex, LostUnitIsGone, HoldsPdu, Semaphore, Tasks
    <3>5. CASE APP_PDU_Send_Sem.pend # {}
      <4>1. PICK u \in APP_PDU_Send_Sem.pend : TRUE
        BY <3>5
      <4>2. u \in LockTasks /\ pc[u] = "pdu" /\ u # t /\ pc[t] = "done"
        BY <2>7, <3>3 DEF PduPost, PduInv, Semaphore
      <4>3. \A v \in LockTasks : v = t \/ v = u
        BY <3>1, <4>2 DEF AtMostTwo
      <4>4. APP_PDU_Send_Sem' = [ctr |-> 0, pend |-> {}]
        BY <2>7, <3>2, <3>3, <3>5 DEF PduPost, history, SemPost, Semaphore
      <4>5. pc' = [pc EXCEPT ![t] = "idle"] /\ lost' = lost
        BY <2>7 DEF PduPost, history
      <4> QED BY <3>1, <3>3, <4>2, <4>3, <4>4, <4>5
              DEF PduInv, PduMutex, LostUnitIsGone, HoldsPdu, Semaphore, Tasks
    <3> QED BY <3>4, <3>5
  <2> QED BY <1>3, <2>1, <2>2, <2>3, <2>4, <2>5, <2>6, <2>7 DEF TaskStep
<1>6. CASE Wire \/ UrgentIsr \/ UNCHANGED vars
  <2>1. UNCHANGED <<pc, APP_PDU_Send_Sem, lost>>
    BY <1>6 DEF Wire, PduExec, Lose, RxIsr, UrgentIsr, vars, taskVars, semVars, history
  <2> QED BY <2>1 DEF PduInv, PduMutex, LostUnitIsGone, HoldsPdu
<1> QED BY <1>1, <1>2, <1>3, <1>6 DEF Next

(* With at most two lock tasks, APP_PDU_Send_Sem is a mutual exclusion     *)
(* lock over the whole exchange with the PDU, through timeouts and refused *)
(* answers.  With three it is not: run three_lock_tasks.                   *)
THEOREM PduMutexForTwo ==
    ASSUME AtMostTwo
    PROVE  Spec => []PduMutex
<1>1. PduInv => PduMutex
  BY DEF PduInv
<1> QED BY <1>1, PduInvInit, PduInvStep, TypeCorrect, PTL DEF Spec

(* With at most two lock tasks a unit that APP_PDUCOMM_VersionQue did not  *)
(* post is never had again: the link is blocked from then on.              *)
THEOREM LostUnitStaysLost ==
    ASSUME AtMostTwo
    PROVE  Spec => []LostUnitIsGone
<1>1. PduInv => LostUnitIsGone
  BY DEF PduInv
<1> QED BY <1>1, PduInvInit, PduInvStep, TypeCorrect, PTL DEF Spec

-----------------------------------------------------------------------------
(* SWIFT_UART4_Init: the unit is in the counter. *)
LEMMA UartInvInit == Init => UartInv
BY DEF Init, UartInv, UartMutex, HoldsUart, SemCreate, Tasks

(* Every step of the link keeps UartInv.  The owner of APP_PDU_Send_Sem    *)
(* and the direct task are the only two that can be in                     *)
(* SWIFT_UART4_SendBuff, so a post readies one waiter at most.             *)
LEMMA UartInvStep ==
    ASSUME AtMostOneDirect
    PROVE  TypeOK /\ PduInv /\ UartInv /\ [Next]_vars => UartInv'
<1> SUFFICES ASSUME TypeOK, PduInv, UartInv, [Next]_vars
             PROVE  UartInv'
  OBVIOUS
<1>0. SWIFT_UART4_Send_Sem \in Semaphore(Tasks) /\ pc \in [Tasks -> Places]
  BY DEF TypeOK
<1>a. ASSUME NEW t \in Tasks, NEW place, pc' = [pc EXCEPT ![t] = place],
             UNCHANGED SWIFT_UART4_Send_Sem,
             t \notin SWIFT_UART4_Send_Sem.pend,
             place # "uart", place = "tx" => HoldsUart(t)
      PROVE  UartInv'
  BY <1>0, <1>a DEF UartInv, UartMutex, HoldsUart, Semaphore
<1>b. ASSUME NEW t \in Tasks, pc[t] \in {"idle", "pdu"}, pc' = [pc EXCEPT ![t] = "uart"],
             SWIFT_UART4_Send_Sem' = SemPend(SWIFT_UART4_Send_Sem, t)
      PROVE  UartInv'
  BY <1>0, <1>b DEF UartInv, UartMutex, HoldsUart, SemPend, Semaphore
<1>1. ASSUME NEW t \in LockTasks, LockCall(t)
      PROVE  UartInv'
  BY <1>1, <1>a DEF LockCall, UartInv, Tasks
<1>2. ASSUME NEW t \in DirectTasks, DirectCall(t)
      PROVE  UartInv'
  BY <1>2, <1>b DEF DirectCall, Tasks
<1>3. ASSUME NEW t \in Tasks, TaskStep(t)
      PROVE  UartInv'
  <2>1. CASE SendBuffEnter(t)
    BY <2>1, <1>b DEF SendBuffEnter
  <2>2. CASE RecvBuffClear(t)
    BY <2>2, <1>a DEF RecvBuffClear, OwnsUart, HoldsUart, semVars
  <2>3. CASE UartSend(t)
    <3>1. HoldsUart(t) /\ pc[t] = "tx"
      BY <2>3 DEF UartSend, HoldsUart
    <3>2. SWIFT_UART4_Send_Sem.ctr = 0
      BY <3>1 DEF UartInv
    <3>3. /\ pc' = [pc EXCEPT ![t] = "sent"]
          /\ SWIFT_UART4_Send_Sem' = SemPost(SWIFT_UART4_Send_Sem)
      BY <2>3 DEF UartSend
    <3>4. CASE SWIFT_UART4_Send_Sem.pend = {}
      BY <1>0, <3>1, <3>2, <3>3, <3>4
         DEF SemPost, UartInv, UartMutex, HoldsUart, Semaphore
    <3>5. CASE SWIFT_UART4_Send_Sem.pend # {}
      <4>1. PICK u \in SWIFT_UART4_Send_Sem.pend : TRUE
        BY <3>5
      <4>2. u \in Tasks /\ pc[u] = "uart"
        BY <1>0 DEF UartInv, Semaphore
      <4>3. \A v \in LockTasks : pc[v] \in {"uart", "tx"} => HoldsPdu(v)
        BY DEF HoldsPdu
      <4>4. \A v \in Tasks : pc[v] \in {"uart", "tx"} => v = t \/ v = u
        BY <3>1, <4>2, <4>3 DEF PduInv, PduMutex, AtMostOneDirect, Tasks
      <4>5. SWIFT_UART4_Send_Sem' = [ctr |-> 0, pend |-> {}]
        BY <1>0, <3>2, <3>3, <3>5 DEF SemPost, Semaphore
      <4> QED BY <1>0, <3>1, <3>3, <4>2, <4>4, <4>5 DEF UartInv, UartMutex, HoldsUart
    <3> QED BY <3>4, <3>5
  <2>4. CASE RevPend(t)
    BY <2>4, <1>a DEF RevPend, UartInv
  <2>5. CASE Recv(t)
    <3>1. PICK place \in {"done", "idle"} : pc' = [pc EXCEPT ![t] = place]
      BY <2>5 DEF Recv
    <3> QED BY <2>5, <3>1, <1>a DEF Recv, UartInv, semVars
  <2>6. CASE RevTimeout(t)
    BY <2>6, <1>a DEF RevTimeout, AfterTimeout, UartInv
  <2>7. CASE PduPost(t)
    BY <2>7, <1>a DEF PduPost, UartInv
  <2> QED BY <1>3, <2>1, <2>2, <2>3, <2>4, <2>5, <2>6, <2>7 DEF TaskStep
<1>6. CASE Wire \/ UrgentIsr \/ UNCHANGED vars
  <2>1. UNCHANGED <<pc, SWIFT_UART4_Send_Sem>>
    BY <1>6 DEF Wire, PduExec, Lose, RxIsr, UrgentIsr, vars, taskVars, semVars
  <2> QED BY <2>1 DEF UartInv, UartMutex, HoldsUart
<1> QED BY <1>1, <1>2, <1>3, <1>6 DEF Next

(* With at most two lock tasks and one direct task, one task at a time     *)
(* clears the receive buffer of UART4 and transmits.                       *)
THEOREM UartMutexForTwo ==
    ASSUME AtMostTwo, AtMostOneDirect
    PROVE  Spec => []UartMutex
<1>1. UartInv => UartMutex
  BY DEF UartInv
<1> QED BY <1>1, PduInvInit, PduInvStep, UartInvInit, UartInvStep, TypeCorrect, PTL DEF Spec

-----------------------------------------------------------------------------
(* What an answer of the PDU means: AckIsOwn and MotorMoveIsTrue for any   *)
(* tasks, parts and requests, with losses, late answers, direct senders    *)
(* and urgent frames.                                                      *)

(* t is asleep on SWIFT_UART4_Rev_Sem, or not there yet. *)
Sleepers(t) == IF pc[t] = "rev" THEN {t} ELSE {}

(* The PDU has not seen t's request, and nothing else has come: t will not *)
(* look into the buffer before something does.                             *)
Waiting(t) ==
    /\ toPdu = << >> \/ (toPdu = <<cmd[t]>> /\ pc[t] # "tx")
    /\ toAcu = << >> /\ rx = NoFrame
    /\ SWIFT_UART4_Rev_Sem = [ctr |-> 0, pend |-> Sleepers(t)]

(* The PDU has done what t's request says, and nothing more is to come.    *)
Obeyed(t) ==
    /\ pc[t] # "tx"
    /\ toPdu = << >>
    /\ cmd[t].id \in executed
    /\ IsMotor(cmd[t]) => motor[cmd[t].part] = cmd[t].dir

(* While t is alone nobody else has the line, and its request has been     *)
(* obeyed or nothing has come.                                             *)
AloneInv ==
    \A t \in alone : Engaged(t) =>
        /\ \A u \in Tasks \ {t} : ~Engaged(u)
        /\ Waiting(t) \/ Obeyed(t)

(* The motor requests, and no others, name a motor. *)
RequestInv ==
    \A t \in Tasks : pc[t] # "idle" => (cmd[t].part \in Parts <=> IsMotor(cmd[t]))

(* Some request about p is at its caller, between transmission and answer. *)
Concerned(p) == \E t \in Tasks : Engaged(t) /\ cmd[t].part = p

(* A request about p is on its way to the PDU. *)
OnTheWire(p) == \E i \in 1..Len(toPdu) : IsMotor(toPdu[i]) /\ toPdu[i].part = p

(* motor_move differs from the motor, or is about to, only for a part that *)
(* a call is about or whose last call is not to be trusted.                *)
MotionInv ==
    \A p \in Parts \ unsure :
        ~Concerned(p) => motor_move[p] = motor[p] /\ ~OnTheWire(p)

(* The inductive invariant, beside TypeOK. *)
AnswerInv == AloneInv /\ RequestInv /\ MotionInv /\ AckIsOwn

(* A task that moves outside the exchange disturbs nobody. *)
LEMMA MovesOutside ==
    ASSUME TypeOK, AnswerInv, NEW t \in Tasks, ~Engaged(t), ~Engaged(t)',
           \A u \in Tasks \ {t} : pc'[u] = pc[u] /\ cmd'[u] = cmd[u],
           UNCHANGED <<toPdu, toAcu, rx, SWIFT_UART4_Rev_Sem, motor, executed,
                       motor_move, alone, unsure>>
    PROVE  AloneInv' /\ MotionInv'
<1>1. \A u \in Tasks : Engaged(u)' <=> Engaged(u)
  BY DEF Engaged
<1>2. \A u \in Tasks : Engaged(u) => u # t /\ cmd'[u] = cmd[u] /\ pc'[u] = pc[u]
  OBVIOUS
<1>3. ASSUME NEW u \in alone, Engaged(u)'
      PROVE  (\A v \in Tasks \ {u} : ~Engaged(v)') /\ (Waiting(u)' \/ Obeyed(u)')
  <2>1. u \in Tasks /\ Engaged(u) /\ cmd'[u] = cmd[u] /\ pc'[u] = pc[u]
    BY <1>1, <1>2, <1>3 DEF TypeOK
  <2>2. (\A v \in Tasks \ {u} : ~Engaged(v)) /\ (Waiting(u) \/ Obeyed(u))
    BY <2>1 DEF AnswerInv, AloneInv
  <2> QED BY <1>1, <2>1, <2>2 DEF Waiting, Obeyed, Sleepers
<1>4. AloneInv'
  BY <1>3 DEF AloneInv
<1>5. \A p \in Parts : Concerned(p)' <=> Concerned(p)
  BY <1>1, <1>2 DEF Concerned
<1>6. MotionInv'
  BY <1>5 DEF AnswerInv, MotionInv, OnTheWire
<1> QED BY <1>4, <1>6

(* A request that is made stays what it is to the end of its call. *)
LEMMA RequestMoves ==
    ASSUME TypeOK, RequestInv, NEW t \in Tasks, pc[t] # "idle", NEW place,
           pc' = [pc EXCEPT ![t] = place], cmd' = cmd
    PROVE  RequestInv'
BY DEF RequestInv, TypeOK, IsMotor

(* A call begins: the new request is not on the line yet. *)
LEMMA AnswerCall ==
    ASSUME TypeOK, AnswerInv, NEW t \in Tasks, NEW op \in LockOps \cup DirectOps,
           NEW c \in Requests(op, reqs + 1), NEW place \in {"pdu", "uart"},
           pc[t] = "idle", pc' = [pc EXCEPT ![t] = place], cmd' = [cmd EXCEPT ![t] = c],
           UNCHANGED <<toPdu, toAcu, rx, SWIFT_UART4_Rev_Sem, motor, executed,
                       motor_move, alone, unsure, result>>
    PROVE  AnswerInv'
<1>1. pc \in [Tasks -> Places] /\ cmd \in [Tasks -> Frame]
  BY DEF TypeOK
<1>2. ~Engaged(t) /\ ~Engaged(t)'
  BY <1>1 DEF Engaged
<1>3. AloneInv' /\ MotionInv'
  BY <1>1, <1>2, MovesOutside
<1>4. c.part \in Parts <=> IsMotor(c)
  BY DataAssumption DEF Requests, IsMotor
<1>5. RequestInv'
  BY <1>1, <1>4 DEF RequestInv, AnswerInv, IsMotor
<1>6. AckIsOwn'
  BY <1>1 DEF AckIsOwn, AnswerInv, Tasks
<1> QED BY <1>3, <1>5, <1>6 DEF AnswerInv

(* A task inside its call, away from the line. *)
LEMMA AnswerAway ==
    ASSUME TypeOK, AnswerInv, NEW t \in Tasks, SendBuffEnter(t) \/ PduPost(t)
    PROVE  AnswerInv'
<1>1. pc \in [Tasks -> Places]
  BY DEF TypeOK
<1>2. PICK place \in {"uart", "idle"} : pc' = [pc EXCEPT ![t] = place]
  BY DEF SendBuffEnter, PduPost
<1>3. /\ pc[t] \in {"pdu", "done"} /\ cmd' = cmd
      /\ UNCHANGED <<toPdu, toAcu, rx, SWIFT_UART4_Rev_Sem, motor, executed,
                     motor_move, alone, unsure, result>>
  BY DEF SendBuffEnter, PduPost, wireVars, history
<1>4. AloneInv' /\ MotionInv'
  BY <1>1, <1>2, <1>3, MovesOutside DEF Engaged
<1>5. RequestInv'
  BY <1>2, <1>3, RequestMoves DEF AnswerInv
<1>6. AckIsOwn'
  BY <1>1, <1>2, <1>3 DEF AckIsOwn, AnswerInv
<1> QED BY <1>4, <1>5, <1>6 DEF AnswerInv

(* A task takes the line: it is alone if it finds it silent, and nobody    *)
(* who had the line is alone from then on.                                 *)
LEMMA AnswerClear ==
    ASSUME TypeOK, AnswerInv, NEW t \in Tasks, RecvBuffClear(t)
    PROVE  AnswerInv'
<1>1. pc \in [Tasks -> Places] /\ alone \subseteq Tasks
  BY DEF TypeOK
<1>2. /\ pc[t] = "uart" /\ pc' = [pc EXCEPT ![t] = "tx"] /\ rx' = NoFrame
      /\ alone' = Clears(t, toAcu')
      /\ UNCHANGED <<cmd, result, executed, toPdu, SWIFT_UART4_Rev_Sem, motor, motor_move, unsure>>
  BY DEF RecvBuffClear, semVars
<1>3. \A u \in Tasks \ {t} : Engaged(u)' <=> Engaged(u)
  BY <1>1, <1>2 DEF Engaged
<1>4. AloneInv'
  <2>1. CASE /\ toPdu = << >> /\ toAcu' = << >>
             /\ SWIFT_UART4_Rev_Sem = SemCreate(0)
             /\ \A u \in Tasks \ {t} : ~Engaged(u)
    <3>1. alone' = alone \cup {t}
      BY <1>2, <2>1 DEF Clears
    <3>2. Waiting(t)'
      BY <1>1, <1>2, <2>1 DEF Waiting, Sleepers, SemCreate
    <3>3. \A u \in alone' : Engaged(u)' => u = t
      BY <1>1, <1>3, <2>1, <3>1
    <3> QED BY <1>3, <2>1, <3>2, <3>3 DEF AloneInv
  <2>2. CASE ~(/\ toPdu = << >> /\ toAcu' = << >>
               /\ SWIFT_UART4_Rev_Sem = SemCreate(0)
               /\ \A u \in Tasks \ {t} : ~Engaged(u))
    <3>1. alone' = {u \in alone : u # t /\ ~Engaged(u)}
      BY <1>2, <2>2 DEF Clears
    <3>2. \A u \in alone' : ~Engaged(u)'
      BY <1>1, <1>3, <3>1
    <3> QED BY <3>2 DEF AloneInv
  <2> QED BY <2>1, <2>2
<1>5. MotionInv'
  <2>1. \A p \in Parts : Concerned(p) => Concerned(p)'
    BY <1>1, <1>2 DEF Concerned, Engaged
  <2> QED BY <1>2, <2>1 DEF AnswerInv, MotionInv, OnTheWire
<1>6. RequestInv'
  BY <1>2, RequestMoves DEF AnswerInv
<1>7. AckIsOwn'
  <2>1. \A u \in alone' : u # t => u \in alone
    BY <1>2 DEF Clears
  <2> QED BY <1>1, <1>2, <2>1 DEF AckIsOwn, AnswerInv, Tasks
<1> QED BY <1>4, <1>5, <1>6, <1>7 DEF AnswerInv

(* A frame put on the wire is about its sender's part. *)
LEMMA WireGrows ==
    ASSUME NEW w \in Seq(Frame), NEW c \in Frame, NEW i \in 1..Len(Append(w, c))
    PROVE  Append(w, c)[i] = c \/ (i \in 1..Len(w) /\ Append(w, c)[i] = w[i])
OBVIOUS

(* A frame taken off the wire leaves the others. *)
LEMMA WireShrinks ==
    ASSUME NEW w \in Seq(Frame), w # << >>, NEW i \in 1..Len(Tail(w))
    PROVE  i + 1 \in 1..Len(w) /\ Tail(w)[i] = w[i + 1]
OBVIOUS

(* The head of a wire is its first frame. *)
LEMMA WireHead ==
    ASSUME NEW w \in Seq(Frame), w # << >>
    PROVE  1 \in 1..Len(w) /\ Head(w) = w[1]
OBVIOUS

(* A task transmits. *)
LEMMA AnswerSend ==
    ASSUME TypeOK, AnswerInv, NEW t \in Tasks, UartSend(t)
    PROVE  AnswerInv'
<1>1. pc \in [Tasks -> Places] /\ cmd \in [Tasks -> Frame] /\ alone \subseteq Tasks /\ toPdu \in Seq(Frame)
  BY DEF TypeOK
<1>2. /\ pc[t] = "tx" /\ pc' = [pc EXCEPT ![t] = "sent"]
      /\ UNCHANGED <<cmd, result, executed, toAcu, rx, SWIFT_UART4_Rev_Sem, motor,
                     motor_move, alone, unsure>>
  BY DEF UartSend, history
<1>3. \A u \in Tasks : Engaged(u)' <=> Engaged(u)
  BY <1>1, <1>2 DEF Engaged
<1>4. AloneInv'
  <2> SUFFICES ASSUME NEW u \in alone, Engaged(u)
               PROVE  (\A v \in Tasks \ {u} : ~Engaged(v)) /\ (Waiting(u)' \/ Obeyed(u)')
    BY <1>1, <1>2, <1>3 DEF AloneInv
  <2>1. (\A v \in Tasks \ {u} : ~Engaged(v)) /\ (Waiting(u) \/ Obeyed(u))
    BY DEF AnswerInv, AloneInv
  <2>2. u = t
    BY <1>1, <1>2, <2>1 DEF Engaged
  <2>3. Waiting(t) /\ toPdu = << >>
    BY <1>2, <2>1, <2>2 DEF Waiting, Obeyed
  <2>4. toPdu' = <<cmd[t]>>
    <3>1. \A v \in Tasks \ {t} : pc[v] # "tx"
      BY <2>1, <2>2 DEF Engaged
    <3>2. toPdu' = Append(<< >>, cmd[t])
      BY <2>3, <3>1 DEF UartSend
    <3> QED BY <3>2
  <2>5. Waiting(t)'
    BY <1>1, <1>2, <2>3, <2>4 DEF Waiting, Sleepers
  <2> QED BY <2>1, <2>2, <2>5
<1>5. MotionInv'
  <2> SUFFICES ASSUME NEW p \in Parts \ unsure, ~Concerned(p)'
               PROVE  motor_move[p] = motor[p] /\ ~OnTheWire(p)'
    BY <1>2 DEF MotionInv
  <2>1. ~Concerned(p) /\ cmd[t].part # p
    BY <1>2, <1>3 DEF Concerned, Engaged
  <2>2. motor_move[p] = motor[p] /\ ~OnTheWire(p)
    BY <2>1 DEF AnswerInv, MotionInv
  <2>3. cmd[t] \in Frame
    BY <1>1
  <2>4. toPdu' = Append(toPdu, cmd[t]) \/ toPdu' = toPdu
    BY DEF UartSend
  <2>5. ~OnTheWire(p)'
    BY <1>1, <2>1, <2>2, <2>3, <2>4, WireGrows DEF OnTheWire
  <2> QED BY <2>2, <2>5
<1>6. RequestInv'
  BY <1>2, RequestMoves DEF AnswerInv
<1>7. AckIsOwn'
  BY <1>1, <1>2 DEF AckIsOwn, AnswerInv, Tasks
<1> QED BY <1>4, <1>5, <1>6, <1>7 DEF AnswerInv

(* A task pends on SWIFT_UART4_Rev_Sem: with no unit it sleeps, and a unit *)
(* is there only when its request has been obeyed.                         *)
LEMMA AnswerPend ==
    ASSUME TypeOK, AnswerInv, NEW t \in Tasks, RevPend(t)
    PROVE  AnswerInv'
<1>1. pc \in [Tasks -> Places] /\ alone \subseteq Tasks
  BY DEF TypeOK
<1>2. /\ pc[t] = "sent" /\ pc' = [pc EXCEPT ![t] = "rev"]
      /\ SWIFT_UART4_Rev_Sem' = SemPend(SWIFT_UART4_Rev_Sem, t)
      /\ UNCHANGED <<cmd, result, executed, toPdu, toAcu, rx, motor,
                     motor_move, alone, unsure>>
  BY DEF RevPend, wireVars, history
<1>3. \A u \in Tasks : Engaged(u)' <=> Engaged(u)
  BY <1>1, <1>2 DEF Engaged
<1>4. AloneInv'
  <2> SUFFICES ASSUME NEW u \in alone, Engaged(u)
               PROVE  (\A v \in Tasks \ {u} : ~Engaged(v)) /\ (Waiting(u)' \/ Obeyed(u)')
    BY <1>1, <1>2, <1>3 DEF AloneInv
  <2>1. (\A v \in Tasks \ {u} : ~Engaged(v)) /\ (Waiting(u) \/ Obeyed(u))
    BY DEF AnswerInv, AloneInv
  <2>2. u = t
    BY <1>1, <1>2, <2>1 DEF Engaged
  <2>3. pc'[t] = "rev"
    BY <1>1, <1>2
  <2>4. CASE Waiting(t)
    <3>1. SWIFT_UART4_Rev_Sem = [ctr |-> 0, pend |-> {}]
      BY <1>2, <2>4 DEF Waiting, Sleepers
    <3>2. SWIFT_UART4_Rev_Sem' = [ctr |-> 0, pend |-> {t}]
      BY <1>2, <3>1 DEF SemPend
    <3>3. Waiting(t)'
      BY <1>2, <2>3, <2>4, <3>2 DEF Waiting, Sleepers
    <3> QED BY <2>1, <2>2, <3>3
  <2>5. CASE Obeyed(t)
    <3>1. Obeyed(t)'
      BY <1>2, <2>3, <2>5 DEF Obeyed
    <3> QED BY <2>1, <2>2, <3>1
  <2> QED BY <2>1, <2>2, <2>4, <2>5
<1>5. MotionInv'
  BY <1>2, <1>3 DEF AnswerInv, MotionInv, Concerned, OnTheWire
<1>6. RequestInv'
  BY <1>2, RequestMoves DEF AnswerInv
<1>7. AckIsOwn'
  BY <1>1, <1>2 DEF AckIsOwn, AnswerInv, Tasks
<1> QED BY <1>4, <1>5, <1>6, <1>7 DEF AnswerInv

(* A task that waits alone looks into the buffer only when its request has *)
(* been obeyed.                                                            *)
LEMMA AnsweredIsObeyed ==
    ASSUME TypeOK, AnswerInv, NEW t \in alone, pc[t] = "rev", t \notin SWIFT_UART4_Rev_Sem.pend
    PROVE  Obeyed(t)
<1>1. Waiting(t) \/ Obeyed(t)
  BY DEF AnswerInv, AloneInv, Engaged
<1>2. ~Waiting(t)
  BY DEF Waiting, Sleepers
<1> QED BY <1>1, <1>2

(* A task that gives up the line leaves nobody alone on it. *)
LEMMA LeavesTheLine ==
    ASSUME TypeOK, AnswerInv, NEW t \in Tasks, pc[t] = "rev", NEW place \in {"done", "idle"},
           pc' = [pc EXCEPT ![t] = place], cmd' = cmd, alone' = alone
    PROVE  /\ AloneInv'
           /\ RequestInv'
           /\ \A p \in Parts : Concerned(p) => Concerned(p)' \/ p = cmd[t].part
<1>1. pc \in [Tasks -> Places] /\ alone \subseteq Tasks
  BY DEF TypeOK
<1>2. \A u \in alone : ~Engaged(u)'
  BY <1>1 DEF AnswerInv, AloneInv, Engaged
<1>3. AloneInv'
  BY <1>2 DEF AloneInv
<1>4. RequestInv'
  BY RequestMoves DEF AnswerInv
<1>5. \A p \in Parts : Concerned(p) => Concerned(p)' \/ p = cmd[t].part
  BY <1>1 DEF Concerned, Engaged
<1> QED BY <1>3, <1>4, <1>5

(* A task reads its answer and gives its verdict. *)
LEMMA AnswerRecv ==
    ASSUME TypeOK, AnswerInv, NEW t \in Tasks, Recv(t)
    PROVE  AnswerInv'
<1>1. /\ pc \in [Tasks -> Places] /\ cmd \in [Tasks -> Frame] /\ alone \subseteq Tasks
      /\ result \in [Tasks -> {"none", "SUCC", "FAIL"}]
      /\ motor_move \in [Parts -> Dirs] /\ unsure \subseteq Parts
  BY DEF TypeOK
<1>2. PICK ok \in BOOLEAN :
          /\ result' = [result EXCEPT ![t] = IF ok THEN "SUCC" ELSE "FAIL"]
          /\ motor_move' = MotionAfter(t, cmd[t], ok)
          /\ unsure' = UnsureAfter(t, ok)
  BY DEF Recv, Verdicts, Accepted
<1>3. PICK place \in {"done", "idle"} : pc' = [pc EXCEPT ![t] = place]
  BY DEF Recv
<1>4. /\ pc[t] = "rev" /\ t \notin SWIFT_UART4_Rev_Sem.pend
      /\ UNCHANGED <<cmd, toPdu, motor, executed, alone>>
  BY DEF Recv, Answered
<1>5. /\ AloneInv' /\ RequestInv'
      /\ \A p \in Parts : Concerned(p) => Concerned(p)' \/ p = cmd[t].part
  BY <1>3, <1>4, LeavesTheLine
<1>6. MotionInv'
  <2> SUFFICES ASSUME NEW p \in Parts \ unsure', ~Concerned(p)'
               PROVE  motor_move'[p] = motor[p] /\ ~OnTheWire(p)
    BY <1>4 DEF MotionInv, OnTheWire
  <2>1. CASE p = cmd[t].part
    <3>1. ok /\ t \in alone /\ t \in LockTasks
      BY <1>2, <2>1 DEF UnsureAfter
    <3>2. IsMotor(cmd[t])
      BY <1>4, <2>1 DEF AnswerInv, RequestInv
    <3>3. Obeyed(t)
      BY <1>4, <3>1, AnsweredIsObeyed
    <3>4. motor_move' = [motor_move EXCEPT ![p] = cmd[t].dir]
      BY <1>2, <2>1, <3>1, <3>2 DEF MotionAfter
    <3>5. motor_move'[p] = motor[p]
      BY <1>1, <2>1, <3>2, <3>3, <3>4 DEF Obeyed
    <3>6. ~OnTheWire(p)
      BY <3>3 DEF Obeyed, OnTheWire
    <3> QED BY <3>5, <3>6
  <2>2. CASE p # cmd[t].part
    <3>1. p \in Parts \ unsure /\ ~Concerned(p)
      BY <1>2, <1>5, <2>2 DEF UnsureAfter
    <3>2. motor_move[p] = motor[p] /\ ~OnTheWire(p)
      BY <3>1 DEF AnswerInv, MotionInv
    <3>3. motor_move'[p] = motor_move[p]
      BY <1>1, <1>2, <2>2 DEF MotionAfter
    <3> QED BY <3>2, <3>3
  <2> QED BY <2>1, <2>2
<1>7. AckIsOwn'
  <2>1. t \in alone => cmd[t].id \in executed
    BY <1>4, AnsweredIsObeyed DEF Obeyed
  <2> QED BY <1>1, <1>2, <1>3, <1>4, <2>1 DEF AckIsOwn, AnswerInv, Tasks
<1> QED BY <1>5, <1>6, <1>7 DEF AnswerInv

(* The wait of a task times out. *)
LEMMA AnswerTimeout ==
    ASSUME TypeOK, AnswerInv, NEW t \in Tasks, RevTimeout(t)
    PROVE  AnswerInv'
<1>1. /\ pc \in [Tasks -> Places] /\ alone \subseteq Tasks
      /\ result \in [Tasks -> {"none", "SUCC", "FAIL"}] /\ unsure \subseteq Parts
  BY DEF TypeOK
<1>2. /\ pc[t] = "rev" /\ result' = [result EXCEPT ![t] = "FAIL"]
      /\ unsure' = UnsureAfter(t, FALSE)
      /\ UNCHANGED <<cmd, toPdu, motor, executed, alone, motor_move>>
  BY DEF RevTimeout, wireVars
<1>3. PICK place \in {"done", "idle"} : pc' = [pc EXCEPT ![t] = place]
  BY DEF RevTimeout, AfterTimeout
<1>4. /\ AloneInv' /\ RequestInv'
      /\ \A p \in Parts : Concerned(p) => Concerned(p)' \/ p = cmd[t].part
  BY <1>2, <1>3, LeavesTheLine
<1>5. MotionInv'
  <2> SUFFICES ASSUME NEW p \in Parts \ unsure', ~Concerned(p)'
               PROVE  motor_move[p] = motor[p] /\ ~OnTheWire(p)
    BY <1>2 DEF MotionInv, OnTheWire
  <2>1. p \in Parts \ unsure /\ p # cmd[t].part
    BY <1>2 DEF UnsureAfter
  <2> QED BY <1>4, <2>1 DEF AnswerInv, MotionInv
<1>6. AckIsOwn'
  BY <1>1, <1>2, <1>3 DEF AckIsOwn, AnswerInv, Tasks
<1> QED BY <1>4, <1>5, <1>6 DEF AnswerInv

(* The wires, the PDU and the receive interrupt. *)
LEMMA AnswerWire ==
    ASSUME TypeOK, AnswerInv, Wire \/ UrgentIsr
    PROVE  AnswerInv'
<1>1. UNCHANGED <<pc, cmd, result, unsure, motor_move, alone>>
  BY DEF Wire, PduExec, Lose, RxIsr, UrgentIsr, taskVars, history
<1>2. /\ cmd \in [Tasks -> Frame] /\ toPdu \in Seq(Frame) /\ motor \in [Parts -> Dirs]
      /\ alone \subseteq Tasks
  BY DEF TypeOK
<1>3. RequestInv'
  BY <1>1 DEF RequestInv, AnswerInv
<1>4. executed \subseteq executed'
  BY DEF Wire, PduExec, Lose, RxIsr, UrgentIsr, wireVars
<1>5. AckIsOwn'
  BY <1>1, <1>4 DEF AckIsOwn, AnswerInv
<1>6. AloneInv'
  <2> SUFFICES ASSUME NEW t \in alone, Engaged(t)
               PROVE  (\A u \in Tasks \ {t} : ~Engaged(u)) /\ (Waiting(t)' \/ Obeyed(t)')
    BY <1>1 DEF AloneInv, Engaged
  <2>1. (\A u \in Tasks \ {t} : ~Engaged(u)) /\ (Waiting(t) \/ Obeyed(t))
    BY DEF AnswerInv, AloneInv
  <2>2. cmd'[t] = cmd[t] /\ pc'[t] = pc[t] /\ Sleepers(t)' = Sleepers(t)
    BY <1>1 DEF Sleepers
  <2>3. <<cmd[t]>> # << >> /\ Head(<<cmd[t]>>) = cmd[t] /\ Tail(<<cmd[t]>>) = << >>
    OBVIOUS
  <2>4. CASE PduExec
    <3>1. Waiting(t) /\ toPdu = <<cmd[t]>> /\ pc[t] # "tx"
      BY <2>1, <2>4 DEF PduExec, Waiting, Obeyed
    <3>2. /\ motor' = IF IsMotor(cmd[t]) THEN [motor EXCEPT ![cmd[t].part] = cmd[t].dir] ELSE motor
          /\ cmd[t].id \in executed' /\ toPdu' = << >>
      BY <2>3, <2>4, <3>1 DEF PduExec
    <3>3. IsMotor(cmd[t]) => cmd[t].part \in Parts
      BY <1>2 DEF AnswerInv, RequestInv, Engaged
    <3>4. IsMotor(cmd[t]) => motor'[cmd[t].part] = cmd[t].dir
      BY <1>2, <3>2, <3>3
    <3>5. Obeyed(t)'
      BY <2>2, <3>1, <3>2, <3>4 DEF Obeyed, IsMotor
    <3> QED BY <2>1, <3>5
  <2>5. CASE Lose
    <3>1. CASE Waiting(t)
      BY <2>1, <2>2, <2>3, <2>5, <3>1 DEF Lose, Waiting, semVars
    <3>2. CASE Obeyed(t)
      BY <2>1, <2>2, <2>5, <3>2 DEF Lose, Obeyed, IsMotor
    <3> QED BY <2>1, <3>1, <3>2
  <2>6. CASE RxIsr
    BY <2>1, <2>2, <2>6 DEF RxIsr, Waiting, Obeyed, IsMotor
  <2>7. CASE UrgentIsr
    BY <2>1, <2>2, <2>7 DEF UrgentIsr, wireVars, Waiting, Obeyed, IsMotor
  <2> QED BY <2>4, <2>5, <2>6, <2>7 DEF Wire
<1>7. MotionInv'
  <2> SUFFICES ASSUME NEW p \in Parts \ unsure, ~Concerned(p)
               PROVE  motor_move[p] = motor'[p] /\ ~OnTheWire(p)'
    BY <1>1 DEF MotionInv, Concerned, Engaged
  <2>1. motor_move[p] = motor[p] /\ ~OnTheWire(p)
    BY DEF AnswerInv, MotionInv
  <2>2. toPdu' = toPdu \/ (toPdu # << >> /\ toPdu' = Tail(toPdu))
    BY DEF Wire, PduExec, Lose, RxIsr, UrgentIsr, wireVars
  <2>3. ~OnTheWire(p)'
    <3>1. CASE toPdu' = toPdu
      BY <2>1, <3>1 DEF OnTheWire
    <3>2. CASE toPdu # << >> /\ toPdu' = Tail(toPdu)
      <4> SUFFICES ASSUME NEW i \in 1..Len(toPdu'), IsMotor(toPdu'[i]), toPdu'[i].part = p
                   PROVE  FALSE
        BY DEF OnTheWire, IsMotor
      <4>1. i + 1 \in 1..Len(toPdu) /\ toPdu'[i] = toPdu[i + 1]
        BY <1>2, <3>2, WireShrinks
      <4> QED BY <2>1, <4>1 DEF OnTheWire
    <3> QED BY <2>2, <3>1, <3>2
  <2>4. motor'[p] = motor[p]
    <3>1. CASE PduExec
      <4>1. ~(IsMotor(Head(toPdu)) /\ Head(toPdu).part = p)
        BY <1>2, <2>1, <3>1, WireHead DEF PduExec, OnTheWire
      <4>2. motor' = IF IsMotor(Head(toPdu))
                     THEN [motor EXCEPT ![Head(toPdu).part] = Head(toPdu).dir] ELSE motor
        BY <3>1 DEF PduExec
      <4> QED BY <1>2, <4>1, <4>2
    <3>2. CASE Lose \/ RxIsr \/ UrgentIsr
      BY <3>2 DEF Lose, RxIsr, UrgentIsr, wireVars
    <3> QED BY <3>1, <3>2 DEF Wire
  <2> QED BY <2>1, <2>3, <2>4
<1> QED BY <1>3, <1>5, <1>6, <1>7 DEF AnswerInv

(* Every step keeps AnswerInv. *)
LEMMA AnswerStep == TypeOK /\ AnswerInv /\ [Next]_vars => AnswerInv'
<1> SUFFICES ASSUME TypeOK, AnswerInv, [Next]_vars
             PROVE  AnswerInv'
  OBVIOUS
<1>1. ASSUME NEW t \in LockTasks, LockCall(t)
      PROVE  AnswerInv'
  <2>1. PICK op \in LockOps : \E c \in Requests(op, reqs + 1) : cmd' = [cmd EXCEPT ![t] = c]
    BY <1>1 DEF LockCall
  <2>2. PICK c \in Requests(op, reqs + 1) : cmd' = [cmd EXCEPT ![t] = c]
    BY <2>1
  <2> QED BY <1>1, <2>2, AnswerCall DEF LockCall, wireVars, history, Tasks
<1>2. ASSUME NEW t \in DirectTasks, DirectCall(t)
      PROVE  AnswerInv'
  <2>1. PICK op \in DirectOps : \E c \in Requests(op, reqs + 1) : cmd' = [cmd EXCEPT ![t] = c]
    BY <1>2 DEF DirectCall
  <2>2. PICK c \in Requests(op, reqs + 1) : cmd' = [cmd EXCEPT ![t] = c]
    BY <2>1
  <2> QED BY <1>2, <2>2, AnswerCall DEF DirectCall, wireVars, history, Tasks
<1>3. ASSUME NEW t \in Tasks, TaskStep(t)
      PROVE  AnswerInv'
  BY <1>3, AnswerAway, AnswerClear, AnswerSend, AnswerPend, AnswerRecv, AnswerTimeout DEF TaskStep
<1>4. CASE Wire \/ UrgentIsr
  BY <1>4, AnswerWire
<1>5. CASE UNCHANGED vars
  <2>1. UNCHANGED <<pc, cmd, result, toPdu, toAcu, rx, SWIFT_UART4_Rev_Sem, motor, executed,
                    motor_move, alone, unsure>>
    BY <1>5 DEF vars, taskVars, semVars, wireVars, history
  <2> QED BY <2>1 DEF AnswerInv, AloneInv, RequestInv, MotionInv, AckIsOwn, Engaged, Sleepers,
                      Waiting, Obeyed, Concerned, OnTheWire, IsMotor
<1> QED BY <1>1, <1>2, <1>3, <1>4, <1>5 DEF Next

(* The inductive invariant holds always. *)
LEMMA AnswerInductive == Spec => []AnswerInv
<1>1. Init => AnswerInv
  BY DEF Init, AnswerInv, AloneInv, RequestInv, MotionInv, OnTheWire, AckIsOwn, Tasks
<1> QED BY <1>1, AnswerStep, TypeCorrect, PTL DEF Spec

(* Whoever had the line to itself from a silent start may trust a SUCC,    *)
(* for any number of tasks, whatever is lost, late or urgent: the PDU has  *)
(* executed the request.                                                   *)
THEOREM AnswersAreOwn == Spec => []AckIsOwn
<1>1. AnswerInv => AckIsOwn
  BY DEF AnswerInv
<1> QED BY <1>1, AnswerInductive, PTL

(* motor_move, the word on which the soft-limit monitor stops a motor, is  *)
(* true from the end of such a call until the next request about the part  *)
(* is transmitted, whatever the other tasks, the wires and the PDU do.     *)
THEOREM MotorMoveTrue == Spec => []MotorMoveIsTrue
<1>1. AnswerInv => MotorMoveIsTrue
  BY DEF AnswerInv, MotionInv, Concerned, MotorMoveIsTrue
<1> QED BY <1>1, AnswerInductive, PTL
=============================================================================
