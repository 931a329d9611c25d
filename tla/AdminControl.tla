---------------------------- MODULE AdminControl ----------------------------
(***************************************************************************)
(* Who controls the antenna: the unit itself (ACU), a PC on the network,   *)
(* or the power drive unit (PDU).  A PC asks for control, the operator of  *)
(* the OLED panel grants or refuses, and silence, the PDU or either party  *)
(* takes control back.                                                     *)
(*                                                                         *)
(* Sources: APP_PCCOMM_PCAdminSet (app_pccomm.c), APP_OLEDCOMM_PCAdminSet  *)
(* (app_oledcomm.c), the timeouts and the PDU-loss branch of               *)
(* app_monitor.c, APP_PDUCOMM_PDUDevStaQue (app_pducomm.c) and the packet  *)
(* counter of udpecho_thread.                                              *)
(*                                                                         *)
(* Four tasks share the record adm, without a lock:                        *)
(*   udp      serves the packets of the PCs                                *)
(*   oled     serves the commands of the panel                             *)
(*   poll     polls the PDU                                                *)
(*   monitor  runs the timeouts and watches the PDU link                   *)
(* A handler reads adm when it starts and then makes its writes one by     *)
(* one: todo[t] holds those still to come.  The kernel is preemptive, with *)
(* round robin among equals (os_cfg.h), and a handler's log entry may      *)
(* block its task, so any handler may be split by any other one.           *)
(*                                                                         *)
(* Fields that the handlers write along and none of them reads are left    *)
(* out: pc_admin_deal_sta, and the mode_sta, SeekSat_Mode and dev_work_sta *)
(* that the PDU poll and the loss of the PDU reset.                        *)
(***************************************************************************)
EXTENDS Integers, Sequences, FiniteSets

CONSTANTS
    PCs,            \* the addresses of the PCs
    WaitTicks,      \* monitor periods in 5 minutes
    LinkTicks,      \* monitor periods in 15 seconds
    MaxPackets,     \* bound: requests for control and other packets
    MaxAnswers,     \* bound: grants and refusals of the operator
    MaxPolls        \* bound: changes of the PDU's claim or link

Tasks == {"udp", "oled", "poll", "monitor"}

ASSUME PCsAssumption == PCs \subseteq Nat \ {0}

ASSUME AdminAssumption ==
    {WaitTicks, LinkTicks, MaxPackets, MaxAnswers, MaxPolls} \subseteq Nat

(* Values of dev_admin_sta and admin_sta. *)
ACU == 0
PC == 1
PDU == 2
ASKING == 17

VARIABLES
    adm,                        \* the shared fields, see Fields
    todo,                       \* todo[t]: writes left in the handler of t
    pc_admin_wait_timeout_cnt,  \* statics of the timeout handler
    pc_admin_unlink_cnt,
    PC_admin_old_link_cnt,
    pduClaims, pduLost,         \* what the next poll of the PDU will find
    packets, answers, polls,    \* bounded inputs so far
    pduFails                    \* failures of the PDU link so far

statics == <<pc_admin_wait_timeout_cnt, pc_admin_unlink_cnt, PC_admin_old_link_cnt>>
inputs == <<pduClaims, pduLost, packets, answers, polls, pduFails>>
vars == <<adm, todo, statics, inputs>>

Fields == {"dev_admin_sta", "admin_sta", "ip", "ask_ip", "link_cnt"}

(* A write of the value of pc_admin_ask_ip_addr at the time of the write. *)
CopyAsk == -1

(* One write per field, in the order of the code. *)
Write(f, v) == [field |-> f, value |-> v]

Init ==
    /\ adm = [f \in Fields |-> 0]
    /\ todo = [t \in Tasks |-> << >>]
    /\ pc_admin_wait_timeout_cnt = 0
    /\ pc_admin_unlink_cnt = 0
    /\ PC_admin_old_link_cnt = 0
    /\ pduClaims = FALSE
    /\ pduLost = FALSE
    /\ packets = 0
    /\ answers = 0
    /\ polls = 0
    /\ pduFails = 0
-----------------------------------------------------------------------------
AtRest == \A t \in Tasks : todo[t] = << >>

(* t may start a handler: it is not in one. *)
MayStart(t) == todo[t] = << >>

(* The next write of the handler of t. *)
Step(t) ==
    /\ todo[t] # << >>
    /\ LET w == Head(todo[t]) IN
         adm' = [adm EXCEPT ![w.field] = IF w.value = CopyAsk THEN adm["ask_ip"] ELSE w.value]
    /\ todo' = [todo EXCEPT ![t] = Tail(@)]
    /\ UNCHANGED <<statics, inputs>>
-----------------------------------------------------------------------------
(* udpecho_thread counts every packet of the PC in control. *)
LinkCount(p) ==
    IF adm["admin_sta"] = PC /\ adm["ip"] = p THEN adm["link_cnt"] + 1 ELSE adm["link_cnt"]

(* APP_PCCOMM_PCAdminSet with admin_switch > 0: only a unit under its own  *)
(* control takes a request, and only when none is pending.                 *)
AskWrites(p) ==
    IF adm["dev_admin_sta"] = ACU /\ adm["ask_ip"] = 0
    THEN <<Write("ask_ip", p), Write("dev_admin_sta", ASKING), Write("admin_sta", ASKING)>>
    ELSE << >>

(* APP_PCCOMM_PCAdminSet with admin_switch = 0: the PC in control gives it *)
(* up, or the PC that asked withdraws.                                     *)
CancelWrites(p) ==
    CASE adm["dev_admin_sta"] = PC /\ adm["ip"] = p ->
            <<Write("dev_admin_sta", ACU), Write("admin_sta", ACU), Write("ip", 0)>>
      [] adm["dev_admin_sta"] = ASKING /\ adm["ask_ip"] = p ->
            <<Write("dev_admin_sta", ACU), Write("admin_sta", ACU), Write("ip", 0),
              Write("ask_ip", 0)>>
      [] OTHER -> << >>

(* A packet of PC p that asks for control. *)
PcAsk(p) ==
    /\ MayStart("udp")
    /\ packets < MaxPackets
    /\ packets' = packets + 1
    /\ adm' = [adm EXCEPT !["link_cnt"] = LinkCount(p)]
    /\ todo' = [todo EXCEPT !["udp"] = AskWrites(p)]
    /\ UNCHANGED <<statics, pduClaims, pduLost, answers, polls, pduFails>>

(* A packet of PC p that gives control or its request up. *)
PcCancel(p) ==
    /\ MayStart("udp")
    /\ CancelWrites(p) # << >>
    /\ adm' = [adm EXCEPT !["link_cnt"] = LinkCount(p)]
    /\ todo' = [todo EXCEPT !["udp"] = CancelWrites(p)]
    /\ UNCHANGED <<statics, inputs>>

(* Any other packet of the PC in control. *)
PcPacket(p) ==
    /\ MayStart("udp")
    /\ adm["admin_sta"] = PC /\ adm["ip"] = p
    /\ packets < MaxPackets
    /\ packets' = packets + 1
    /\ adm' = [adm EXCEPT !["link_cnt"] = LinkCount(p)]
    /\ UNCHANGED <<todo, statics, pduClaims, pduLost, answers, polls, pduFails>>
-----------------------------------------------------------------------------
(* Faulty variant of GrantWrites: the two copies in the order of the other *)
(* handlers.                                                               *)
GrantWrites_DevFirst ==
    <<Write("dev_admin_sta", PC), Write("admin_sta", PC), Write("ip", CopyAsk), Write("ask_ip", 0)>>

(* A grant writes admin_sta first, all the others but the refusal write    *)
(* dev_admin_sta first.                                                    *)
GrantWrites ==
    <<Write("admin_sta", PC), Write("dev_admin_sta", PC), Write("ip", CopyAsk), Write("ask_ip", 0)>>

(* Faulty variant of RefuseWrites: the request stays recorded. *)
RefuseWrites_KeepsAsk ==
    <<Write("admin_sta", ACU), Write("dev_admin_sta", ACU), Write("ip", 0)>>

RefuseWrites ==
    <<Write("admin_sta", ACU), Write("dev_admin_sta", ACU), Write("ip", 0), Write("ask_ip", 0)>>

(* APP_OLEDCOMM_PCAdminSet: admin_switch > 0 grants, 0 refuses a request   *)
(* or takes control back.  It looks at nothing, so the operator's answer   *)
(* may come when the request is gone or the PDU is in control.             *)
OledAnswer ==
    /\ MayStart("oled")
    /\ answers < MaxAnswers
    /\ answers' = answers + 1
    /\ \/ todo' = [todo EXCEPT !["oled"] = GrantWrites]
       \/ todo' = [todo EXCEPT !["oled"] = RefuseWrites]
    /\ UNCHANGED <<adm, statics, pduClaims, pduLost, packets, polls, pduFails>>
-----------------------------------------------------------------------------
(* The PDU takes control or gives it up (its switch), or its link fails or *)
(* comes back.                                                             *)
PduChange ==
    /\ polls < MaxPolls
    /\ polls' = polls + 1
    /\ \/ pduClaims' = ~pduClaims /\ UNCHANGED <<pduLost, pduFails>>
       \/ /\ pduLost' = ~pduLost
          /\ pduFails' = IF pduLost THEN pduFails ELSE pduFails + 1
          /\ pduClaims' = pduClaims
    /\ UNCHANGED <<adm, todo, statics, packets, answers>>

(* The PDU takes control, or gives it back to the ACU. *)
PollWrites(sta) ==
    <<Write("dev_admin_sta", sta), Write("admin_sta", sta), Write("ip", 0),
      Write("link_cnt", 0), Write("ask_ip", 0)>>

(* APP_PDUCOMM_PDUDevStaQue on an answer: byte 5 tells whether the PDU     *)
(* claims control.                                                         *)
PduPoll ==
    /\ MayStart("poll")
    /\ ~pduLost
    /\ pduClaims # (adm["dev_admin_sta"] = PDU)
    /\ todo' = [todo EXCEPT !["poll"] = PollWrites(IF pduClaims THEN PDU ELSE ACU)]
    /\ UNCHANGED <<adm, statics, inputs>>

(* APP_MONITOR_DevHWSta while PDUommStat.link_stat is COMM_UNLINK. *)
MonitorPduLost ==
    /\ MayStart("monitor")
    /\ pduLost
    /\ adm["dev_admin_sta"] = PDU \/ adm["admin_sta"] = PDU
    /\ todo' = [todo EXCEPT !["monitor"] =
                  <<Write("dev_admin_sta", ACU), Write("admin_sta", ACU)>>]
    /\ UNCHANGED <<adm, statics, inputs>>
-----------------------------------------------------------------------------
(* Both timeouts of APP_MONITOR_PC_Admin_Timeout_Deal end the same way. *)
TimeoutWrites ==
    <<Write("dev_admin_sta", ACU), Write("admin_sta", ACU), Write("link_cnt", 0),
      Write("ip", 0), Write("ask_ip", 0)>>

(* Faulty variant of LinkTick: a PC is never found silent. *)
LinkTick_Never ==
    /\ PC_admin_old_link_cnt' = adm["link_cnt"]
    /\ pc_admin_unlink_cnt' = 0
    /\ UNCHANGED <<todo, pc_admin_wait_timeout_cnt>>

(* Its branch while a PC is in control. *)
LinkTick ==
    /\ PC_admin_old_link_cnt' = adm["link_cnt"]
    /\ pc_admin_unlink_cnt' =
          IF PC_admin_old_link_cnt # adm["link_cnt"] \/ pc_admin_unlink_cnt + 1 > LinkTicks
          THEN 0 ELSE pc_admin_unlink_cnt + 1
    /\ todo' = IF PC_admin_old_link_cnt = adm["link_cnt"] /\ pc_admin_unlink_cnt + 1 > LinkTicks
               THEN [todo EXCEPT !["monitor"] = TimeoutWrites] ELSE todo
    /\ UNCHANGED pc_admin_wait_timeout_cnt

(* Faulty variant of WaitTick: the count is lost at every period. *)
WaitTick_Restarts ==
    /\ pc_admin_unlink_cnt' = 0
    /\ PC_admin_old_link_cnt' = 0
    /\ pc_admin_wait_timeout_cnt' = IF adm["dev_admin_sta"] = ASKING THEN 1 ELSE 0
    /\ todo' = IF adm["dev_admin_sta"] = ASKING /\ 1 > WaitTicks
               THEN [todo EXCEPT !["monitor"] = TimeoutWrites] ELSE todo

(* Faulty variant of WaitTick: the timeout leaves its count standing. *)
WaitTick_KeepsCount ==
    /\ pc_admin_unlink_cnt' = 0
    /\ PC_admin_old_link_cnt' = 0
    /\ pc_admin_wait_timeout_cnt' =
          IF adm["dev_admin_sta"] = ASKING THEN pc_admin_wait_timeout_cnt + 1 ELSE 0
    /\ todo' = IF adm["dev_admin_sta"] = ASKING /\ pc_admin_wait_timeout_cnt + 1 > WaitTicks
               THEN [todo EXCEPT !["monitor"] = TimeoutWrites] ELSE todo

(* Its branch while none is. *)
WaitTick ==
    /\ pc_admin_unlink_cnt' = 0
    /\ PC_admin_old_link_cnt' = 0
    /\ pc_admin_wait_timeout_cnt' =
          IF adm["dev_admin_sta"] = ASKING /\ pc_admin_wait_timeout_cnt + 1 <= WaitTicks
          THEN pc_admin_wait_timeout_cnt + 1 ELSE 0
    /\ todo' = IF adm["dev_admin_sta"] = ASKING /\ pc_admin_wait_timeout_cnt + 1 > WaitTicks
               THEN [todo EXCEPT !["monitor"] = TimeoutWrites] ELSE todo

(* APP_MONITOR_PC_Admin_Timeout_Deal, once per monitor period. *)
MonitorTick ==
    /\ MayStart("monitor")
    /\ IF adm["dev_admin_sta"] = PC THEN LinkTick ELSE WaitTick
    /\ UNCHANGED <<adm, inputs>>
-----------------------------------------------------------------------------
Next ==
    \/ \E p \in PCs : PcAsk(p) \/ PcCancel(p) \/ PcPacket(p)
    \/ OledAnswer
    \/ PduChange \/ PduPoll \/ MonitorPduLost \/ MonitorTick
    \/ \E t \in Tasks : Step(t)

(* The scheduler runs every handler to its end and the monitor, a periodic *)
(* task, keeps ticking.  Nothing is assumed of the PCs, the operator or    *)
(* the PDU.                                                                *)
Fairness ==
    /\ \A t \in Tasks : WF_vars(Step(t))
    /\ WF_vars(MonitorTick)

Spec == Init /\ [][Next]_vars /\ Fairness
-----------------------------------------------------------------------------
Address == PCs \cup {0}

(* Type correctness of the whole state. *)
TypeOK ==
    /\ DOMAIN adm = Fields
    /\ adm["dev_admin_sta"] \in {ACU, PC, PDU, ASKING}
    /\ adm["admin_sta"] \in {ACU, PC, PDU, ASKING}
    /\ adm["ip"] \in Address
    /\ adm["ask_ip"] \in Address
    /\ adm["link_cnt"] \in Nat
    /\ \A t \in Tasks : \A i \in DOMAIN todo[t] : todo[t][i].field \in Fields
    /\ pc_admin_wait_timeout_cnt \in 0..WaitTicks
    /\ pc_admin_unlink_cnt \in 0..LinkTicks

(* Between handlers a PC that passes the test of APP_PCCOMM_CmdDeal, which *)
(* looks at admin_sta, is in control by dev_admin_sta too, at which the    *)
(* link timeout of the monitor, the PDU poll and the PC's own cancellation *)
(* look: in whatever order the unlocked writes of the four tasks fall, no  *)
(* PC commands the antenna unwatched, and none while the PDU is in control. *)
PcIsWatched == AtRest /\ adm["admin_sta"] = PC => adm["dev_admin_sta"] = PC

(* Between handlers a unit under its own control has no request recorded,  *)
(* so APP_PCCOMM_PCAdminSet takes the next one; only the loss of the PDU   *)
(* link, whose handler forgets the address, can leave one.                 *)
CanAskAgain == AtRest /\ adm["dev_admin_sta"] = ACU /\ pduFails = 0 => adm["ask_ip"] = 0

(* Every request is answered, withdrawn or timed out. *)
RequestEnds == adm["dev_admin_sta"] = ASKING ~> adm["dev_admin_sta"] # ASKING

(* Control never stays for ever with a PC that has fallen silent: packets  *)
(* are bounded, so every PC does in the end.                               *)
SilentPcLosesControl == []<>(adm["dev_admin_sta"] # PC)
=============================================================================
