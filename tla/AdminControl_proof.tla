------------------------- MODULE AdminControl_proof -------------------------
(***************************************************************************)
(* Proofs about the control of the antenna, for every set of PCs, every    *)
(* timeout and every bound, with no assumption on the order in which the   *)
(* unlocked writes of the four tasks fall.                                 *)
(*                                                                         *)
(* A handler makes its writes one by one, so nothing about two fields      *)
(* holds at every step.  What holds between handlers rests on the order of *)
(* the writes within each handler: the invariant says which later write of *)
(* an unfinished handler will mend what an earlier one has broken.         *)
(***************************************************************************)
EXTENDS AdminControl, TLAPS

(* The values each field can hold. *)
Owners == {ACU, PC, PDU, ASKING}
Values(f) ==
    CASE f \in {"dev_admin_sta", "admin_sta"} -> Owners
      [] f \in {"ip", "ask_ip"} -> Address
      [] f = "link_cnt" -> Nat

(* The writes that a handler can make, by what they do. *)
Writes == {w \in [field : Fields, value : Int] :
              w.value \in Values(w.field) \/ (w.field = "ip" /\ w.value = CopyAsk)}
AdminPC    == {w \in Writes : w.field = "admin_sta" /\ w.value = PC}
AdminOther == {w \in Writes : w.field = "admin_sta" /\ w.value # PC}
DevPC      == {w \in Writes : w.field = "dev_admin_sta" /\ w.value = PC}
DevOther   == {w \in Writes : w.field = "dev_admin_sta" /\ w.value # PC}
DevAsking  == {w \in Writes : w.field = "dev_admin_sta" /\ w.value = ASKING}
DevEnds    == {w \in Writes : w.field = "dev_admin_sta" /\ w.value # ASKING}
AskSet     == {w \in Writes : w.field = "ask_ip" /\ w.value # 0}
AskClear   == {w \in Writes : w.field = "ask_ip" /\ w.value = 0}

Has(s, A) == \E i \in DOMAIN s : s[i] \in A
Lacks(s, A) == ~Has(s, A)

(* Every write of A in s is followed by one of B. *)
Followed(s, A, B) ==
    \A i \in DOMAIN s : s[i] \in A => \E j \in DOMAIN s : i < j /\ s[j] \in B

(* What is common to the handlers of task t, and to what is left of them. *)
Shape(t, s) ==
    /\ Followed(s, AdminPC, DevPC)
    /\ Followed(s, AskSet, DevAsking)
    /\ t # "oled" => Lacks(s, AdminPC) /\ Followed(s, DevOther, AdminOther)
    /\ t # "udp" => Lacks(s, AskSet)
    /\ t \in {"oled", "poll"} => Followed(s, DevEnds, AskClear)
    /\ Lacks(s, AdminPC) \/ Lacks(s, DevOther)
    /\ Lacks(s, AskSet) \/ Lacks(s, DevEnds)

FieldsOK ==
    /\ adm \in [Fields -> Int]
    /\ \A f \in Fields : adm[f] \in Values(f)
    /\ todo \in [Tasks -> Seq(Writes)]

CountsOK ==
    /\ pc_admin_wait_timeout_cnt \in 0..WaitTicks
    /\ pc_admin_unlink_cnt \in 0..LinkTicks

(* A PC in control by admin_sta only is about to be so by dev_admin_sta    *)
(* too, or not to be so any more.                                          *)
PcInv ==
    adm["admin_sta"] = PC =>
        \/ adm["dev_admin_sta"] = PC
        \/ \E t \in Tasks : Has(todo[t], DevPC) \/ Has(todo[t], AdminOther)

(* A refusal, which writes admin_sta first, has done so. *)
RefuseInv ==
    Has(todo["oled"], DevOther) => adm["admin_sta"] # PC \/ Has(todo["oled"], AdminOther)

(* Some handler is about to clear the address of the request. *)
Clearing == \E t \in Tasks : Has(todo[t], AskClear)

(* A recorded request is pending, or about to be, or about to be cleared.  *)
AskInv ==
    adm["ask_ip"] # 0 =>
        adm["dev_admin_sta"] = ASKING \/ Has(todo["udp"], DevAsking) \/ Clearing

(* While the PDU link has never failed, the handlers of the monitor that   *)
(* take control also clear the address; and a PC that gives control up,    *)
(* which does not, finds none or one about to be cleared.                  *)
ForgetInv ==
    /\ Followed(todo["monitor"], DevEnds, AskClear)
    /\ adm["ask_ip"] = 0 \/ Clearing \/ Followed(todo["udp"], DevEnds, AskClear)

(* The inductive invariant. *)
AdminInv ==
    /\ FieldsOK
    /\ CountsOK
    /\ pduFails \in Nat
    /\ pduLost => pduFails > 0
    /\ \A t \in Tasks : Shape(t, todo[t])
    /\ PcInv
    /\ RefuseInv
    /\ pduFails = 0 => AskInv /\ ForgetInv
-----------------------------------------------------------------------------
(* What is left of a handler after its next write.                         *)
LEMMA TailParts ==
    ASSUME NEW s \in Seq(Writes), s # << >>, NEW A, NEW B
    PROVE  /\ Tail(s) \in Seq(Writes) /\ Head(s) \in Writes
           /\ Has(s, A) <=> Head(s) \in A \/ Has(Tail(s), A)
           /\ Followed(s, A, B) => /\ Followed(Tail(s), A, B)
                                   /\ Head(s) \in A => Has(Tail(s), B)
<1> DEFINE r == Tail(s)
           n == Len(s)
<1>1. /\ r \in Seq(Writes) /\ Head(s) \in Writes /\ Head(s) = s[1]
      /\ n \in Nat \ {0} /\ DOMAIN s = 1..n /\ DOMAIN r = 1..(n - 1)
      /\ \A i \in 1..(n - 1) : r[i] = s[i + 1]
  OBVIOUS
<1>2. \A i \in 1..n : i = 1 \/ (i - 1 \in 1..(n - 1) /\ r[i - 1] = s[i])
  BY <1>1
<1> HIDE DEF r, n
<1>3. Has(s, A) <=> s[1] \in A \/ Has(r, A)
  <2>1. Has(s, A) => s[1] \in A \/ Has(r, A)
    BY <1>1, <1>2 DEF Has
  <2>2. s[1] \in A \/ Has(r, A) => Has(s, A)
    <3>1. \A i \in 1..(n - 1) : i + 1 \in 1..n
      BY <1>1
    <3>2. 1 \in 1..n
      BY <1>1
    <3> QED BY <1>1, <3>1, <3>2 DEF Has
  <2> QED BY <2>1, <2>2
<1>4. Followed(s, A, B) => Followed(r, A, B) /\ (s[1] \in A => Has(r, B))
  <2> SUFFICES ASSUME Followed(s, A, B)
               PROVE  Followed(r, A, B) /\ (s[1] \in A => Has(r, B))
    OBVIOUS
  <2>1. ASSUME NEW i \in 1..n, s[i] \in A
        PROVE  \E j \in 1..(n - 1) : i < j + 1 /\ r[j] \in B
    <3>1. PICK j \in 1..n : i < j /\ s[j] \in B
      BY <1>1, <2>1 DEF Followed
    <3>2. j # 1
      BY <3>1, <1>1
    <3> QED BY <3>1, <3>2, <1>1, <1>2
  <2>2. Followed(r, A, B)
    <3> SUFFICES ASSUME NEW i \in 1..(n - 1), r[i] \in A
                 PROVE  \E j \in 1..(n - 1) : i < j /\ r[j] \in B
      BY <1>1 DEF Followed
    <3>1. i + 1 \in 1..n /\ s[i + 1] \in A
      BY <1>1
    <3>2. PICK j \in 1..(n - 1) : i + 1 < j + 1 /\ r[j] \in B
      BY <3>1, <2>1
    <3> QED BY <3>2, <1>1
  <2>3. s[1] \in A => Has(r, B)
    <3>1. 1 \in 1..n
      BY <1>1
    <3> QED BY <1>1, <2>1, <3>1 DEF Has
  <2> QED BY <2>2, <2>3
<1> QED BY <1>1, <1>3, <1>4 DEF r

(* The rest of a handler has the shape of the handler.                     *)
LEMMA TailShape ==
    ASSUME NEW t \in Tasks, NEW s \in Seq(Writes), s # << >>, Shape(t, s)
    PROVE  Shape(t, Tail(s))
<1>1. \A A : Lacks(s, A) => Lacks(Tail(s), A)
  BY TailParts DEF Lacks
<1>2. \A A, B : Followed(s, A, B) => Followed(Tail(s), A, B)
  BY TailParts
<1> QED BY <1>1, <1>2 DEF Shape
-----------------------------------------------------------------------------
(* The handlers, each with what the invariant needs of its writes.         *)
LEMMA EmptyShape ==
    ASSUME NEW t \in Tasks
    PROVE  << >> \in Seq(Writes) /\ Shape(t, << >>) /\ \A A : Lacks(<< >>, A)
BY DEF Shape, Followed, Lacks, Has

(* APP_PCCOMM_PCAdminSet takes a request. *)
LEMMA AskShape ==
    ASSUME NEW p \in PCs, NEW s,
           s = <<Write("ask_ip", p), Write("dev_admin_sta", ASKING), Write("admin_sta", ASKING)>>
    PROVE  s \in Seq(Writes) /\ Shape("udp", s) /\ Lacks(s, DevEnds)
<1>1. /\ Len(s) = 3 /\ DOMAIN s = 1..3
      /\ s[1] = [field |-> "ask_ip", value |-> p]
      /\ s[2] = [field |-> "dev_admin_sta", value |-> ASKING]
      /\ s[3] = [field |-> "admin_sta", value |-> ASKING]
  BY DEF Write
<1>2. /\ \A i \in 1..3 : s[i] \in Writes
      /\ \A i \in 1..3 : s[i] \notin AdminPC \cup DevPC \cup DevEnds \cup AskClear
      /\ s[1] \in AskSet \ (AdminOther \cup DevOther)
      /\ s[2] \in DevAsking \ AskSet
      /\ s[3] \in AdminOther \ (AskSet \cup DevOther)
  BY <1>1, PCsAssumption DEF Writes, Values, Fields, Owners, Address, ACU, PC, PDU, ASKING,
        AdminPC, AdminOther, DevPC, DevOther, DevAsking, DevEnds, AskSet, AskClear
<1>3. s \in Seq(Writes)
  BY <1>1, <1>2
<1> QED BY <1>1, <1>2, <1>3 DEF Shape, Followed, Lacks, Has

(* The PC in control gives it up: the address of a request is left alone. *)
LEMMA GiveUpShape ==
    ASSUME NEW s,
           s = <<Write("dev_admin_sta", ACU),
                 Write("admin_sta", ACU),
                 Write("ip", 0)>>
    PROVE  s \in Seq(Writes) /\ Shape("udp", s) /\ Lacks(s, AskSet)
<1>1. /\ Len(s) = 3 /\ DOMAIN s = 1..3
      /\ s[1] = [field |-> "dev_admin_sta", value |-> ACU]
      /\ s[2] = [field |-> "admin_sta", value |-> ACU]
      /\ s[3] = [field |-> "ip", value |-> 0]
  BY DEF Write
<1>2. /\ \A i \in 1..3 : s[i] \in Writes
      /\ \A i \in 1..3 : s[i] \notin AdminPC \cup AskSet
      /\ s[2] \in AdminOther
      /\ s[1] \in DevOther
      /\ s[2] \notin DevOther /\ s[3] \notin DevOther
  BY <1>1 DEF Writes, Values, Fields, Owners, Address, CopyAsk, ACU, PC, PDU, ASKING,
        AdminPC, AdminOther, DevPC, DevOther, DevAsking, DevEnds, AskSet, AskClear
<1>3. s \in Seq(Writes)
  BY <1>1, <1>2
<1> QED BY <1>1, <1>2, <1>3 DEF Shape, Followed, Lacks, Has

(* The PC that asked withdraws. *)
LEMMA WithdrawShape ==
    ASSUME NEW s,
           s = <<Write("dev_admin_sta", ACU),
                 Write("admin_sta", ACU),
                 Write("ip", 0),
                 Write("ask_ip", 0)>>
    PROVE  s \in Seq(Writes) /\ Shape("udp", s) /\ Followed(s, DevEnds, AskClear)
<1>1. /\ Len(s) = 4 /\ DOMAIN s = 1..4
      /\ s[1] = [field |-> "dev_admin_sta", value |-> ACU]
      /\ s[2] = [field |-> "admin_sta", value |-> ACU]
      /\ s[3] = [field |-> "ip", value |-> 0]
      /\ s[4] = [field |-> "ask_ip", value |-> 0]
  BY DEF Write
<1>2. /\ \A i \in 1..4 : s[i] \in Writes
      /\ \A i \in 1..4 : s[i] \notin AdminPC \cup AskSet
      /\ s[2] \in AdminOther
      /\ s[4] \in AskClear
      /\ \A i \in 2..4 : s[i] \notin DevOther \cup DevEnds
  BY <1>1 DEF Writes, Values, Fields, Owners, Address, CopyAsk, ACU, PC, PDU, ASKING,
        AdminPC, AdminOther, DevPC, DevOther, DevAsking, DevEnds, AskSet, AskClear
<1>3. s \in Seq(Writes)
  BY <1>1, <1>2
<1> QED BY <1>1, <1>2, <1>3 DEF Shape, Followed, Lacks, Has

(* APP_OLEDCOMM_PCAdminSet grants. *)
LEMMA GrantShape ==
    ASSUME NEW s,
           s = <<Write("admin_sta", PC),
                 Write("dev_admin_sta", PC),
                 Write("ip", CopyAsk),
                 Write("ask_ip", 0)>>
    PROVE  s \in Seq(Writes) /\ Shape("oled", s) /\ Lacks(s, DevOther)
<1>1. /\ Len(s) = 4 /\ DOMAIN s = 1..4
      /\ s[1] = [field |-> "admin_sta", value |-> PC]
      /\ s[2] = [field |-> "dev_admin_sta", value |-> PC]
      /\ s[3] = [field |-> "ip", value |-> CopyAsk]
      /\ s[4] = [field |-> "ask_ip", value |-> 0]
  BY DEF Write
<1>2. /\ \A i \in 1..4 : s[i] \in Writes
      /\ \A i \in 1..4 : s[i] \notin DevOther \cup AskSet
      /\ s[2] \in DevPC
      /\ s[4] \in AskClear
      /\ \A i \in 2..4 : s[i] \notin AdminPC
      /\ s[1] \notin DevEnds /\ s[3] \notin DevEnds /\ s[4] \notin DevEnds
  BY <1>1 DEF Writes, Values, Fields, Owners, Address, CopyAsk, ACU, PC, PDU, ASKING,
        AdminPC, AdminOther, DevPC, DevOther, DevAsking, DevEnds, AskSet, AskClear
<1>3. s \in Seq(Writes)
  BY <1>1, <1>2
<1> QED BY <1>1, <1>2, <1>3 DEF Shape, Followed, Lacks, Has

(* APP_OLEDCOMM_PCAdminSet refuses or takes back. *)
LEMMA RefuseShape ==
    ASSUME NEW s,
           s = <<Write("admin_sta", ACU),
                 Write("dev_admin_sta", ACU),
                 Write("ip", 0),
                 Write("ask_ip", 0)>>
    PROVE  s \in Seq(Writes) /\ Shape("oled", s) /\ Has(s, AdminOther)
<1>1. /\ Len(s) = 4 /\ DOMAIN s = 1..4
      /\ s[1] = [field |-> "admin_sta", value |-> ACU]
      /\ s[2] = [field |-> "dev_admin_sta", value |-> ACU]
      /\ s[3] = [field |-> "ip", value |-> 0]
      /\ s[4] = [field |-> "ask_ip", value |-> 0]
  BY DEF Write
<1>2. /\ \A i \in 1..4 : s[i] \in Writes
      /\ \A i \in 1..4 : s[i] \notin AdminPC \cup AskSet
      /\ s[1] \in AdminOther
      /\ s[4] \in AskClear
      /\ s[1] \notin DevEnds /\ s[3] \notin DevEnds /\ s[4] \notin DevEnds
  BY <1>1 DEF Writes, Values, Fields, Owners, Address, CopyAsk, ACU, PC, PDU, ASKING,
        AdminPC, AdminOther, DevPC, DevOther, DevAsking, DevEnds, AskSet, AskClear
<1>3. s \in Seq(Writes)
  BY <1>1, <1>2
<1> QED BY <1>1, <1>2, <1>3 DEF Shape, Followed, Lacks, Has

(* The PDU claims control or gives it back. *)
LEMMA PollShape ==
    ASSUME NEW sta \in {PDU, ACU}, NEW s,
           s = <<Write("dev_admin_sta", sta),
                 Write("admin_sta", sta),
                 Write("ip", 0),
                 Write("link_cnt", 0),
                 Write("ask_ip", 0)>>
    PROVE  s \in Seq(Writes) /\ Shape("poll", s)
<1>1. /\ Len(s) = 5 /\ DOMAIN s = 1..5
      /\ s[1] = [field |-> "dev_admin_sta", value |-> sta]
      /\ s[2] = [field |-> "admin_sta", value |-> sta]
      /\ s[3] = [field |-> "ip", value |-> 0]
      /\ s[4] = [field |-> "link_cnt", value |-> 0]
      /\ s[5] = [field |-> "ask_ip", value |-> 0]
  BY DEF Write
<1>2. /\ \A i \in 1..5 : s[i] \in Writes
      /\ \A i \in 1..5 : s[i] \notin AdminPC \cup AskSet
      /\ s[2] \in AdminOther
      /\ s[5] \in AskClear
      /\ \A i \in 2..5 : s[i] \notin DevOther \cup DevEnds
  BY <1>1 DEF Writes, Values, Fields, Owners, Address, CopyAsk, ACU, PC, PDU, ASKING,
        AdminPC, AdminOther, DevPC, DevOther, DevAsking, DevEnds, AskSet, AskClear
<1>3. s \in Seq(Writes)
  BY <1>1, <1>2
<1> QED BY <1>1, <1>2, <1>3 DEF Shape, Followed, Lacks, Has

(* APP_MONITOR_DevHWSta finds the PDU link lost. *)
LEMMA LostShape ==
    ASSUME NEW s,
           s = <<Write("dev_admin_sta", ACU),
                 Write("admin_sta", ACU)>>
    PROVE  s \in Seq(Writes) /\ Shape("monitor", s)
<1>1. /\ Len(s) = 2 /\ DOMAIN s = 1..2
      /\ s[1] = [field |-> "dev_admin_sta", value |-> ACU]
      /\ s[2] = [field |-> "admin_sta", value |-> ACU]
  BY DEF Write
<1>2. /\ \A i \in 1..2 : s[i] \in Writes
      /\ \A i \in 1..2 : s[i] \notin AdminPC \cup AskSet
      /\ s[2] \in AdminOther
      /\ s[2] \notin DevOther
  BY <1>1 DEF Writes, Values, Fields, Owners, Address, CopyAsk, ACU, PC, PDU, ASKING,
        AdminPC, AdminOther, DevPC, DevOther, DevAsking, DevEnds, AskSet, AskClear
<1>3. s \in Seq(Writes)
  BY <1>1, <1>2
<1> QED BY <1>1, <1>2, <1>3 DEF Shape, Followed, Lacks, Has

(* APP_MONITOR_PC_Admin_Timeout_Deal ends a request or a PC's control. *)
LEMMA TimeoutShape ==
    ASSUME NEW s,
           s = <<Write("dev_admin_sta", ACU),
                 Write("admin_sta", ACU),
                 Write("link_cnt", 0),
                 Write("ip", 0),
                 Write("ask_ip", 0)>>
    PROVE  s \in Seq(Writes) /\ Shape("monitor", s) /\ Followed(s, DevEnds, AskClear)
<1>1. /\ Len(s) = 5 /\ DOMAIN s = 1..5
      /\ s[1] = [field |-> "dev_admin_sta", value |-> ACU]
      /\ s[2] = [field |-> "admin_sta", value |-> ACU]
      /\ s[3] = [field |-> "link_cnt", value |-> 0]
      /\ s[4] = [field |-> "ip", value |-> 0]
      /\ s[5] = [field |-> "ask_ip", value |-> 0]
  BY DEF Write
<1>2. /\ \A i \in 1..5 : s[i] \in Writes
      /\ \A i \in 1..5 : s[i] \notin AdminPC \cup AskSet
      /\ s[2] \in AdminOther
      /\ s[5] \in AskClear
      /\ \A i \in 2..5 : s[i] \notin DevOther \cup DevEnds
  BY <1>1 DEF Writes, Values, Fields, Owners, Address, CopyAsk, ACU, PC, PDU, ASKING,
        AdminPC, AdminOther, DevPC, DevOther, DevAsking, DevEnds, AskSet, AskClear
<1>3. s \in Seq(Writes)
  BY <1>1, <1>2
<1> QED BY <1>1, <1>2, <1>3 DEF Shape, Followed, Lacks, Has

-----------------------------------------------------------------------------
(* A handler that starts with the writes s, the task at rest before, keeps *)
(* the invariant; link_cnt may have been counted up.                       *)
LEMMA StartKeepsInv ==
    ASSUME AdminInv, NEW t \in Tasks, todo[t] = << >>, NEW s \in Seq(Writes), Shape(t, s),
           NEW n \in Nat, adm' = [adm EXCEPT !["link_cnt"] = n],
           todo' = [todo EXCEPT ![t] = s],
           CountsOK', UNCHANGED <<pduLost, pduFails>>,
           t = "oled" => Lacks(s, DevOther) \/ Has(s, AdminOther),
           t = "monitor" /\ pduFails = 0 => Followed(s, DevEnds, AskClear),
           t = "udp" /\ pduFails = 0 =>
              adm["ask_ip"] = 0 \/ Clearing \/ Followed(s, DevEnds, AskClear)
    PROVE  AdminInv'
<1>1. /\ adm \in [Fields -> Int] /\ \A f \in Fields : adm[f] \in Values(f)
      /\ todo \in [Tasks -> Seq(Writes)]
  BY DEF AdminInv, FieldsOK
<1>2. /\ todo' \in [Tasks -> Seq(Writes)] /\ todo'[t] = s
      /\ \A u \in Tasks \ {t} : todo'[u] = todo[u]
  BY <1>1
<1>3. /\ adm' \in [Fields -> Int] /\ adm'["link_cnt"] = n
      /\ \A f \in Fields \ {"link_cnt"} : adm'[f] = adm[f]
  BY <1>1 DEF Fields
<1>4. FieldsOK'
  <2>1. n \in Values("link_cnt")
    BY DEF Values
  <2> QED BY <1>1, <1>2, <1>3, <2>1 DEF FieldsOK
<1>5. \A u \in Tasks : Shape(u, todo'[u])
  BY <1>2 DEF AdminInv
<1>6. \A A : Lacks(todo[t], A)
  BY DEF Lacks, Has
<1>7. \A A : \A u \in Tasks : Has(todo[u], A) => Has(todo'[u], A)
  BY <1>2, <1>6 DEF Lacks
<1>8. /\ adm'["admin_sta"] = adm["admin_sta"]
      /\ adm'["dev_admin_sta"] = adm["dev_admin_sta"]
      /\ adm'["ask_ip"] = adm["ask_ip"]
  BY <1>3 DEF Fields
<1>9. PcInv'
  BY <1>7, <1>8 DEF AdminInv, PcInv
<1>10. RefuseInv'
  BY <1>2, <1>8 DEF AdminInv, RefuseInv, Lacks, Tasks
<1>11. Clearing => Clearing'
  BY <1>7 DEF Clearing
<1>12. ASSUME pduFails' = 0
       PROVE  AskInv' /\ ForgetInv'
  <2>1. AskInv /\ ForgetInv
    BY <1>12 DEF AdminInv
  <2>2. AskInv'
    BY <2>1, <1>7, <1>8, <1>11 DEF AskInv, Tasks
  <2>3. ForgetInv'
    BY <2>1, <1>2, <1>8, <1>11, <1>12 DEF ForgetInv, Tasks
  <2> QED BY <2>2, <2>3
<1> QED BY <1>4, <1>5, <1>9, <1>10, <1>12 DEF AdminInv

(* One write of a handler keeps the invariant. *)
LEMMA StepKeepsInv ==
    ASSUME AdminInv, NEW t \in Tasks, Step(t)
    PROVE  AdminInv'
<1> DEFINE w == Head(todo[t])
           s == Tail(todo[t])
           v == IF w.value = CopyAsk THEN adm["ask_ip"] ELSE w.value
<1>1. /\ todo[t] \in Seq(Writes) /\ todo[t] # << >> /\ w \in Writes /\ s \in Seq(Writes)
      /\ adm \in [Fields -> Int] /\ \A f \in Fields : adm[f] \in Values(f)
      /\ todo \in [Tasks -> Seq(Writes)]
  BY DEF AdminInv, FieldsOK, Step
<1>2. /\ todo' \in [Tasks -> Seq(Writes)] /\ todo'[t] = s
      /\ \A u \in Tasks \ {t} : todo'[u] = todo[u]
  <2>1. todo' = [todo EXCEPT ![t] = s]
    BY DEF Step
  <2> QED BY <1>1, <2>1
<1>3. /\ v \in Values(w.field) /\ w.field \in Fields
      /\ w.field # "ip" => v = w.value
  <2>1. /\ w.field \in Fields
        /\ w.value \in Values(w.field) \/ (w.field = "ip" /\ w.value = CopyAsk)
    BY <1>1 DEF Writes
  <2>2. CopyAsk \notin Values(w.field)
    BY <2>1, PCsAssumption DEF Values, Fields, CopyAsk, Owners, Address, ACU, PC, PDU, ASKING
  <2>3. adm["ask_ip"] \in Values("ip")
    BY <1>1 DEF Fields, Values
  <2> QED BY <2>1, <2>2, <2>3
<1>4. \A f \in Fields : adm'[f] = IF f = w.field THEN v ELSE adm[f]
  BY <1>1, <1>3 DEF Step
<1>5. FieldsOK'
  <2>1. Values(w.field) \subseteq Int
    BY <1>3, PCsAssumption DEF Values, Fields, Owners, Address, ACU, PC, PDU, ASKING
  <2>2. adm' \in [Fields -> Int]
    BY <1>1, <1>3, <2>1 DEF Step
  <2> QED BY <1>1, <1>2, <1>3, <1>4, <2>2 DEF FieldsOK
<1>6. \A u \in Tasks : Shape(u, todo[u]) /\ Shape(u, todo'[u])
  BY <1>1, <1>2, TailShape DEF AdminInv
<1>7. \A A : Has(todo[t], A) <=> w \in A \/ Has(todo'[t], A)
  BY <1>1, <1>2, TailParts
<1>8. \A A, B : Followed(todo[t], A, B) =>
         Followed(todo'[t], A, B) /\ (w \in A => Has(todo'[t], B))
  BY <1>1, <1>2, TailParts
<1>9. \A A : \A u \in Tasks : Has(todo[u], A) /\ w \notin A => Has(todo'[u], A)
  BY <1>2, <1>7
<1>10. \A A : \A u \in Tasks : Has(todo'[u], A) => Has(todo[u], A)
  BY <1>2, <1>7
<1>11. {"admin_sta", "dev_admin_sta", "ask_ip"} \subseteq Fields
  BY DEF Fields
<1> HIDE DEF w, s, v
<1>12. PcInv'
  <2> SUFFICES ASSUME adm'["admin_sta"] = PC
               PROVE  \/ adm'["dev_admin_sta"] = PC
                      \/ \E u \in Tasks : Has(todo'[u], DevPC) \/ Has(todo'[u], AdminOther)
    BY DEF PcInv
  <2>1. CASE w.field = "admin_sta"
    <3>1. w \in AdminPC
      BY <2>1, <1>1, <1>3, <1>4, <1>11 DEF AdminPC
    <3> QED BY <3>1, <1>6, <1>8 DEF Shape
  <2>2. CASE w.field # "admin_sta" /\ w \in DevOther
    <3>1. adm["admin_sta"] = PC
      BY <2>2, <1>4, <1>11
    <3>2. CASE t # "oled"
      BY <2>2, <3>2, <1>6, <1>8 DEF Shape
    <3>3. CASE t = "oled"
      <4>1. Has(todo["oled"], AdminOther)
        BY <2>2, <3>1, <3>3, <1>7 DEF AdminInv, RefuseInv
      <4>2. w \notin AdminOther
        BY <2>2 DEF AdminOther
      <4> QED BY <3>3, <4>1, <4>2, <1>9
    <3> QED BY <3>2, <3>3
  <2>3. CASE w.field # "admin_sta" /\ w \notin DevOther
    <3>1. adm["admin_sta"] = PC
      BY <2>3, <1>4, <1>11
    <3>2. w.field = "dev_admin_sta" => adm'["dev_admin_sta"] = PC
      BY <2>3, <1>1, <1>3, <1>4, <1>11 DEF DevOther
    <3>3. w.field # "dev_admin_sta" =>
             w \notin DevPC \cup AdminOther /\ adm'["dev_admin_sta"] = adm["dev_admin_sta"]
      BY <2>3, <1>4, <1>11 DEF DevPC, AdminOther
    <3> QED BY <3>1, <3>2, <3>3, <1>9 DEF AdminInv, PcInv
  <2> QED BY <2>1, <2>2, <2>3
<1>13. RefuseInv'
  <2> SUFFICES ASSUME Has(todo'["oled"], DevOther), ~Has(todo'["oled"], AdminOther)
               PROVE  adm'["admin_sta"] # PC
    BY DEF RefuseInv
  <2> "oled" \in Tasks
    BY DEF Tasks
  <2>1. adm["admin_sta"] # PC \/ Has(todo["oled"], AdminOther)
    BY <1>10 DEF AdminInv, RefuseInv
  <2>2. CASE w \in AdminOther
    BY <2>2, <1>3, <1>4, <1>11 DEF AdminOther
  <2>3. CASE w \notin AdminOther
    <3>1. adm["admin_sta"] # PC
      BY <2>1, <2>3, <1>9
    <3>2. w \notin AdminPC
      <4> SUFFICES ASSUME w \in AdminPC
                   PROVE  FALSE
        OBVIOUS
      <4>1. Has(todo[t], AdminPC)
        BY <1>7
      <4>2. t = "oled"
        BY <4>1, <1>6 DEF Shape, Lacks
      <4> QED BY <4>1, <4>2, <1>6, <1>10 DEF Shape, Lacks
    <3>3. w.field # "admin_sta"
      BY <2>3, <3>2, <1>1 DEF AdminPC, AdminOther
    <3> QED BY <3>1, <3>3, <1>4, <1>11
  <2> QED BY <2>2, <2>3
<1>14. ASSUME pduFails = 0
       PROVE  AskInv' /\ ForgetInv'
  <2>1. /\ AskInv /\ ForgetInv
        /\ "udp" \in Tasks /\ "monitor" \in Tasks
    BY <1>14 DEF AdminInv, Tasks
  <2>2. w \in AskClear => adm'["ask_ip"] = 0
    BY <1>3, <1>4, <1>11 DEF AskClear
  <2>3. w \notin AskClear => (Clearing => Clearing')
    BY <1>9 DEF Clearing
  <2>4. w \in AskSet => t = "udp" /\ Has(todo'["udp"], DevAsking) /\ Followed(todo'["udp"], DevEnds, AskClear)
    <3> SUFFICES ASSUME w \in AskSet
                 PROVE  t = "udp" /\ Has(todo'["udp"], DevAsking)
                        /\ Followed(todo'["udp"], DevEnds, AskClear)
      OBVIOUS
    <3>1. Has(todo[t], AskSet)
      BY <1>7
    <3>2. t = "udp"
      BY <3>1, <1>6 DEF Shape, Lacks
    <3>3. Has(todo'[t], DevAsking)
      BY <1>6, <1>8 DEF Shape
    <3>4. ~Has(todo[t], DevEnds)
      BY <3>1, <1>6 DEF Shape, Lacks
    <3>5. Followed(todo[t], DevEnds, AskClear)
      BY <3>4 DEF Followed, Has
    <3> QED BY <3>2, <3>3, <3>5, <1>8
  <2>5. w \notin AskSet \cup AskClear => adm'["ask_ip"] = adm["ask_ip"]
    BY <1>1, <1>4, <1>11 DEF AskSet, AskClear
  <2>6. ForgetInv'
    <3>1. Followed(todo'["monitor"], DevEnds, AskClear)
      BY <2>1, <1>2, <1>8 DEF ForgetInv
    <3>2. Followed(todo["udp"], DevEnds, AskClear) => Followed(todo'["udp"], DevEnds, AskClear)
      BY <2>1, <1>2, <1>8
    <3> QED BY <2>1, <2>2, <2>3, <2>4, <2>5, <3>1, <3>2 DEF ForgetInv
  <2>7. AskInv'
    <3>1. CASE w \in AskSet \cup AskClear
      BY <3>1, <2>2, <2>4 DEF AskInv
    <3>2. CASE w \in DevAsking
      <4>1. adm'["dev_admin_sta"] = ASKING
        BY <3>2, <1>3, <1>4, <1>11 DEF DevAsking
      <4> QED BY <4>1 DEF AskInv
    <3>3. CASE w \in DevEnds
      <4>1. w \notin AskSet \cup AskClear
        BY <3>3 DEF DevEnds, AskSet, AskClear
      <4>2. Followed(todo[t], DevEnds, AskClear) => Clearing'
        BY <3>3, <1>8 DEF Clearing
      <4>3. t # "udp" => Followed(todo[t], DevEnds, AskClear)
        BY <2>1, <1>6 DEF ForgetInv, Shape, Tasks
      <4> QED BY <2>1, <2>3, <2>5, <4>1, <4>2, <4>3 DEF AskInv, ForgetInv
    <3>4. CASE w \notin AskSet \cup AskClear \cup DevAsking \cup DevEnds
      <4>1. w.field # "dev_admin_sta"
        BY <3>4, <1>1 DEF DevAsking, DevEnds
      <4>2. adm'["dev_admin_sta"] = adm["dev_admin_sta"]
        BY <4>1, <1>4, <1>11
      <4> QED BY <3>4, <4>2, <2>1, <2>3, <2>5, <1>9 DEF AskInv
    <3> QED BY <3>1, <3>2, <3>3, <3>4
  <2> QED BY <2>6, <2>7
<1> QED BY <1>2, <1>5, <1>6, <1>12, <1>13, <1>14 DEF AdminInv, Step, statics, inputs, CountsOK

(* The packets of the PCs. *)
LEMMA PacketKeepsInv ==
    ASSUME AdminInv, NEW p \in PCs, PcAsk(p) \/ PcCancel(p) \/ PcPacket(p)
    PROVE  AdminInv'
<1> "udp" \in Tasks
  BY DEF Tasks
<1>1. /\ todo["udp"] = << >> /\ adm' = [adm EXCEPT !["link_cnt"] = LinkCount(p)]
      /\ CountsOK' /\ UNCHANGED <<pduLost, pduFails>>
  BY DEF PcAsk, PcCancel, PcPacket, MayStart, inputs, statics, AdminInv, CountsOK
<1>2. LinkCount(p) \in Nat
  BY DEF AdminInv, FieldsOK, Values, Fields, LinkCount
<1>3. /\ << >> \in Seq(Writes) /\ Shape("udp", << >>)
      /\ Followed(<< >>, DevEnds, AskClear)
  BY EmptyShape DEF Followed
<1>4. CASE PcAsk(p)
  <2>1. AskWrites(p) \in Seq(Writes) /\ Shape("udp", AskWrites(p))
        /\ Followed(AskWrites(p), DevEnds, AskClear)
    BY <1>3, AskShape DEF AskWrites, Followed, Lacks, Has
  <2>2. todo' = [todo EXCEPT !["udp"] = AskWrites(p)]
    BY <1>4 DEF PcAsk
  <2> QED BY <1>1, <1>2, <2>1, <2>2, StartKeepsInv
<1>5. CASE PcPacket(p)
  <2>1. todo' = [todo EXCEPT !["udp"] = << >>]
    BY <1>1, <1>5 DEF PcPacket, AdminInv, FieldsOK
  <2> QED BY <1>1, <1>2, <1>3, <2>1, StartKeepsInv
<1>6. CASE PcCancel(p)
  <2> DEFINE g == <<Write("dev_admin_sta", ACU), Write("admin_sta", ACU), Write("ip", 0)>>
             r == <<Write("dev_admin_sta", ACU), Write("admin_sta", ACU), Write("ip", 0),
                    Write("ask_ip", 0)>>
  <2>1. todo' = [todo EXCEPT !["udp"] = CancelWrites(p)]
    BY <1>6 DEF PcCancel
  <2>2. g \in Seq(Writes) /\ Shape("udp", g)
    BY GiveUpShape
  <2>3. r \in Seq(Writes) /\ Shape("udp", r) /\ Followed(r, DevEnds, AskClear)
    BY WithdrawShape
  <2>4. /\ adm["dev_admin_sta"] = PC /\ CancelWrites(p) = g
        \/ CancelWrites(p) = r
        \/ CancelWrites(p) = << >>
    BY DEF CancelWrites
  <2> HIDE DEF g, r
  <2>5. CASE adm["dev_admin_sta"] = PC /\ CancelWrites(p) = g
    <3>1. pduFails = 0 => adm["ask_ip"] = 0 \/ Clearing
      BY <2>5, <1>1 DEF AdminInv, AskInv, Has, PC, ASKING
    <3> QED BY <1>1, <1>2, <2>1, <2>2, <2>5, <3>1, StartKeepsInv
  <2>6. CASE CancelWrites(p) = r
    BY <1>1, <1>2, <2>1, <2>3, <2>6, StartKeepsInv
  <2>7. CASE CancelWrites(p) = << >>
    BY <1>1, <1>2, <1>3, <2>1, <2>7, StartKeepsInv
  <2> QED BY <2>4, <2>5, <2>6, <2>7
<1> QED BY <1>4, <1>5, <1>6

(* The operator, the poll of the PDU and the monitor.                      *)
LEMMA HandlerKeepsInv ==
    ASSUME AdminInv, OledAnswer \/ PduPoll \/ MonitorPduLost \/ MonitorTick
    PROVE  AdminInv'
<1> /\ "oled" \in Tasks /\ "poll" \in Tasks /\ "monitor" \in Tasks
  BY DEF Tasks
<1>1. /\ adm' = adm /\ UNCHANGED <<pduLost, pduFails>> /\ CountsOK'
  BY AdminAssumption DEF OledAnswer, PduPoll, MonitorPduLost, MonitorTick, LinkTick, WaitTick,
        inputs, statics, AdminInv, CountsOK
<1>2. PICK n \in Nat : adm' = [adm EXCEPT !["link_cnt"] = n]
  <2>1. adm["link_cnt"] \in Nat /\ adm = [adm EXCEPT !["link_cnt"] = adm["link_cnt"]]
    BY DEF AdminInv, FieldsOK, Values, Fields
  <2> QED BY <1>1, <2>1
<1>3. CASE OledAnswer
  <2>1. GrantWrites \in Seq(Writes) /\ Shape("oled", GrantWrites) /\ Lacks(GrantWrites, DevOther)
    BY GrantShape DEF GrantWrites
  <2>2. RefuseWrites \in Seq(Writes) /\ Shape("oled", RefuseWrites) /\ Has(RefuseWrites, AdminOther)
    BY RefuseShape DEF RefuseWrites
  <2>3. /\ todo["oled"] = << >>
        /\ \/ todo' = [todo EXCEPT !["oled"] = GrantWrites]
           \/ todo' = [todo EXCEPT !["oled"] = RefuseWrites]
    BY <1>3 DEF OledAnswer, MayStart
  <2> QED BY <1>1, <1>2, <2>1, <2>2, <2>3, StartKeepsInv
<1>4. CASE PduPoll
  <2>1. PICK sta \in {PDU, ACU} : todo' = [todo EXCEPT !["poll"] = PollWrites(sta)]
    BY <1>4 DEF PduPoll
  <2>2. PollWrites(sta) \in Seq(Writes) /\ Shape("poll", PollWrites(sta))
    BY PollShape DEF PollWrites
  <2>3. todo["poll"] = << >>
    BY <1>4 DEF PduPoll, MayStart
  <2> QED BY <1>1, <1>2, <2>1, <2>2, <2>3, StartKeepsInv
<1>5. CASE MonitorPduLost
  <2> DEFINE s == <<Write("dev_admin_sta", ACU), Write("admin_sta", ACU)>>
  <2>1. s \in Seq(Writes) /\ Shape("monitor", s)
    BY LostShape
  <2>2. todo["monitor"] = << >> /\ pduFails # 0 /\ todo' = [todo EXCEPT !["monitor"] = s]
    BY <1>5 DEF MonitorPduLost, MayStart, AdminInv
  <2> HIDE DEF s
  <2> QED BY <1>1, <1>2, <2>1, <2>2, StartKeepsInv
<1>6. CASE MonitorTick
  <2>1. /\ TimeoutWrites \in Seq(Writes) /\ Shape("monitor", TimeoutWrites)
        /\ Followed(TimeoutWrites, DevEnds, AskClear)
    BY TimeoutShape DEF TimeoutWrites
  <2>2. /\ << >> \in Seq(Writes) /\ Shape("monitor", << >>)
        /\ Followed(<< >>, DevEnds, AskClear)
    BY EmptyShape DEF Followed
  <2>3. todo["monitor"] = << >>
    BY <1>6 DEF MonitorTick, MayStart
  <2>4. \/ todo' = [todo EXCEPT !["monitor"] = TimeoutWrites]
        \/ todo' = [todo EXCEPT !["monitor"] = << >>]
    <3>1. todo = [todo EXCEPT !["monitor"] = << >>]
      BY <2>3 DEF AdminInv, FieldsOK
    <3> QED BY <1>6, <3>1 DEF MonitorTick, LinkTick, WaitTick
  <2> QED BY <1>1, <1>2, <2>1, <2>2, <2>3, <2>4, StartKeepsInv
<1> QED BY <1>3, <1>4, <1>5, <1>6
-----------------------------------------------------------------------------
(* AdminInv holds at the start and every step keeps it. *)
THEOREM AdminInductive == Spec => []AdminInv
<1>1. Init => AdminInv
  <2> SUFFICES ASSUME Init
               PROVE  AdminInv
    OBVIOUS
  <2>1. FieldsOK
    BY DEF Init, FieldsOK, Values, Owners, Address, Fields, ACU
  <2>2. CountsOK
    BY AdminAssumption DEF Init, CountsOK
  <2>3. \A t \in Tasks : todo[t] = << >> /\ Shape(t, todo[t])
    BY EmptyShape DEF Init
  <2>4. PcInv /\ AskInv
    BY DEF Init, PcInv, AskInv, Fields, PC
  <2>5. RefuseInv /\ ForgetInv
    BY <2>3 DEF RefuseInv, ForgetInv, Has, Followed, Tasks
  <2> QED BY <2>1, <2>2, <2>3, <2>4, <2>5 DEF AdminInv, Init
<1>2. AdminInv /\ [Next]_vars => AdminInv'
  <2> SUFFICES ASSUME AdminInv, [Next]_vars
               PROVE  AdminInv'
    OBVIOUS
  <2>1. CASE \E p \in PCs : PcAsk(p) \/ PcCancel(p) \/ PcPacket(p)
    BY <2>1, PacketKeepsInv
  <2>2. CASE OledAnswer \/ PduPoll \/ MonitorPduLost \/ MonitorTick
    BY <2>2, HandlerKeepsInv
  <2>3. CASE PduChange \/ UNCHANGED vars
    <3>1. UNCHANGED <<adm, todo, pc_admin_wait_timeout_cnt, pc_admin_unlink_cnt>>
      BY <2>3 DEF PduChange, vars, statics, inputs
    <3>2. /\ pduFails' \in Nat
          /\ pduLost' => pduFails' > 0
          /\ pduFails' = 0 => pduFails = 0
      BY <2>3 DEF PduChange, vars, inputs, AdminInv
    <3>3. FieldsOK' /\ CountsOK' /\ PcInv' /\ RefuseInv' /\ \A t \in Tasks : Shape(t, todo'[t])
      BY <3>1 DEF AdminInv, FieldsOK, CountsOK, PcInv, RefuseInv
    <3>4. AskInv /\ ForgetInv => AskInv' /\ ForgetInv'
      BY <3>1 DEF AskInv, ForgetInv, Clearing
    <3>5. pduFails' = 0 => AskInv' /\ ForgetInv'
      BY <3>2, <3>4 DEF AdminInv
    <3> QED BY <3>2, <3>3, <3>5 DEF AdminInv
  <2>4. CASE \E t \in Tasks : Step(t)
    BY <2>4, StepKeepsInv
  <2> QED BY <2>1, <2>2, <2>3, <2>4 DEF Next
<1> QED BY <1>1, <1>2, PTL DEF Spec

(* Every reachable state is well typed, however the handlers are split; in *)
(* particular both timeout counts stay within their limits.                *)
THEOREM AdminTypeCorrect == Spec => []TypeOK
<1>1. AdminInv => TypeOK
  <2> SUFFICES ASSUME AdminInv
               PROVE  TypeOK
    OBVIOUS
  <2>1. \A t \in Tasks : \A i \in DOMAIN todo[t] : todo[t][i].field \in Fields
    <3>1. \A w \in Writes : w.field \in Fields
      BY DEF Writes
    <3>2. todo \in [Tasks -> Seq(Writes)]
      BY DEF AdminInv, FieldsOK
    <3> QED BY <3>1, <3>2
  <2>2. /\ adm["dev_admin_sta"] \in Owners
        /\ adm["admin_sta"] \in Owners
        /\ adm["ip"] \in Address
        /\ adm["ask_ip"] \in Address
        /\ adm["link_cnt"] \in Nat
    BY DEF AdminInv, FieldsOK, Values, Fields
  <2> QED BY <2>1, <2>2 DEF AdminInv, FieldsOK, CountsOK, Owners, TypeOK
<1> QED BY <1>1, AdminInductive, PTL

(* Between handlers no PC passes the test of APP_PCCOMM_CmdDeal unless it  *)
(* is in control by dev_admin_sta too: the grant writes admin_sta first,   *)
(* but nothing that comes between its two writes, before or after them,    *)
(* leaves the two apart in this way.                                       *)
THEOREM PcControlIsWatched == Spec => []PcIsWatched
<1>1. AdminInv => PcIsWatched
  <2>1. AtRest => \A A : \A t \in Tasks : ~Has(todo[t], A)
    BY DEF AtRest, Has
  <2> QED BY <2>1 DEF AdminInv, PcInv, PcIsWatched
<1> QED BY <1>1, AdminInductive, PTL

(* While the PDU link has never failed, the unit between handlers never    *)
(* holds on to the address of a request it is not waiting for an answer    *)
(* to, which would refuse every later request.                             *)
THEOREM RequestsStayPossible == Spec => []CanAskAgain
<1>1. AdminInv => CanAskAgain
  <2>1. AtRest => \A A : \A t \in Tasks : ~Has(todo[t], A)
    BY DEF AtRest, Has
  <2> QED BY <2>1 DEF AdminInv, AskInv, Clearing, CanAskAgain, Tasks, ACU, ASKING
<1> QED BY <1>1, AdminInductive, PTL
=============================================================================
