------------------------- MODULE ParamRecords_proof -------------------------
(***************************************************************************)
(* The antenna records of the parameter store are kept, for any number of  *)
(* records, any commands of the two senders and any faults: only an        *)
(* unreadable record or a command that overlaps another one costs a        *)
(* record, and one only.  While no commands overlap the number of records  *)
(* is that of the list.                                                    *)
(***************************************************************************)
EXTENDS ParamSats_proof

(* The ids that a command with locals t may yet write or unlist. *)
Threat(t) ==
    CASE t.op \in {"head", "tail"}    -> {t.id}
      [] t.op = "unlist"              -> t.todo
      [] t.op = "wipe"                -> t.todo \cup {t.id}
      [] t.op \in ClearOps            -> t.todo
      [] OTHER                        -> {}

Threatened(i) == \E s \in Senders : i \in Threat(task[s])

(* The records that were acknowledged, or will be in the next step. *)
Owed == ackedRecords \cup {task[s].n : s \in {r \in Senders : task[r].op = "number"}}

(* A start finds record n (while the program starts), or it is listed and  *)
(* no command is about to touch it.                                        *)
Safe(n) ==
    \E i \in Records :
       /\ record[i] = Whole(n)
       /\ up = "on" => i \in record_ID /\ ~Threatened(i)

(* A record is being written where the other sender's command will write. *)
Conflict ==
    \E s, r \in Senders :
       /\ s # r
       /\ task[s].op \in {"head", "tail", "compare"}
       /\ task[s].id \in Threat(task[r])

(* What is lost or may be lost: 0 stands for one of two in conflict. *)
AtRisk == {n \in Owed : ~Safe(n)} \cup (IF Conflict THEN {0} ELSE {})

RiskBound == Cardinality(AtRisk) <= count.misreads + count.overlaps

(* While no commands overlapped, at most one runs, and the number of       *)
(* records is that of the list but for the record that is being added.     *)
OneCommand == \A s, r \in Senders : task[s] # Idle /\ task[r] # Idle => s = r

NumberTrue ==
    /\ \A s \in Senders :
          /\ task[s].op \in AddOps => task[s].num = record_Total_num
          /\ task[s].op \in {"head", "tail", "compare"} => task[s].id \notin record_ID
    /\ Cardinality(record_ID) =
          record_Total_num + (IF \E s \in Senders : task[s].op = "number" THEN 1 ELSE 0)

NumberInv == count.overlaps = 0 => OneCommand /\ NumberTrue

RecordInv == RiskBound /\ NumberInv
-----------------------------------------------------------------------------
(* Counting.                                                               *)

Costs == count.misreads + count.overlaps

(* What may be lost are finitely many records. *)
LEMMA RisksFinite ==
    /\ \A S : S \subseteq RecordValues => IsFiniteSet(S) /\ Cardinality(S) \in Nat
    /\ 0 \in RecordValues
    /\ TypeInv => AtRisk \subseteq RecordValues /\ Owed \subseteq RecordValues \ {0} /\ Costs \in Nat
    /\ TypeInv' => AtRisk' \subseteq RecordValues /\ Owed' \subseteq RecordValues \ {0} /\ Costs' \in Nat
<1>1. 0 \in Int /\ RecMax + MaxCmds \in Int /\ 0 \in RecordValues
  BY ConstantFacts DEF RecordValues
<1>2. IsFiniteSet(RecordValues)
  BY <1>1, FS_Interval DEF RecordValues
<1>3. ASSUME NEW S, S \subseteq RecordValues
      PROVE  IsFiniteSet(S) /\ Cardinality(S) \in Nat
  <2>1. IsFiniteSet(S)
    BY <1>2, <1>3, FS_Subset
  <2> QED BY <2>1, FS_CardinalityType
<1>4. ASSUME TypeInv
      PROVE  AtRisk \subseteq RecordValues /\ Owed \subseteq RecordValues \ {0} /\ Costs \in Nat
  <2>1. Owed \subseteq RecordValues \ {0}
    BY <1>4 DEF Owed, TypeInv, ClientsOK, TasksOK, Typed, AddOps
  <2>2. Costs \in Nat
    BY <1>4 DEF Costs, TypeInv, CountsOK, CountState
  <2> QED BY <1>1, <2>1, <2>2 DEF AtRisk
<1>5. ASSUME TypeInv'
      PROVE  AtRisk' \subseteq RecordValues /\ Owed' \subseteq RecordValues \ {0} /\ Costs' \in Nat
  <2>1. Owed' \subseteq RecordValues \ {0}
    BY <1>5 DEF Owed, TypeInv, ClientsOK, TasksOK, Typed, AddOps
  <2>2. Costs' \in Nat
    BY <1>5 DEF Costs, TypeInv, CountsOK, CountState
  <2> QED BY <1>1, <2>1, <2>2 DEF AtRisk
<1> QED BY <1>1, <1>3, <1>4, <1>5

(* Nothing more is at risk. *)
LEMMA NoMoreRisk ==
    ASSUME TypeInv, TypeInv', RiskBound, AtRisk' \subseteq AtRisk, Costs <= Costs'
    PROVE  RiskBound'
<1>1. IsFiniteSet(AtRisk) /\ Cardinality(AtRisk) \in Nat /\ Cardinality(AtRisk') \in Nat
  BY RisksFinite
<1>2. Cardinality(AtRisk') <= Cardinality(AtRisk)
  BY <1>1, FS_Subset
<1>3. Cardinality(AtRisk) <= Costs /\ Costs \in Nat /\ Costs' \in Nat
  BY RisksFinite DEF RiskBound, Costs
<1>4. Cardinality(AtRisk') <= Costs'
  BY <1>1, <1>2, <1>3
<1> QED BY <1>4 DEF RiskBound, Costs

(* A command that overlaps puts one at risk. *)
LEMMA OneMoreRisk ==
    ASSUME TypeInv, TypeInv', RiskBound, NEW x \in RecordValues, AtRisk' \subseteq AtRisk \cup {x},
           Costs' >= Costs + 1
    PROVE  RiskBound'
<1>1. /\ IsFiniteSet(AtRisk) /\ Cardinality(AtRisk) \in Nat /\ Cardinality(AtRisk') \in Nat
      /\ AtRisk \cup {x} \subseteq RecordValues
  BY RisksFinite
<1>2. /\ IsFiniteSet(AtRisk \cup {x})
      /\ Cardinality(AtRisk \cup {x}) = IF x \in AtRisk THEN Cardinality(AtRisk) ELSE Cardinality(AtRisk) + 1
  BY <1>1, FS_AddElement
<1>3. Cardinality(AtRisk') <= Cardinality(AtRisk \cup {x})
  BY <1>2, FS_Subset
<1>4. Cardinality(AtRisk) <= Costs /\ Costs \in Nat /\ Costs' \in Nat
  BY RisksFinite DEF RiskBound, Costs
<1>5. Cardinality(AtRisk') <= Costs'
  BY <1>1, <1>2, <1>3, <1>4
<1> QED BY <1>5 DEF RiskBound, Costs

(* A conflict is decided against record x. *)
LEMMA ConflictDecided ==
    ASSUME TypeInv, TypeInv', RiskBound, NEW x \in RecordValues, 0 \in AtRisk,
           AtRisk' \subseteq (AtRisk \ {0}) \cup {x}, Costs <= Costs'
    PROVE  RiskBound'
<1> DEFINE A == AtRisk \ {0}
<1>1. IsFiniteSet(AtRisk) /\ Cardinality(AtRisk) \in Nat /\ Cardinality(AtRisk') \in Nat
  BY RisksFinite
<1>2. IsFiniteSet(A) /\ Cardinality(A) = Cardinality(AtRisk) - 1
  BY <1>1, FS_RemoveElement
<1> HIDE DEF A
<1>3. /\ IsFiniteSet(A \cup {x})
      /\ Cardinality(A \cup {x}) = IF x \in A THEN Cardinality(A) ELSE Cardinality(A) + 1
  BY <1>2, FS_AddElement
<1>4. Cardinality(AtRisk') <= Cardinality(A \cup {x})
  BY <1>3, FS_Subset DEF A
<1>5. Cardinality(AtRisk) <= Costs /\ Costs \in Nat /\ Costs' \in Nat
  BY RisksFinite DEF RiskBound, Costs
<1>6. Cardinality(AtRisk') <= Costs'
  BY <1>1, <1>2, <1>3, <1>4, <1>5
<1> QED BY <1>6 DEF RiskBound, Costs
-----------------------------------------------------------------------------
(* A step of one sender.                                                   *)

SenderStep(s) ==
    /\ up = "on" /\ up' = up
    /\ \A r \in Senders : r # s => task'[r] = task[r]
    /\ count'.misreads = count.misreads
    /\ \/ task[s] # Idle /\ count'.overlaps = count.overlaps
       \/ /\ task[s] = Idle
          /\ count'.overlaps = count.overlaps + (IF \E r \in Senders : task[r] # Idle THEN 1 ELSE 0)

Writing(t) == t.op \in {"head", "tail", "compare"}

LEMMA SenderCosts ==
    ASSUME TypeInv, NEW s \in Senders, SenderStep(s)
    PROVE  /\ Costs <= Costs'
           /\ \A r \in Senders : task[s] = Idle /\ task[r] # Idle => Costs' = Costs + 1
<1>1. count.misreads \in Nat /\ count.overlaps \in Nat
  BY DEF TypeInv, CountsOK, CountState
<1> QED BY <1>1 DEF SenderStep, Costs

(* A command that only touches what it threatens puts nothing at risk. *)
LEMMA StepKeepsRisk ==
    ASSUME TypeInv, TypeInv', RiskBound, NEW s \in Senders, SenderStep(s),
           Threat(task'[s]) \subseteq Threat(task[s]),
           Writing(task'[s]) => Writing(task[s]) /\ task'[s].id = task[s].id,
           \A i \in Records : i \notin Threat(task[s]) =>
              record'[i] = record[i] /\ (i \in record_ID => i \in record_ID'),
           Owed' \subseteq Owed
    PROVE  RiskBound'
<1>1. up = "on" /\ up' = "on" /\ \A r \in Senders : r # s => task'[r] = task[r]
  BY DEF SenderStep
<1>2. \A r \in Senders : Threat(task'[r]) \subseteq Threat(task[r])
  BY <1>1
<1>3. \A r \in Senders : Writing(task'[r]) => Writing(task[r]) /\ task'[r].id = task[r].id
  BY <1>1
<1>4. Conflict' => Conflict
  BY <1>2, <1>3 DEF Conflict, Writing
<1>5. ASSUME NEW n, Safe(n)
      PROVE  Safe(n)'
  <2>1. PICK i \in Records : record[i] = Whole(n) /\ i \in record_ID /\ ~Threatened(i)
    BY <1>1, <1>5 DEF Safe
  <2>2. i \notin Threat(task[s]) /\ \A r \in Senders : i \notin Threat(task'[r])
    BY <1>2, <2>1 DEF Threatened
  <2>3. record'[i] = Whole(n) /\ i \in record_ID'
    BY <2>1, <2>2
  <2> QED BY <2>2, <2>3 DEF Safe, Threatened
<1>6. AtRisk' \subseteq AtRisk
  <2>1. \A n \in Owed' : ~Safe(n)' => n \in Owed /\ ~Safe(n)
    BY <1>5
  <2> QED BY <1>4, <2>1 DEF AtRisk
<1> QED BY <1>6, NoMoreRisk, SenderCosts

(* While no commands overlapped the sender of a step is alone. *)
LEMMA Alone ==
    ASSUME TypeInv, NumberInv, NEW s \in Senders, SenderStep(s), count'.overlaps = 0
    PROVE  /\ count.overlaps = 0 /\ NumberTrue /\ OneCommand'
           /\ \A r \in Senders : r # s => task[r] = Idle /\ task'[r] = Idle
<1>1. count.overlaps \in Nat
  BY DEF TypeInv, CountsOK, CountState
<1>2. count.overlaps = 0 /\ (task[s] = Idle => \A r \in Senders : task[r] = Idle)
  BY <1>1 DEF SenderStep
<1>3. OneCommand /\ NumberTrue
  BY <1>2 DEF NumberInv
<1>4. \A r \in Senders : r # s => task[r] = Idle /\ task'[r] = Idle
  BY <1>2, <1>3 DEF OneCommand, SenderStep
<1>5. OneCommand'
  BY <1>4 DEF OneCommand
<1> QED BY <1>2, <1>3, <1>4, <1>5

(* What is left to show of the number: that it is right for the sender. *)
LEMMA StepKeepsNumber ==
    ASSUME TypeInv, NumberInv, NEW s \in Senders, SenderStep(s),
           ASSUME NumberTrue,
                  task[s].op # "number" => Cardinality(record_ID) = record_Total_num,
                  task[s].op = "number" => Cardinality(record_ID) = record_Total_num + 1
           PROVE  /\ task'[s].op \in AddOps => task'[s].num = record_Total_num'
                  /\ Writing(task'[s]) => task'[s].id \notin record_ID'
                  /\ Cardinality(record_ID') = record_Total_num' + (IF task'[s].op = "number" THEN 1 ELSE 0)
    PROVE  NumberInv'
<1> SUFFICES ASSUME count'.overlaps = 0 PROVE OneCommand' /\ NumberTrue'
  BY DEF NumberInv
<1>1. /\ NumberTrue /\ OneCommand'
      /\ \A r \in Senders : r # s => task[r] = Idle /\ task'[r] = Idle
  BY Alone
<1>2. record_Total_num \in Nat
  BY ConstantFacts DEF TypeInv, ListsOK
<1>3. /\ (\E r \in Senders : task[r].op = "number") <=> task[s].op = "number"
      /\ (\E r \in Senders : task'[r].op = "number") <=> task'[s].op = "number"
  BY <1>1, IdleTyped
<1>4. /\ task[s].op # "number" => Cardinality(record_ID) = record_Total_num
      /\ task[s].op = "number" => Cardinality(record_ID) = record_Total_num + 1
  BY <1>1, <1>2, <1>3 DEF NumberTrue
<1>5. /\ task'[s].op \in AddOps => task'[s].num = record_Total_num'
      /\ Writing(task'[s]) => task'[s].id \notin record_ID'
      /\ Cardinality(record_ID') = record_Total_num' + (IF task'[s].op = "number" THEN 1 ELSE 0)
  BY <1>1, <1>4
<1>6. \A r \in Senders : r # s => task'[r].op \notin AddOps /\ ~Writing(task'[r])
  BY <1>1, IdleTyped DEF AddOps, Writing
<1> QED BY <1>1, <1>3, <1>5, <1>6 DEF NumberTrue, Writing

(* The effects of Goto, End and Begin on the sender. *)
LEMMA GotoEffect ==
    ASSUME TypeInv, NEW s \in Senders, NEW op \in Ops, Goto(s, op)
    PROVE  /\ task'[s].op = op /\ task'[s].id = task[s].id /\ task'[s].n = task[s].n
           /\ task'[s].num = task[s].num /\ task'[s].todo = task[s].todo
           /\ \A r \in Senders : r # s => task'[r] = task[r]
<1> DEFINE u == [task[s] EXCEPT !.op = op]
<1>1. task[s] \in TaskState /\ task \in [Senders -> TaskState]
  BY DEF TypeInv, TasksOK
<1>2. /\ u.op = op /\ u.id = task[s].id /\ u.n = task[s].n
      /\ u.num = task[s].num /\ u.todo = task[s].todo
  BY <1>1, Reop
<1>3. task' = [task EXCEPT ![s] = u]
  BY DEF Goto
<1> HIDE DEF u
<1>4. task'[s] = u /\ \A r \in Senders : r # s => task'[r] = task[r]
  BY <1>1, <1>3
<1> QED BY <1>2, <1>4

LEMMA BeginCountingEffect ==
    ASSUME TypeInv, NEW s \in Senders, NEW k, NEW t, NEW stale, BeginCounting(s, k, t, stale), up' = up
    PROVE  SenderStep(s) /\ task'[s] = t /\ task[s] = Idle
<1> DEFINE o == IF \E r \in Senders : task[r] # Idle THEN 1 ELSE 0
<1>1. /\ count' = [count EXCEPT !.cmds = count.cmds + 1, !.overlaps = count.overlaps + o,
                                !.stale = count.stale + stale]
      /\ task' = [task EXCEPT ![s] = t]
      /\ up = "on" /\ task[s] = Idle
  BY DEF BeginCounting
<1> HIDE DEF o
<1>2. count'.misreads = count.misreads /\ count'.overlaps = count.overlaps + o
  BY <1>1, Zenon DEF TypeInv, CountsOK, CountState
<1>3. task'[s] = t /\ \A r \in Senders : r # s => task'[r] = task[r]
  BY <1>1 DEF TypeInv, TasksOK
<1> QED BY <1>1, <1>2, <1>3 DEF SenderStep, o

LEMMA BeginEffect ==
    ASSUME TypeInv, NEW s \in Senders, NEW k, NEW t, Begin(s, k, t), up' = up
    PROVE  SenderStep(s) /\ task'[s] = t /\ task[s] = Idle
BY BeginCountingEffect DEF Begin

(* A step of a command under way. *)
LEMMA StepEffect ==
    ASSUME TypeInv, NEW s \in Senders, up = "on", up' = up, task[s].op # "idle",
           \A r \in Senders : r # s => task'[r] = task[r],
           count'.misreads = count.misreads, count'.overlaps = count.overlaps
    PROVE  SenderStep(s)
BY IdleTyped DEF SenderStep

(* The commands about satellites. *)
SatCommand ==
    \/ SatAdd \/ SatSave \/ SatCount \/ SatListed \/ DelSatCount
    \/ \E i \in Sats : SatModify(i) \/ DelSat(i)
    \/ \E ids \in SUBSET Sats \ {{}} : DelSatSet(ids)

LEMMA SatCommandEffect ==
    ASSUME TypeInv, SatCommand
    PROVE  /\ SenderStep("pc")
           /\ UNCHANGED <<record, record_Total_num, record_ID, ackedRecords>>
           /\ {task["pc"].op, task'["pc"].op} \subseteq SatOps \cup {"idle", "del"}
<1>0. "pc" \in Senders
  BY ConstantFacts
<1>1. CASE SatAdd
  <2>1. PICK t : Begin("pc", "sat", t) /\ up' = up
    BY <1>1 DEF SatAdd
  <2>2. SenderStep("pc") /\ Pc = Idle /\ Pc'.op = "save"
    BY <1>0, <1>1, <2>1, BeginEffect, SatAddTypes
  <2> QED BY <1>1, <2>2, IdleTyped DEF SatAdd, eepromVars, recordVars, clientVars, Pc, SatOps
<1>2. CASE \E i \in Sats : SatModify(i)
  <2> PICK i \in Sats : SatModify(i)
    BY <1>2
  <2>1. PICK t, stale : BeginCounting("pc", "sat", t, stale) /\ up' = up
    BY DEF SatModify
  <2>2. SenderStep("pc") /\ Pc = Idle /\ Pc'.op = "save"
    BY <1>0, <2>1, BeginCountingEffect, SatModifyTypes
  <2> QED BY <2>2, IdleTyped DEF SatModify, eepromVars, recordVars, clientVars, Pc, SatOps
<1>3. CASE \E ids \in SUBSET Sats \ {{}} : DelSatSet(ids)
  <2> PICK ids \in SUBSET Sats \ {{}} : DelSatSet(ids)
    BY <1>3
  <2>1. PICK t : Begin("pc", "delsat", t) /\ up' = up
    BY DEF DelSatSet
  <2>2. SenderStep("pc") /\ Pc = Idle /\ Pc'.op = "del"
    BY <1>0, <2>1, BeginEffect, DelSatSetTypes
  <2> QED BY <2>2, IdleTyped DEF DelSatSet, eepromVars, recordVars, Pc
<1>4. CASE SatSave
  <2> PICK w \in BOOLEAN, ok \in BOOLEAN :
          /\ Save(w, ok, count)
          /\ IF ok THEN Goto("pc", IF task["pc"].num = 1 THEN "count" ELSE "list") ELSE End("pc")
    BY <1>4 DEF SatSave
  <2>1. up = "on" /\ up' = up /\ task["pc"].op = "save"
        /\ UNCHANGED <<record, record_Total_num, record_ID, ackedRecords>>
    BY <1>4 DEF SatSave, At, recordVars, clientVars
  <2>2. task'["pc"].op \in SatOps \cup {"idle"} /\ \A r \in Senders : r # "pc" => task'[r] = task[r]
    <3>1. {"count", "list"} \subseteq Ops /\ {"count", "list"} \subseteq SatOps
      BY DEF Ops, SatOps
    <3>2. CASE ok
      BY <1>0, <3>1, <3>2, GotoEffect
    <3>3. CASE ~ok
      BY <1>0, <3>3, EndFacts, IdleTyped DEF TypeInv
    <3> QED BY <3>2, <3>3
  <2>3. count'.misreads = count.misreads /\ count'.overlaps = count.overlaps
    BY SaveFaults DEF TypeInv
  <2> QED BY <1>0, <2>1, <2>2, <2>3, StepEffect DEF SatOps
<1>5. CASE SatCount
  <2> PICK w \in BOOLEAN, ok \in BOOLEAN : Save(w, ok, count)
    BY <1>5 DEF SatCount
  <2>1. up = "on" /\ up' = up /\ task["pc"].op = "count" /\ Goto("pc", "list")
        /\ UNCHANGED <<record, record_Total_num, record_ID, ackedRecords>>
    BY <1>5 DEF SatCount, At, recordVars, clientVars
  <2>2. task'["pc"].op = "list" /\ \A r \in Senders : r # "pc" => task'[r] = task[r]
    BY <1>0, <2>1, GotoEffect DEF Ops, SatOps
  <2>3. count'.misreads = count.misreads /\ count'.overlaps = count.overlaps
    BY SaveFaults DEF TypeInv
  <2> QED BY <1>0, <2>1, <2>2, <2>3, StepEffect DEF SatOps
<1>6. CASE SatListed
  <2>1. up = "on" /\ up' = up /\ task["pc"].op = "list" /\ End("pc")
        /\ UNCHANGED <<record, record_Total_num, record_ID, ackedRecords, count>>
    BY <1>6 DEF SatListed, At, eepromVars, recordVars
  <2>2. task'["pc"] = Idle /\ \A r \in Senders : r # "pc" => task'[r] = task[r]
    BY <1>0, <2>1, EndFacts DEF TypeInv
  <2> QED BY <1>0, <2>1, <2>2, StepEffect, IdleTyped DEF SatOps
<1>7. CASE DelSatCount
  <2> PICK w \in BOOLEAN, ok \in BOOLEAN : Save(w, ok, count)
    BY <1>7 DEF DelSatCount
  <2>1. up = "on" /\ up' = up /\ task["pc"].op = "del" /\ End("pc")
        /\ UNCHANGED <<record, record_Total_num, record_ID, ackedRecords>>
    BY <1>7 DEF DelSatCount, At, recordVars, clientVars
  <2>2. task'["pc"] = Idle /\ \A r \in Senders : r # "pc" => task'[r] = task[r]
    BY <1>0, <2>1, EndFacts DEF TypeInv
  <2>3. count'.misreads = count.misreads /\ count'.overlaps = count.overlaps
    BY SaveFaults DEF TypeInv
  <2> QED BY <1>0, <2>1, <2>2, <2>3, StepEffect, IdleTyped
<1>8. CASE \E i \in Sats : DelSat(i)
  <2> PICK i \in Sats : DelSat(i)
    BY <1>8
  <2>1. up = "on" /\ up' = up /\ task["pc"].op = "del" /\ task' = [task EXCEPT !["pc"].todo = @ \ {i}]
        /\ UNCHANGED <<record, record_Total_num, record_ID, ackedRecords>>
    BY DEF DelSat, At, recordVars, clientVars
  <2>2. Pc'.op = "del"
    BY DelSatTypes
  <2>3. \A r \in Senders : r # "pc" => task'[r] = task[r]
    BY <2>1 DEF TypeInv, TasksOK
  <2>4. count'.misreads = count.misreads /\ count'.overlaps = count.overlaps
    <3>1. CASE \E w, ok \in BOOLEAN : Save(w, ok, count)
      BY <3>1, SaveFaults DEF TypeInv
    <3>2. CASE count' = count
      BY <3>2
    <3> QED BY <3>1, <3>2 DEF DelSat
  <2> QED BY <1>0, <2>1, <2>2, <2>3, <2>4, StepEffect DEF Pc
<1> QED BY <1>1, <1>2, <1>3, <1>4, <1>5, <1>6, <1>7, <1>8 DEF SatCommand

LEMMA SatCommandRecords ==
    ASSUME TypeInv, TypeInv', RecordInv, SatCommand
    PROVE  RecordInv'
<1>1. /\ SenderStep("pc") /\ "pc" \in Senders
      /\ UNCHANGED <<record, record_Total_num, record_ID, ackedRecords>>
      /\ {task["pc"].op, task'["pc"].op} \subseteq SatOps \cup {"idle", "del"}
  BY SatCommandEffect, ConstantFacts
<1>2. /\ Threat(task'["pc"]) = {} /\ ~Writing(task'["pc"]) /\ task'["pc"].op \notin AddOps
      /\ task["pc"].op \notin AddOps
  BY <1>1 DEF Threat, Writing, SatOps, AddOps, ClearOps
<1>3. Owed' \subseteq Owed
  BY <1>1, <1>2 DEF Owed, AddOps, SenderStep
<1>4. RiskBound'
  BY <1>1, <1>2, <1>3, StepKeepsRisk DEF RecordInv
<1>5. NumberInv'
  <2>1. ASSUME task["pc"].op # "number" => Cardinality(record_ID) = record_Total_num
        PROVE  /\ task'["pc"].op \in AddOps => task'["pc"].num = record_Total_num'
               /\ Writing(task'["pc"]) => task'["pc"].id \notin record_ID'
               /\ Cardinality(record_ID') = record_Total_num' + (IF task'["pc"].op = "number" THEN 1 ELSE 0)
    <3>1. record_Total_num \in Nat
      BY ConstantFacts DEF TypeInv, ListsOK
    <3> QED BY <1>1, <1>2, <2>1, <3>1 DEF AddOps
  <2> QED BY <1>1, <2>1, StepKeepsNumber DEF RecordInv
<1> QED BY <1>4, <1>5 DEF RecordInv

(* There is one other sender at most. *)
LEMMA OneOther == \A s, r, q \in Senders : r # s /\ q # s => r = q
BY ParamStoreAssumption

(* A command that begins while no other runs, or with another one. *)
LEMMA BeginCosts ==
    ASSUME TypeInv, NEW s \in Senders, SenderStep(s), task[s] = Idle
    PROVE  \/ \A r \in Senders : r # s => task[r] = Idle /\ task'[r] = Idle
           \/ Costs' = Costs + 1
BY SenderCosts DEF SenderStep

LEMMA AntennaRecordRecords ==
    ASSUME TypeInv, TypeInv', RecordInv, NEW s \in Senders, AntennaRecord(s)
    PROVE  RecordInv'
<1>1. PICK t : Begin(s, "rec", t) /\ up' = up
  BY DEF AntennaRecord
<1>2. SenderStep(s) /\ task[s] = Idle /\ task[s].op = "idle"
  BY <1>1, BeginEffect, IdleTyped
<1>3. /\ task'[s].op = "head" /\ task'[s].id = NewRecordId /\ NewRecordId \in Records \ record_ID
      /\ task'[s].num = record_Total_num
  BY AntennaRecordTypes
<1>4. UNCHANGED <<record, record_ID, record_Total_num, ackedRecords>> /\ up = "on" /\ up' = "on"
  BY <1>2 DEF AntennaRecord, eepromVars, recordVars, clientVars, SenderStep
<1>5. \A r \in Senders : r # s => task'[r] = task[r]
  BY <1>2 DEF SenderStep
<1>6. Threat(task'[s]) = {NewRecordId}
  BY <1>3 DEF Threat, ClearOps
<1>7. ASSUME NEW n, Safe(n)
      PROVE  Safe(n)'
  <2>1. PICK i \in Records : record[i] = Whole(n) /\ i \in record_ID /\ ~Threatened(i)
    BY <1>4, <1>7 DEF Safe
  <2>2. \A r \in Senders : i \notin Threat(task'[r])
    BY <1>3, <1>5, <1>6, <2>1 DEF Threatened
  <2> QED BY <1>4, <2>1, <2>2 DEF Safe, Threatened
<1>8. Owed' \subseteq Owed
  BY <1>3, <1>4, <1>5 DEF Owed
<1>9. AtRisk' \subseteq AtRisk \cup {0}
  BY <1>7, <1>8 DEF AtRisk
<1>10. RiskBound'
  <2>1. CASE \A r \in Senders : r # s => task[r] = Idle /\ task'[r] = Idle
    <3>1. ~Conflict'
      BY <2>1, IdleTyped DEF Conflict, Threat, ClearOps
    <3>2. AtRisk' \subseteq AtRisk
      BY <1>7, <1>8, <3>1 DEF AtRisk
    <3> QED BY <1>2, <3>2, NoMoreRisk, SenderCosts DEF RecordInv
  <2>2. CASE Costs' = Costs + 1
    <3>1. Costs' >= Costs + 1
      BY <2>2, RisksFinite
    <3> QED BY <1>9, <3>1, OneMoreRisk, RisksFinite DEF RecordInv
  <2> QED BY <1>2, <2>1, <2>2, BeginCosts
<1>11. NumberInv'
  <2>1. ASSUME task[s].op # "number" => Cardinality(record_ID) = record_Total_num
        PROVE  /\ task'[s].op \in AddOps => task'[s].num = record_Total_num'
               /\ Writing(task'[s]) => task'[s].id \notin record_ID'
               /\ Cardinality(record_ID') = record_Total_num' + (IF task'[s].op = "number" THEN 1 ELSE 0)
    <3>1. record_Total_num \in Nat
      BY ConstantFacts DEF TypeInv, ListsOK
    <3> QED BY <1>2, <1>3, <1>4, <2>1, <3>1
  <2> QED BY <1>2, <2>1, StepKeepsNumber DEF RecordInv
<1> QED BY <1>10, <1>11 DEF RecordInv

(* A page of a record is written: it was threatened before. *)
LEMMA RecordWriteRecords ==
    ASSUME TypeInv, TypeInv', RecordInv, NEW s \in Senders, RecordHead(s) \/ RecordTail(s)
    PROVE  RecordInv'
<1>1. /\ up = "on" /\ up' = up /\ task[s].op \in {"head", "tail"}
      /\ UNCHANGED <<record_ID, record_Total_num, ackedRecords>>
  BY DEF RecordHead, RecordTail, At, recordVars, clientVars
<1>2. PICK w \in BOOLEAN, ok \in BOOLEAN, op \in {"tail", "compare"} :
          /\ Save(w, ok, count)
          /\ \A i \in Records : i # task[s].id => record'[i] = record[i]
          /\ IF ok THEN Goto(s, op) ELSE End(s)
          /\ task[s].op = "tail" => op = "compare"
  <2>1. record \in [Records -> RecordValues \X RecordValues]
    BY DEF TypeInv, StoresOK
  <2>2. CASE RecordHead(s)
    <3> PICK w \in BOOLEAN, ok \in BOOLEAN :
          /\ Save(w, ok, count)
          /\ record' = IF w THEN [record EXCEPT ![task[s].id] = FirstPage(@, task[s].id, task[s].n)] ELSE record
          /\ IF ok THEN Goto(s, IF task[s].id \in Straddling THEN "tail" ELSE "compare") ELSE End(s)
      BY <2>2 DEF RecordHead
    <3>1. \A i \in Records : i # task[s].id => record'[i] = record[i]
      BY <2>1
    <3>2. task[s].op = "head"
      BY <2>2 DEF RecordHead, At
    <3> QED BY <3>1, <3>2
  <2>3. CASE RecordTail(s)
    <3> PICK w \in BOOLEAN, ok \in BOOLEAN :
          /\ Save(w, ok, count)
          /\ record' = IF w THEN [record EXCEPT ![task[s].id][2] = task[s].n] ELSE record
          /\ IF ok THEN Goto(s, "compare") ELSE End(s)
      BY <2>3 DEF RecordTail
    <3>1. \A i \in Records : i # task[s].id => record'[i] = record[i]
      BY <2>1
    <3> QED BY <3>1
  <2> QED BY <2>2, <2>3
<1>3. count'.misreads = count.misreads /\ count'.overlaps = count.overlaps
  BY <1>2, SaveFaults DEF TypeInv
<1>4. /\ \A r \in Senders : r # s => task'[r] = task[r]
      /\ \/ task'[s] = Idle
         \/ /\ task'[s].op \in {"tail", "compare"}
            /\ task'[s].id = task[s].id /\ task'[s].num = task[s].num
  <2>1. {"tail", "compare"} \subseteq Ops
    BY DEF Ops, AddOps
  <2>2. CASE ok
    BY <1>2, <2>1, <2>2, GotoEffect
  <2>3. CASE ~ok
    BY <1>2, <2>3, EndFacts DEF TypeInv
  <2> QED BY <2>2, <2>3
<1>5. SenderStep(s)
  BY <1>1, <1>3, <1>4, StepEffect
<1>6. Threat(task[s]) = {task[s].id} /\ Threat(task'[s]) \subseteq {task[s].id}
  BY <1>1, <1>4, IdleTyped DEF Threat, ClearOps
<1>7. Writing(task'[s]) => Writing(task[s]) /\ task'[s].id = task[s].id
  BY <1>1, <1>4, IdleTyped DEF Writing
<1>8. Owed' \subseteq Owed
  BY <1>1, <1>4, IdleTyped DEF Owed
<1>9. RiskBound'
  BY <1>1, <1>2, <1>5, <1>6, <1>7, <1>8, StepKeepsRisk DEF RecordInv
<1>10. NumberInv'
  <2>1. ASSUME NumberTrue, task[s].op # "number" => Cardinality(record_ID) = record_Total_num
        PROVE  /\ task'[s].op \in AddOps => task'[s].num = record_Total_num'
               /\ Writing(task'[s]) => task'[s].id \notin record_ID'
               /\ Cardinality(record_ID') = record_Total_num' + (IF task'[s].op = "number" THEN 1 ELSE 0)
    <3>1. record_Total_num \in Nat
      BY ConstantFacts DEF TypeInv, ListsOK
    <3> QED BY <1>1, <1>4, <2>1, <3>1, IdleTyped DEF NumberTrue, Writing, AddOps
  <2> QED BY <1>5, <2>1, StepKeepsNumber DEF RecordInv
<1> QED BY <1>9, <1>10 DEF RecordInv

(* A record that compares well is listed: a conflict about it is decided. *)
LEMMA RecordCompareRecords ==
    ASSUME TypeInv, TypeInv', RecordInv, NEW s \in Senders, RecordCompare(s)
    PROVE  RecordInv'
<1>1. /\ up = "on" /\ up' = up /\ task[s].op = "compare" /\ task[s].op \in AddOps
      /\ UNCHANGED <<record, record_Total_num, ackedRecords, count>>
  BY DEF RecordCompare, At, eepromVars, clientVars, AddOps
<1>2. record_Total_num \in Nat
  BY ConstantFacts DEF TypeInv, ListsOK
<1>3. task[s].id \in Records /\ task[s].n \in RecordValues \ {0}
  BY <1>1, WritesRecord
<1>4. CASE End(s) /\ UNCHANGED record_ID
  <2>1. task'[s] = Idle /\ task'[s].op = "idle" /\ \A r \in Senders : r # s => task'[r] = task[r]
    BY <1>4, EndFacts, IdleTyped DEF TypeInv
  <2>2. SenderStep(s)
    BY <1>1, <2>1, StepEffect
  <2>3. Threat(task'[s]) = {} /\ ~Writing(task'[s])
    BY <2>1 DEF Threat, Writing, ClearOps
  <2>4. Owed' \subseteq Owed
    BY <1>1, <2>1 DEF Owed
  <2>5. RiskBound'
    BY <1>1, <1>4, <2>2, <2>3, <2>4, StepKeepsRisk DEF RecordInv
  <2>6. NumberInv'
    <3>1. ASSUME task[s].op # "number" => Cardinality(record_ID) = record_Total_num
          PROVE  /\ task'[s].op \in AddOps => task'[s].num = record_Total_num'
                 /\ Writing(task'[s]) => task'[s].id \notin record_ID'
                 /\ Cardinality(record_ID') = record_Total_num' + (IF task'[s].op = "number" THEN 1 ELSE 0)
      BY <1>1, <1>2, <1>4, <2>1, <3>1 DEF Writing, AddOps
    <3> QED BY <2>2, <3>1, StepKeepsNumber DEF RecordInv
  <2> QED BY <2>5, <2>6 DEF RecordInv
<1>5. CASE SameBytes(s) /\ record_ID' = record_ID \cup {task[s].id} /\ Goto(s, "number")
  <2> PICK x, m : x = task[s].id /\ m = task[s].n
    OBVIOUS
  <2>1. /\ task'[s].op = "number" /\ task'[s].n = m /\ task'[s].num = task[s].num
        /\ \A r \in Senders : r # s => task'[r] = task[r]
    <3>1. "number" \in Ops
      BY DEF Ops, AddOps
    <3> QED BY <1>5, <3>1, GotoEffect
  <2>2. SenderStep(s)
    BY <1>1, <2>1, StepEffect
  <2>3. Threat(task[s]) = {} /\ Threat(task'[s]) = {} /\ ~Writing(task'[s])
    BY <1>1, <2>1 DEF Threat, Writing, ClearOps
  <2>4. record[x] = Whole(m) /\ x \in Records /\ x \in record_ID' /\ m \in RecordValues \ {0}
    BY <1>3, <1>5 DEF SameBytes
  <2>5. \A i : Threatened(i)' => \E r \in Senders : r # s /\ i \in Threat(task[r])
    BY <2>1, <2>3 DEF Threatened
  <2>6. ASSUME NEW n, Safe(n)
        PROVE  Safe(n)'
    <3>1. PICK i \in Records : record[i] = Whole(n) /\ i \in record_ID /\ ~Threatened(i)
      BY <1>1, <2>6 DEF Safe
    <3>2. ~Threatened(i)'
      BY <2>5, <3>1 DEF Threatened
    <3>3. record'[i] = Whole(n) /\ i \in record_ID'
      BY <1>1, <1>5, <3>1
    <3> QED BY <3>2, <3>3 DEF Safe
  <2>7. Owed' \subseteq Owed \cup {m}
    BY <1>1, <2>1 DEF Owed
  <2>8. ~Safe(m)' => Threatened(x)'
    BY <1>1, <2>4 DEF Safe
  <2>9. Threatened(x)' => Conflict
    BY <1>1, <2>5 DEF Conflict
  <2>10. ~Conflict'
    <3>1. \A r, q \in Senders : r # q /\ Writing(task'[r]) /\ task'[r].id \in Threat(task'[q]) => FALSE
      <4> SUFFICES ASSUME NEW r \in Senders, NEW q \in Senders, r # q, Writing(task'[r]),
                          task'[r].id \in Threat(task'[q])
                   PROVE  FALSE
        OBVIOUS
      <4>1. r # s
        BY <2>3
      <4>2. q = s
        BY <4>1, OneOther
      <4> QED BY <2>3, <4>2
    <3> QED BY <3>1 DEF Conflict, Writing
  <2>11. Costs <= Costs'
    BY <2>2, SenderCosts
  <2>12. RiskBound'
    <3>1. CASE Safe(m)'
      <4>1. AtRisk' \subseteq AtRisk
        BY <2>6, <2>7, <2>10, <3>1 DEF AtRisk
      <4> QED BY <2>11, <4>1, NoMoreRisk DEF RecordInv
    <3>2. CASE ~Safe(m)'
      <4>1. 0 \in AtRisk
        BY <2>8, <2>9, <3>2 DEF AtRisk
      <4>2. 0 \notin Owed'
        BY RisksFinite
      <4>3. AtRisk' \subseteq (AtRisk \ {0}) \cup {m}
        BY <2>6, <2>7, <2>10, <4>2 DEF AtRisk
      <4> QED BY <2>4, <2>11, <4>1, <4>3, ConflictDecided DEF RecordInv
    <3> QED BY <3>1, <3>2
  <2>13. NumberInv'
    <3>1. ASSUME NumberTrue, task[s].op # "number" => Cardinality(record_ID) = record_Total_num
          PROVE  /\ task'[s].op \in AddOps => task'[s].num = record_Total_num'
                 /\ Writing(task'[s]) => task'[s].id \notin record_ID'
                 /\ Cardinality(record_ID') = record_Total_num' + (IF task'[s].op = "number" THEN 1 ELSE 0)
      <4>1. task[s].num = record_Total_num /\ x \notin record_ID
        BY <1>1, <3>1 DEF NumberTrue
      <4>2. IsFiniteSet(record_ID)
        BY IdsFinite DEF TypeInv, ListsOK
      <4>3. Cardinality(record_ID') = Cardinality(record_ID) + 1
        BY <1>5, <4>1, <4>2, FS_AddElement
      <4> QED BY <1>1, <2>1, <2>3, <3>1, <4>1, <4>3
    <3> QED BY <2>2, <3>1, StepKeepsNumber DEF RecordInv
  <2> QED BY <2>12, <2>13 DEF RecordInv
<1> QED BY <1>4, <1>5 DEF RecordCompare

LEMMA RecordNumberRecords ==
    ASSUME TypeInv, TypeInv', RecordInv, NEW s \in Senders, RecordNumber(s)
    PROVE  RecordInv'
<1>1. /\ up = "on" /\ up' = up /\ task[s].op = "number" /\ task[s].op \in AddOps /\ End(s)
      /\ UNCHANGED <<record, record_ID>>
      /\ ackedRecords' = ackedRecords \cup {task[s].n} /\ record_Total_num' = NewNumber(s)
  BY DEF RecordNumber, At, AddOps
<1>2. task'[s] = Idle /\ task'[s].op = "idle" /\ \A r \in Senders : r # s => task'[r] = task[r]
  BY <1>1, EndFacts, IdleTyped DEF TypeInv
<1>3. count'.misreads = count.misreads /\ count'.overlaps = count.overlaps
  <2>1. CASE \E w, ok \in BOOLEAN : Save(w, ok, count)
    BY <2>1, SaveFaults DEF TypeInv
  <2>2. CASE count' = count
    BY <2>2
  <2> QED BY <2>1, <2>2 DEF RecordNumber
<1>4. SenderStep(s)
  BY <1>1, <1>2, <1>3, StepEffect
<1>5. Threat(task'[s]) = {} /\ ~Writing(task'[s])
  BY <1>2 DEF Threat, Writing, ClearOps
<1>6. Owed' \subseteq Owed
  BY <1>1, <1>2 DEF Owed
<1>7. RiskBound'
  BY <1>1, <1>4, <1>5, <1>6, StepKeepsRisk DEF RecordInv
<1>8. NumberInv'
  <2>1. ASSUME NumberTrue, task[s].op = "number" => Cardinality(record_ID) = record_Total_num + 1
        PROVE  /\ task'[s].op \in AddOps => task'[s].num = record_Total_num'
               /\ Writing(task'[s]) => task'[s].id \notin record_ID'
               /\ Cardinality(record_ID') = record_Total_num' + (IF task'[s].op = "number" THEN 1 ELSE 0)
    <3>1. task[s].num = record_Total_num
      BY <1>1, <2>1 DEF NumberTrue
    <3>2. record_Total_num \in Nat /\ Cardinality(record_ID) \in 0..RecMax
      <4>1. record_ID \subseteq Records /\ record_Total_num \in Nat
        BY ConstantFacts DEF TypeInv, ListsOK
      <4> QED BY <4>1, IdsFinite
    <3>3. record_Total_num' = record_Total_num + 1
      BY <1>1, <2>1, <3>1, <3>2, ConstantFacts DEF NewNumber
    <3> QED BY <1>1, <1>2, <1>5, <2>1, <3>2, <3>3 DEF AddOps
  <2> QED BY <1>4, <2>1, StepKeepsNumber DEF RecordInv
<1> QED BY <1>7, <1>8 DEF RecordInv

(* The number is right for a command that adds no record. *)
LEMMA OtherNumber ==
    ASSUME TypeInv, RecordInv, NEW s \in Senders, SenderStep(s),
           {task[s].op, task'[s].op} \cap AddOps = {},
           Cardinality(record_ID) = record_Total_num => Cardinality(record_ID') = record_Total_num',
           record_Total_num' \in Nat
    PROVE  NumberInv'
<1>1. ASSUME task[s].op # "number" => Cardinality(record_ID) = record_Total_num
      PROVE  /\ task'[s].op \in AddOps => task'[s].num = record_Total_num'
             /\ Writing(task'[s]) => task'[s].id \notin record_ID'
             /\ Cardinality(record_ID') = record_Total_num' + (IF task'[s].op = "number" THEN 1 ELSE 0)
  <2>1. /\ task[s].op # "number" /\ task'[s].op # "number" /\ task'[s].op \notin AddOps
        /\ ~Writing(task'[s])
    BY DEF AddOps, Writing
  <2>2. Cardinality(record_ID') = record_Total_num'
    BY <1>1, <2>1
  <2>3. record_Total_num' = record_Total_num' + 0
    <3>1. \A n \in Nat : n = n + 0
      OBVIOUS
    <3>2. record_Total_num' \in Nat
      OBVIOUS
    <3> QED BY <3>1, <3>2
  <2>4. (IF task'[s].op = "number" THEN 1 ELSE 0) = 0
    BY <2>1
  <2> QED BY <2>1, <2>2, <2>3, <2>4
<1> QED BY <1>1, StepKeepsNumber DEF RecordInv

(* Records that are to be deleted are not owed any more. *)
LEMMA DelAntennaRecordRecords ==
    ASSUME TypeInv, TypeInv', RecordInv, NEW s \in Senders, NEW ids \in SUBSET Records,
           DelAntennaRecord(s, ids)
    PROVE  RecordInv'
<1> DEFINE t == [Idle EXCEPT !.op = "unlist", !.todo = ids]
<1>1. /\ Begin(s, "delrec", t) /\ up' = up /\ UNCHANGED <<record, record_ID, record_Total_num>>
      /\ ackedRecords' = ackedRecords \ {record[i][1] : i \in ids}
  BY DEF DelAntennaRecord, eepromVars, recordVars
<1>2. t.op = "unlist" /\ t.todo = ids
  <2>1. "unlist" \in Ops /\ ids \in SUBSET Nat
    BY ConstantFacts DEF Ops
  <2> QED BY <2>1, IdleTyped, Zenon DEF TaskState
<1> HIDE DEF t
<1>3. SenderStep(s) /\ task[s] = Idle /\ task[s].op = "idle" /\ task'[s] = t
  BY <1>1, BeginEffect, IdleTyped
<1>4. up = "on" /\ up' = "on" /\ \A r \in Senders : r # s => task'[r] = task[r]
  BY <1>3 DEF SenderStep
<1>5. Threat(task'[s]) = ids
  BY <1>2, <1>3 DEF Threat, ClearOps
<1>6. Owed' \subseteq Owed
  BY <1>1, <1>2, <1>3, <1>4 DEF Owed
<1>7. ASSUME NEW n \in ackedRecords', Safe(n)
      PROVE  Safe(n)'
  <2>1. PICK i \in Records : record[i] = Whole(n) /\ i \in record_ID /\ ~Threatened(i)
    BY <1>4, <1>7 DEF Safe
  <2>2. i \notin ids
    BY <1>1, <1>7, <2>1 DEF Whole
  <2>3. \A r \in Senders : i \notin Threat(task'[r])
    BY <1>4, <1>5, <2>1, <2>2 DEF Threatened
  <2> QED BY <1>1, <2>1, <2>3 DEF Safe, Threatened
<1>8. RiskBound'
  <2>1. CASE \A r \in Senders : r # s => task[r] = Idle /\ task'[r] = Idle
    <3>1. ~Conflict'
      BY <1>2, <1>3, <2>1, IdleTyped DEF Conflict
    <3>2. Owed' = ackedRecords'
      BY <1>2, <1>3, <2>1, IdleTyped DEF Owed
    <3>3. AtRisk' \subseteq AtRisk
      BY <1>6, <1>7, <3>1, <3>2 DEF AtRisk
    <3> QED BY <1>3, <3>3, NoMoreRisk, SenderCosts DEF RecordInv
  <2>2. CASE Costs' = Costs + 1 /\ \E r \in Senders : r # s /\ task[r].op = "number"
    <3> PICK r \in Senders : r # s /\ task[r].op = "number"
      BY <2>2
    <3>1. \A q \in Senders : q = s \/ q = r
      BY OneOther
    <3>2. ~Conflict'
      BY <1>2, <1>3, <1>4, <3>1 DEF Conflict
    <3> PICK m : m = task[r].n
      OBVIOUS
    <3>3. m \in RecordValues
      BY WritesRecord DEF AddOps
    <3>4. Owed' \subseteq ackedRecords' \cup {m}
      BY <1>2, <1>3, <1>4, <3>1 DEF Owed
    <3>5. AtRisk' \subseteq AtRisk \cup {m}
      BY <1>6, <1>7, <3>2, <3>4 DEF AtRisk
    <3>6. Costs' >= Costs + 1
      BY <2>2, RisksFinite
    <3> QED BY <3>3, <3>5, <3>6, OneMoreRisk DEF RecordInv
  <2>3. CASE Costs' = Costs + 1 /\ ~ \E r \in Senders : r # s /\ task[r].op = "number"
    <3>1. Owed' = ackedRecords'
      BY <1>2, <1>3, <1>4, <2>3 DEF Owed
    <3>2. AtRisk' \subseteq AtRisk \cup {0}
      BY <1>6, <1>7, <3>1 DEF AtRisk
    <3>3. Costs' >= Costs + 1
      BY <2>3, RisksFinite
    <3> QED BY <3>2, <3>3, OneMoreRisk, RisksFinite DEF RecordInv
  <2> QED BY <1>3, <2>1, <2>2, <2>3, BeginCosts
<1>9. NumberInv'
  <2>1. record_Total_num' \in Nat
    BY <1>1, ConstantFacts DEF TypeInv, ListsOK
  <2>2. {task[s].op, task'[s].op} \cap AddOps = {}
    BY <1>2, <1>3 DEF AddOps
  <2> QED BY <1>1, <1>3, <2>1, <2>2, OtherNumber
<1> QED BY <1>8, <1>9 DEF RecordInv

LEMMA DelRecordRecords ==
    ASSUME TypeInv, TypeInv', RecordInv, NEW s \in Senders, NEW i \in Records, DelRecord(s, i)
    PROVE  RecordInv'
<1>1. /\ up = "on" /\ up' = up /\ task[s].op = "unlist" /\ i \in task[s].todo
      /\ UNCHANGED <<record, ackedRecords, count>>
  BY DEF DelRecord, At, eepromVars, clientVars
<1>2. task[s] \in TaskState /\ task[s].todo \subseteq Nat /\ task \in [Senders -> TaskState]
  BY TaskFields DEF TypeInv, TasksOK
<1> DEFINE rest == task[s].todo \ {i}
           u == [task[s] EXCEPT !.op = "wipe", !.id = i, !.todo = rest]
           v == [task[s] EXCEPT !.todo = rest]
<1>3. rest \in SUBSET Nat /\ "wipe" \in Ops /\ i \in 0..MaxId
  BY <1>2, ConstantFacts DEF Ops
<1>4. u.op = "wipe" /\ u.id = i /\ u.todo = rest
  <2> HIDE DEF rest
  <2> QED BY <1>2, <1>3, Zenon DEF TaskState
<1>5. v.op = "unlist" /\ v.todo = rest
  <2> HIDE DEF rest
  <2> QED BY <1>1, <1>2, <1>3, Zenon DEF TaskState
<1>6. \/ /\ task' = [task EXCEPT ![s] = u] /\ i \in record_ID
         /\ record_ID' = record_ID \ {i} /\ record_Total_num' = Less(record_Total_num)
      \/ task' = [task EXCEPT ![s] = v] /\ UNCHANGED <<record_ID, record_Total_num>>
  <2>1. CASE /\ i \in record_ID /\ record_ID' = record_ID \ {i}
             /\ record_Total_num' = Less(record_Total_num)
             /\ task' = [task EXCEPT ![s].op = "wipe", ![s].id = i, ![s].todo = @ \ {i}]
    <3>1. task' = [task EXCEPT ![s] = u]
      BY <1>2, <2>1, Zenon
    <3> QED BY <2>1, <3>1
  <2>2. CASE task' = [task EXCEPT ![s].todo = @ \ {i}] /\ UNCHANGED recordVars
    BY <2>2 DEF recordVars
  <2> QED BY <2>1, <2>2 DEF DelRecord
<1> HIDE DEF u, v
<1>7. task'[s] \in {u, v} /\ \A r \in Senders : r # s => task'[r] = task[r]
  BY <1>2, <1>6
<1>8. SenderStep(s)
  BY <1>1, <1>7, StepEffect
<1>9. Threat(task[s]) = task[s].todo /\ Threat(task'[s]) \subseteq task[s].todo
  <2>1. Threat(u) \subseteq task[s].todo
    BY <1>1, <1>4 DEF Threat, ClearOps
  <2>2. Threat(v) \subseteq task[s].todo
    BY <1>5 DEF Threat, ClearOps
  <2> QED BY <1>1, <1>7, <2>1, <2>2 DEF Threat, ClearOps
<1>10. ~Writing(task'[s]) /\ {task[s].op, task'[s].op} \cap AddOps = {}
  BY <1>1, <1>4, <1>5, <1>7 DEF Writing, AddOps
<1>11. Owed' \subseteq Owed
  BY <1>1, <1>7, <1>10 DEF Owed, AddOps
<1>12. RiskBound'
  BY <1>1, <1>6, <1>8, <1>9, <1>10, <1>11, StepKeepsRisk DEF RecordInv
<1>13. NumberInv'
  <2>1. record_Total_num \in Nat /\ record_Total_num' \in Nat
    BY ConstantFacts DEF TypeInv, ListsOK
  <2>2. ASSUME Cardinality(record_ID) = record_Total_num
        PROVE  Cardinality(record_ID') = record_Total_num'
    <3>1. IsFiniteSet(record_ID)
      BY IdsFinite DEF TypeInv, ListsOK
    <3>2. CASE i \in record_ID /\ record_ID' = record_ID \ {i} /\ record_Total_num' = Less(record_Total_num)
      <4>1. Cardinality(record_ID') = record_Total_num - 1
        BY <2>2, <3>1, <3>2, FS_RemoveElement
      <4>2. record_Total_num # 0
        BY <2>2, <3>1, <3>2, FS_EmptySet
      <4> QED BY <2>1, <3>2, <4>1, <4>2 DEF Less
    <3>3. CASE UNCHANGED <<record_ID, record_Total_num>>
      BY <2>2, <3>3
    <3> QED BY <1>6, <3>2, <3>3
  <2> QED BY <1>8, <1>10, <2>1, <2>2, OtherNumber
<1> QED BY <1>12, <1>13 DEF RecordInv

LEMMA WipeRecordRecords ==
    ASSUME TypeInv, TypeInv', RecordInv, NEW s \in Senders, WipeRecord(s)
    PROVE  RecordInv'
<1> PICK w \in BOOLEAN, ok \in BOOLEAN :
          Save(w, ok, count) /\ record' = (IF w THEN [record EXCEPT ![task[s].id] = None] ELSE record)
  BY DEF WipeRecord
<1>1. /\ up = "on" /\ up' = up /\ task[s].op = "wipe" /\ Goto(s, "unlist")
      /\ UNCHANGED <<record_ID, record_Total_num, ackedRecords>>
  BY DEF WipeRecord, At, recordVars, clientVars
<1>2. /\ task'[s].op = "unlist" /\ task'[s].todo = task[s].todo
      /\ \A r \in Senders : r # s => task'[r] = task[r]
  <2>1. "unlist" \in Ops
    BY DEF Ops
  <2> QED BY <1>1, <2>1, GotoEffect
<1>3. count'.misreads = count.misreads /\ count'.overlaps = count.overlaps
  BY SaveFaults DEF TypeInv
<1>4. SenderStep(s)
  BY <1>1, <1>2, <1>3, StepEffect
<1>5. Threat(task[s]) = task[s].todo \cup {task[s].id} /\ Threat(task'[s]) = task[s].todo
  BY <1>1, <1>2 DEF Threat, ClearOps
<1>6. ~Writing(task'[s]) /\ {task[s].op, task'[s].op} \cap AddOps = {}
  BY <1>1, <1>2 DEF Writing, AddOps
<1>7. \A i \in Records : i \notin Threat(task[s]) => record'[i] = record[i]
  BY <1>5 DEF TypeInv, StoresOK
<1>8. Owed' \subseteq Owed
  BY <1>1, <1>2 DEF Owed
<1>9. RiskBound'
  BY <1>1, <1>4, <1>5, <1>6, <1>7, <1>8, StepKeepsRisk DEF RecordInv
<1>10. record_Total_num' \in Nat
  BY <1>1, ConstantFacts DEF TypeInv, ListsOK
<1>11. NumberInv'
  BY <1>1, <1>4, <1>6, <1>10, OtherNumber
<1> QED BY <1>9, <1>11 DEF RecordInv

LEMMA DelRecordEndRecords ==
    ASSUME TypeInv, TypeInv', RecordInv, NEW s \in Senders, DelRecordEnd(s)
    PROVE  RecordInv'
<1>1. /\ up = "on" /\ up' = up /\ task[s].op = "unlist" /\ End(s)
      /\ UNCHANGED <<record, record_ID, record_Total_num, ackedRecords, count>>
  BY DEF DelRecordEnd, At, eepromVars, recordVars, clientVars
<1>2. task'[s].op = "idle" /\ \A r \in Senders : r # s => task'[r] = task[r]
  BY <1>1, EndFacts, IdleTyped DEF TypeInv
<1>3. SenderStep(s)
  BY <1>1, <1>2, StepEffect
<1>4. Threat(task'[s]) = {}
  BY <1>2 DEF Threat, ClearOps
<1>5. ~Writing(task'[s]) /\ {task[s].op, task'[s].op} \cap AddOps = {}
  BY <1>1, <1>2 DEF Writing, AddOps
<1>6. Owed' \subseteq Owed
  BY <1>1, <1>2 DEF Owed
<1>7. RiskBound'
  BY <1>1, <1>3, <1>4, <1>5, <1>6, StepKeepsRisk DEF RecordInv
<1>8. record_Total_num' \in Nat
  BY <1>1, ConstantFacts DEF TypeInv, ListsOK
<1>9. NumberInv'
  BY <1>1, <1>3, <1>5, <1>8, OtherNumber
<1> QED BY <1>7, <1>9 DEF RecordInv

(* All records are given up, but for the one that the panel is adding. *)
LEMMA AdjustRecords ==
    ASSUME TypeInv, TypeInv', RecordInv, NEW k, ClearRecords(k)
    PROVE  RecordInv'
<1> DEFINE t == [Idle EXCEPT !.op = "clear", !.todo = Records]
<1>0. "pc" \in Senders
  BY ConstantFacts
<1>1. /\ Begin("pc", k, t) /\ up' = up /\ record_ID' = {} /\ record_Total_num' = 0
      /\ ackedRecords' = {}
  BY DEF ClearRecords
<1>2. t.op = "clear" /\ t.todo = Records
  <2>1. "clear" \in Ops /\ Records \in SUBSET Nat
    BY ConstantFacts DEF Ops, ClearOps
  <2> QED BY <2>1, IdleTyped, Zenon DEF TaskState
<1> HIDE DEF t
<1>3. SenderStep("pc") /\ task["pc"] = Idle /\ task["pc"].op = "idle" /\ task'["pc"].op = "clear"
  BY <1>0, <1>1, <1>2, BeginEffect, IdleTyped
<1>4. \A r \in Senders : r # "pc" => task'[r] = task[r]
  BY <1>3 DEF SenderStep
<1>5. RiskBound'
  <2>1. CASE \A r \in Senders : r # "pc" => task[r] = Idle /\ task'[r] = Idle
    <3>1. ~Conflict' /\ Owed' = {}
      BY <1>1, <1>3, <2>1, IdleTyped DEF Conflict, Owed
    <3>2. AtRisk' \subseteq AtRisk
      BY <3>1 DEF AtRisk
    <3> QED BY <1>0, <1>3, <3>2, NoMoreRisk, SenderCosts DEF RecordInv
  <2>2. CASE Costs' = Costs + 1 /\ \E r \in Senders : r # "pc" /\ task[r].op = "number"
    <3> PICK r \in Senders : r # "pc" /\ task[r].op = "number"
      BY <2>2
    <3>1. \A q \in Senders : q = "pc" \/ q = r
      BY <1>0, OneOther
    <3>2. ~Conflict'
      BY <1>3, <1>4, <3>1 DEF Conflict
    <3> PICK m : m = task[r].n
      OBVIOUS
    <3>3. m \in RecordValues
      BY WritesRecord DEF AddOps
    <3>4. Owed' \subseteq {m}
      BY <1>1, <1>3, <1>4, <3>1 DEF Owed
    <3>5. AtRisk' \subseteq AtRisk \cup {m}
      BY <3>2, <3>4 DEF AtRisk
    <3>6. Costs' >= Costs + 1
      BY <2>2, RisksFinite
    <3> QED BY <3>3, <3>5, <3>6, OneMoreRisk DEF RecordInv
  <2>3. CASE Costs' = Costs + 1 /\ ~ \E r \in Senders : r # "pc" /\ task[r].op = "number"
    <3>1. Owed' = {}
      BY <1>1, <1>3, <1>4, <2>3 DEF Owed
    <3>2. AtRisk' \subseteq AtRisk \cup {0}
      BY <3>1 DEF AtRisk
    <3>3. Costs' >= Costs + 1
      BY <2>3, RisksFinite
    <3> QED BY <3>2, <3>3, OneMoreRisk, RisksFinite DEF RecordInv
  <2> QED BY <1>0, <1>3, <2>1, <2>2, <2>3, BeginCosts
<1>6. NumberInv'
  <2>1. record_Total_num' \in Nat /\ Cardinality(record_ID') = record_Total_num'
    BY <1>1, FS_EmptySet
  <2>2. {task["pc"].op, task'["pc"].op} \cap AddOps = {}
    BY <1>3 DEF AddOps
  <2> QED BY <1>0, <1>3, <2>1, <2>2, OtherNumber
<1> QED BY <1>5, <1>6 DEF RecordInv

(* The clearing touches what it was to clear. *)
LEMMA ClearingRecords ==
    ASSUME TypeInv, TypeInv', RecordInv, ClearNumber \/ ClearRecord
    PROVE  RecordInv'
<1>0. "pc" \in Senders
  BY ConstantFacts
<1>1. /\ up = "on" /\ up' = up /\ task["pc"].op \in ClearOps
      /\ UNCHANGED <<record_ID, record_Total_num, ackedRecords>>
  BY DEF ClearNumber, ClearRecord, At, recordVars, clientVars, ClearOps
<1>2. /\ \E w, ok \in BOOLEAN : Save(w, ok, count)
      /\ \A i \in Records : i \notin task["pc"].todo => record'[i] = record[i]
      /\ \A r \in Senders : r # "pc" => task'[r] = task[r]
      /\ \/ task'["pc"].op = "idle"
         \/ task'["pc"].op = "clearall" /\ task'["pc"].todo \subseteq task["pc"].todo
  <2>1. CASE ClearNumber
    <3>1. "clearall" \in Ops
      BY DEF Ops, ClearOps
    <3>2. Goto("pc", "clearall") /\ record' = record /\ \E w, ok \in BOOLEAN : Save(w, ok, count)
      BY <2>1 DEF ClearNumber
    <3>3. /\ task'["pc"].op = "clearall" /\ task'["pc"].todo = task["pc"].todo
          /\ \A r \in Senders : r # "pc" => task'[r] = task[r]
      BY <1>0, <3>1, <3>2, GotoEffect
    <3> QED BY <3>2, <3>3
  <2>2. CASE ClearRecord
    <3> DEFINE i == Min(task["pc"].todo)
    <3> PICK w \in BOOLEAN, ok \in BOOLEAN :
          /\ Save(w, ok, count)
          /\ record' = IF w THEN [record EXCEPT ![i] = None] ELSE record
          /\ IF task["pc"].todo = {i} THEN End("pc")
             ELSE task' = [task EXCEPT !["pc"].todo = @ \ {i}]
      BY <2>2 DEF ClearRecord
    <3>1. task["pc"] \in TaskState /\ task["pc"].todo \subseteq Nat /\ task["pc"].todo # {}
      BY <1>0, <1>1, TaskFields DEF TypeInv, TasksOK, Typed
    <3>2. i \in task["pc"].todo
      BY <3>1, MinIn
    <3> HIDE DEF i
    <3>3. \A j \in Records : j \notin task["pc"].todo => record'[j] = record[j]
      BY <3>2 DEF TypeInv, StoresOK
    <3>4. CASE task["pc"].todo = {i}
      BY <1>0, <3>3, <3>4, EndFacts, IdleTyped DEF TypeInv
    <3>5. CASE task["pc"].todo # {i}
      <4> DEFINE S == task["pc"].todo \ {i}
                 u == [task["pc"] EXCEPT !.todo = S]
      <4>1. S \in SUBSET Nat
        BY <3>1
      <4>2. u.op = task["pc"].op /\ u.todo = S
        <5> HIDE DEF S
        <5> QED BY <3>1, <4>1, Zenon DEF TaskState
      <4>3. task' = [task EXCEPT !["pc"] = u]
        BY <3>5
      <4> HIDE DEF u
      <4>4. task'["pc"] = u /\ \A r \in Senders : r # "pc" => task'[r] = task[r]
        BY <1>0, <4>3 DEF TypeInv, TasksOK
      <4>5. task["pc"].op = "clearall"
        BY <2>2 DEF ClearRecord, At
      <4> QED BY <3>3, <4>2, <4>4, <4>5
    <3> QED BY <3>4, <3>5
  <2> QED BY <2>1, <2>2
<1>3. count'.misreads = count.misreads /\ count'.overlaps = count.overlaps
  BY <1>2, SaveFaults DEF TypeInv
<1>4. SenderStep("pc")
  BY <1>0, <1>1, <1>2, <1>3, StepEffect DEF ClearOps
<1>5. Threat(task["pc"]) = task["pc"].todo /\ Threat(task'["pc"]) \subseteq task["pc"].todo
  BY <1>1, <1>2 DEF Threat, ClearOps
<1>6. ~Writing(task'["pc"]) /\ {task["pc"].op, task'["pc"].op} \cap AddOps = {}
  BY <1>1, <1>2 DEF Writing, AddOps, ClearOps
<1>7. Owed' \subseteq Owed
  BY <1>1, <1>2 DEF Owed
<1>8. RiskBound'
  BY <1>0, <1>1, <1>2, <1>4, <1>5, <1>6, <1>7, StepKeepsRisk DEF RecordInv
<1>9. record_Total_num' \in Nat
  BY <1>1, ConstantFacts DEF TypeInv, ListsOK
<1>10. NumberInv'
  BY <1>0, <1>1, <1>4, <1>6, <1>9, OtherNumber
<1> QED BY <1>8, <1>10 DEF RecordInv

-----------------------------------------------------------------------------
(* Power failures and starts.                                              *)

(* No command runs. *)
LEMMA NoneRuns ==
    /\ (\A s \in Senders : task[s] = Idle) => ~Conflict /\ Owed = ackedRecords /\ \A i : ~Threatened(i)
    /\ (\A s \in Senders : task'[s] = Idle) =>
          ~Conflict' /\ Owed' = ackedRecords' /\ \A i : ~Threatened(i)'
<1>1. Idle.op = "idle" /\ Threat(Idle) = {}
  BY IdleTyped DEF Threat, ClearOps
<1> QED BY <1>1 DEF Conflict, Owed, Threatened

LEMMA CrashRecords ==
    ASSUME TypeInv, TypeInv', RecordInv, Crash
    PROVE  RecordInv'
<1> DEFINE o == IF \E s \in Senders : task[s] # Idle THEN 1 ELSE 0
<1>1. /\ count' = [count EXCEPT !.restarts = count.restarts + 1, !.torn = count.torn + o]
      /\ task' = [s \in Senders |-> Idle] /\ up' = "sats"
      /\ record' = record /\ ackedRecords' = ackedRecords /\ record_ID' = {} /\ record_Total_num' = 0
  BY DEF Crash, eepromVars, clientVars
<1> HIDE DEF o
<1>2. count'.misreads = count.misreads /\ count'.overlaps = count.overlaps
  BY <1>1, Zenon DEF TypeInv, CountsOK, CountState
<1>3. \A s \in Senders : task'[s] = Idle
  BY <1>1
<1>4. ~Conflict' /\ Owed' = ackedRecords'
  BY <1>3, NoneRuns
<1>5. ASSUME NEW n, Safe(n)
      PROVE  Safe(n)'
  BY <1>1, <1>5 DEF Safe
<1>6. AtRisk' \subseteq AtRisk
  BY <1>1, <1>4, <1>5 DEF AtRisk, Owed
<1>7. Costs' = Costs /\ Costs \in Nat
  BY <1>2, RisksFinite DEF Costs
<1>8. RiskBound'
  BY <1>6, <1>7, NoMoreRisk DEF RecordInv
<1>9. NumberInv'
  <2>1. Cardinality(record_ID') = 0
    BY <1>1, FS_EmptySet
  <2> QED BY <1>1, <1>3, <2>1, IdleTyped DEF NumberInv, OneCommand, NumberTrue, AddOps
<1> QED BY <1>8, <1>9 DEF RecordInv

(* A step that leaves the records and the commands alone. *)
LEMMA QuietRecords ==
    ASSUME TypeInv, TypeInv', RecordInv,
           UNCHANGED <<record, record_ID, record_Total_num, ackedRecords, task>>,
           up = "on" <=> up' = "on",
           Costs <= Costs', count'.overlaps = count.overlaps
    PROVE  RecordInv'
<1>1. Conflict' = Conflict /\ Owed' = Owed
  BY DEF Conflict, Owed
<1>2. \A n : Safe(n) => Safe(n)'
  BY DEF Safe, Threatened
<1>3. AtRisk' \subseteq AtRisk
  BY <1>1, <1>2 DEF AtRisk
<1>4. RiskBound'
  BY <1>3, NoMoreRisk DEF RecordInv
<1>5. NumberInv'
  BY DEF RecordInv, NumberInv, OneCommand, NumberTrue
<1> QED BY <1>4, <1>5 DEF RecordInv

(* What is stored under ids is not more than the ids. *)
LEMMA RecordsCount ==
    ASSUME NEW D, D \subseteq Records, NEW f, NEW A, A \subseteq RecordValues,
           {f[i] : i \in D} \subseteq RecordValues, NEW T, T \subseteq A \cup {f[i] : i \in D}
    PROVE  Cardinality(T) <= Cardinality(A) + Cardinality(D)
<1> DEFINE H == {f[i] : i \in D}
           g == [i \in D |-> f[i]]
<1>1. g \in Surjection(D, H)
  BY DEF Surjection
<1>2. IsFiniteSet(D) /\ Cardinality(D) \in 0..RecMax
  BY IdsFinite
<1>3. T \subseteq A \cup H /\ H \subseteq RecordValues
  OBVIOUS
<1> HIDE DEF H, g
<1>4. IsFiniteSet(A) /\ Cardinality(A) \in Nat /\ IsFiniteSet(H) /\ Cardinality(H) \in Nat
  BY <1>3, RisksFinite
<1>5. Cardinality(H) <= Cardinality(D)
  BY <1>1, <1>2, FS_Surjection
<1>6. A \cup H \subseteq RecordValues /\ A \cap H \subseteq RecordValues /\ T \subseteq RecordValues
  BY <1>3
<1>7. Cardinality(A \cup H) = Cardinality(A) + Cardinality(H) - Cardinality(A \cap H)
  BY <1>4, FS_Union
<1>8. Cardinality(A \cap H) \in Nat /\ IsFiniteSet(A \cup H) /\ Cardinality(A \cup H) \in Nat
      /\ Cardinality(T) \in Nat
  BY <1>6, RisksFinite
<1>9. Cardinality(T) <= Cardinality(A \cup H)
  BY <1>3, <1>8, FS_Subset
<1> QED BY <1>2, <1>4, <1>5, <1>7, <1>8, <1>9

(* A start lists every record that it can read. *)
LEMMA InitRecordsRecords ==
    ASSUME TypeInv, TypeInv', RecordInv, InitRecords
    PROVE  RecordInv'
<1> PICK bad \in SUBSET StoredRecords, w \in BOOLEAN, ok \in BOOLEAN :
        /\ record_ID' = StoredRecords \ bad
        /\ record_Total_num' = Cardinality(StoredRecords \ bad)
        /\ Save(w, ok, Misread(bad)) \/ count' = Misread(bad)
  BY DEF InitRecords
<1>1. /\ up = "records" /\ up' = "on" /\ UNCHANGED <<record, ackedRecords, task>>
      /\ \A s \in Senders : task[s] = Idle /\ task'[s] = Idle
  BY DEF InitRecords, clientVars, TypeInv
<1>2. bad \subseteq Records /\ Cardinality(bad) \in Nat
  <2>1. bad \subseteq Records
    BY DEF StoredRecords
  <2>2. Cardinality(bad) \in 0..RecMax
    BY <2>1, IdsFinite
  <2> QED BY <2>1, <2>2
<1>3. count'.misreads = count.misreads + Cardinality(bad) /\ count'.overlaps = count.overlaps
  <2>1. /\ Misread(bad) \in CountState /\ Misread(bad).overlaps = count.overlaps
        /\ Misread(bad).misreads = count.misreads + Cardinality(bad)
    BY <1>2, MisreadCounts DEF TypeInv
  <2> QED BY <2>1, SaveCounts
<1>4. /\ ~Conflict /\ ~Conflict' /\ Owed = ackedRecords /\ Owed' = ackedRecords'
      /\ \A i : ~Threatened(i)'
  BY <1>1, NoneRuns
<1> DEFINE first == [i \in Records |-> record[i][1]]
<1>5. \A i \in Records : first[i] = record[i][1] /\ first[i] \in RecordValues
  BY DEF TypeInv, StoresOK
<1> HIDE DEF first
<1>6. ASSUME NEW n \in Owed', Safe(n), ~Safe(n)'
      PROVE  n \in {first[i] : i \in bad}
  <2>1. PICK i \in Records : record[i] = Whole(n)
    BY <1>6 DEF Safe
  <2>2. n # 0
    BY <1>6, RisksFinite
  <2>3. record[i][1] = n
    BY <2>1 DEF Whole
  <2>4. i \in StoredRecords
    BY <2>2, <2>3 DEF StoredRecords
  <2>5. i \notin record_ID'
    BY <1>1, <1>4, <1>6, <2>1 DEF Safe
  <2> QED BY <1>5, <2>3, <2>4, <2>5
<1>7. AtRisk' \subseteq AtRisk \cup {first[i] : i \in bad}
  BY <1>1, <1>4, <1>6 DEF AtRisk
<1>8. {first[i] : i \in bad} \subseteq RecordValues
  BY <1>2, <1>5
<1>9. Cardinality(AtRisk') <= Cardinality(AtRisk) + Cardinality(bad)
  BY <1>2, <1>7, <1>8, RecordsCount, RisksFinite
<1>10. RiskBound'
  <2>1. count.misreads \in Nat /\ count.overlaps \in Nat
    BY DEF TypeInv, CountsOK, CountState
  <2>2. Cardinality(AtRisk) \in Nat /\ Cardinality(AtRisk') \in Nat
    BY RisksFinite
  <2> QED BY <1>2, <1>3, <1>9, <2>1, <2>2 DEF RecordInv, RiskBound
<1>11. NumberInv'
  <2>1. record_Total_num' \in Nat /\ Cardinality(record_ID') = record_Total_num'
    BY ConstantFacts DEF TypeInv, ListsOK
  <2> QED BY <1>1, <2>1, IdleTyped DEF NumberInv, OneCommand, NumberTrue, AddOps
<1> QED BY <1>10, <1>11 DEF RecordInv

LEMMA InitSatsRecords ==
    ASSUME TypeInv, TypeInv', RecordInv, InitSats
    PROVE  RecordInv'
<1> PICK bad \in SUBSET Stored, w \in BOOLEAN, ok \in BOOLEAN :
        Save(w, ok, Misread(bad)) \/ count' = Misread(bad)
  BY DEF InitSats
<1>1. Cardinality(bad) \in Nat
  <2>1. bad \subseteq Sats
    BY DEF Stored
  <2>2. Cardinality(bad) \in 0..SatMax
    BY <2>1, IdsFinite
  <2> QED BY <2>2
<1>2. count'.misreads = count.misreads + Cardinality(bad) /\ count'.overlaps = count.overlaps
  <2>1. /\ Misread(bad) \in CountState /\ Misread(bad).overlaps = count.overlaps
        /\ Misread(bad).misreads = count.misreads + Cardinality(bad)
    BY <1>1, MisreadCounts DEF TypeInv
  <2> QED BY <2>1, SaveCounts
<1>3. Costs <= Costs'
  BY <1>1, <1>2 DEF Costs, TypeInv, CountsOK, CountState
<1>4. /\ up # "on" /\ up' # "on"
      /\ UNCHANGED <<record, record_ID, record_Total_num, ackedRecords, task>>
  BY DEF InitSats, recordVars, clientVars
<1> QED BY <1>2, <1>3, <1>4, QuietRecords

LEMMA InitSatsBlindRecords ==
    ASSUME TypeInv, TypeInv', RecordInv, InitSatsBlind
    PROVE  RecordInv'
<1>1. /\ up # "on" /\ up' # "on" /\ count' = [count EXCEPT !.blind = count.blind + 1]
      /\ UNCHANGED <<record, record_ID, record_Total_num, ackedRecords, task>>
  BY DEF InitSatsBlind, eepromVars, recordVars, clientVars
<1>2. count'.misreads = count.misreads /\ count'.overlaps = count.overlaps
  BY <1>1, Zenon DEF TypeInv, CountsOK, CountState
<1>3. Costs <= Costs'
  BY <1>2, RisksFinite DEF Costs
<1> QED BY <1>1, <1>2, <1>3, QuietRecords

-----------------------------------------------------------------------------
(* The theorems.                                                           *)

(* At the start the records acknowledged are stored. *)
LEMMA InitRecordInv == Init => RecordInv
<1> SUFFICES ASSUME Init PROVE RecordInv
  OBVIOUS
<1> PICK R \in IF "rec" \in kinds THEN SUBSET Records ELSE {{}} :
        /\ record = [i \in Records |-> IF i \in R THEN Whole(i) ELSE None]
        /\ record_num \in {Cardinality(R)} \cup (IF R = {} THEN {RecMax + 1} ELSE {})
        /\ ackedRecords = R
  BY DEF Init
<1>1. R \subseteq Records
  OBVIOUS
<1>2. /\ up = "sats" /\ record_ID = {} /\ record_Total_num = 0
      /\ count.misreads = 0 /\ count.overlaps = 0
      /\ \A s \in Senders : task[s] = Idle
  BY DEF Init
<1>3. ~Conflict /\ Owed = R
  BY <1>2, NoneRuns
<1>4. \A n \in R : Safe(n)
  BY <1>1, <1>2 DEF Safe
<1>5. AtRisk = {}
  BY <1>3, <1>4 DEF AtRisk
<1>6. RiskBound
  BY <1>2, <1>5, FS_EmptySet DEF RiskBound
<1>7. NumberInv
  BY <1>2, FS_EmptySet, IdleTyped DEF NumberInv, OneCommand, NumberTrue, AddOps
<1> QED BY <1>6, <1>7 DEF RecordInv

(* Every step about antenna records keeps what is at risk within bounds. *)
LEMMA RecordCommandRecords ==
    ASSUME TypeInv, TypeInv', RecordInv, RecordCommand
    PROVE  RecordInv'
<1>1. ASSUME NEW s \in Senders,
             \/ AntennaRecord(s) \/ RecordHead(s) \/ RecordTail(s) \/ RecordCompare(s) \/ RecordNumber(s)
             \/ \E ids \in SUBSET Records \ {{}} : DelAntennaRecord(s, ids)
             \/ \E i \in Records : DelRecord(s, i)
             \/ WipeRecord(s) \/ DelRecordEnd(s)
      PROVE  RecordInv'
  BY <1>1, AntennaRecordRecords, RecordWriteRecords, RecordCompareRecords, RecordNumberRecords,
     DelAntennaRecordRecords, DelRecordRecords, WipeRecordRecords, DelRecordEndRecords
<1>2. CASE AntennaParamAdjust \/ AntennaParamSet
  BY <1>2, AdjustRecords DEF AntennaParamAdjust, AntennaParamSet
<1>3. CASE AntennaParamAdjustFails
  <2>1. /\ UNCHANGED <<record, record_ID, record_Total_num, ackedRecords, task, up>>
        /\ count'.overlaps = count.overlaps /\ count'.misreads = count.misreads
    BY <1>3, AdjustFailsTypes DEF recordVars
  <2>2. Costs' = Costs /\ Costs \in Nat
    BY <2>1, RisksFinite DEF Costs
  <2> QED BY <2>1, <2>2, QuietRecords
<1>4. CASE ClearNumber \/ ClearRecord
  BY <1>4, ClearingRecords
<1> QED BY <1>1, <1>2, <1>3, <1>4, Zenon DEF RecordCommand

LEMMA NextRecords == TypeInv /\ RecordInv /\ [Next]_paramVars => RecordInv'
<1> SUFFICES ASSUME TypeInv, RecordInv, [Next]_paramVars PROVE RecordInv'
  OBVIOUS
<1>0. TypeInv'
  BY NextTypes
<1>1. CASE UNCHANGED paramVars
  <2>1. UNCHANGED <<record, record_ID, record_Total_num, ackedRecords, task, up, count>>
    BY <1>1 DEF paramVars, eepromVars, recordVars, clientVars
  <2>2. Costs' = Costs /\ Costs \in Nat
    BY <2>1, RisksFinite DEF Costs
  <2> QED BY <1>0, <2>1, <2>2, QuietRecords
<1>2. CASE Crash \/ InitSats \/ InitSatsBlind \/ InitRecords
  BY <1>0, <1>2, CrashRecords, InitSatsRecords, InitSatsBlindRecords, InitRecordsRecords
<1>3. CASE SatCommand
  BY <1>0, <1>3, SatCommandRecords
<1>4. CASE RecordCommand
  BY <1>0, <1>4, RecordCommandRecords
<1> QED BY <1>1, <1>2, <1>3, <1>4, Zenon DEF Next, Step, SatCommand, RecordCommand

(* What is lost or at risk is paid for by the misreads and overlaps so far *)
(* and the number of records is that of the list while none overlapped.    *)
THEOREM RecordsInductive == Spec => [](TypeInv /\ RecordInv)
<1>1. Init => TypeInv /\ RecordInv
  BY InitTypes, InitRecordInv
<1>2. TypeInv /\ RecordInv /\ [Next]_paramVars => (TypeInv /\ RecordInv)'
  BY NextTypes, NextRecords
<1> QED BY <1>1, <1>2, PTL DEF Spec

(* No power failure and no save that fails loses an antenna record that    *)
(* was acknowledged, because a start (APP_PARAM_Init) looks at every       *)
(* record: one that is missing was unreadable at a start, or a command of  *)
(* the other sender overlapped (APP_PCCOMM_AntennaRecord uses the id it    *)
(* chose after the save), and each of these costs one record at most.      *)
THEOREM AntennaRecordsKept == Spec => []RecordsKept
<1>1. TypeInv /\ RecordInv => RecordsKept
  <2> SUFFICES ASSUME TypeInv, RecordInv, up = "on"
               PROVE  Cardinality(LostRecords) <= Costs
    BY DEF RecordsKept, Costs
  <2>1. LostRecords \subseteq AtRisk
    BY DEF LostRecords, AtRisk, Owed, Safe
  <2>2. AtRisk \subseteq RecordValues /\ Costs \in Nat
    BY RisksFinite
  <2>3. /\ IsFiniteSet(AtRisk) /\ Cardinality(AtRisk) \in Nat
        /\ Cardinality(LostRecords) \in Nat
    BY <2>1, <2>2, RisksFinite
  <2>4. Cardinality(LostRecords) <= Cardinality(AtRisk)
    BY <2>1, <2>3, FS_Subset
  <2> QED BY <2>2, <2>3, <2>4 DEF RecordInv, RiskBound, Costs
<1> QED BY <1>1, RecordsInductive, PTL

(* Between commands the number of satellites is that of the list, but for  *)
(* the satellites that a change has listed without counting them           *)
(* (APP_PCCOMM_SatParamSet), whatever has failed; and the number of        *)
(* antenna records is that of the list while no commands overlapped:       *)
(* APP_PCCOMM_AntennaRecord then finds a free id whenever its test of the  *)
(* number lets it look for one.                                            *)
THEOREM NumbersAreRight == Spec => []NumbersAgree
<1>1. TypeInv /\ CountedInv /\ RecordInv => NumbersAgree
  <2> SUFFICES ASSUME TypeInv, CountedInv, RecordInv, AllIdle
               PROVE  /\ Cardinality(Sat_ID) - Sat_Total_num \in 0..count.stale
                      /\ count.overlaps = 0 => record_Total_num = Cardinality(record_ID)
    BY DEF NumbersAgree
  <2>1. up = "on" /\ \A s \in Senders : task[s].op = "idle"
    BY IdleTyped DEF AllIdle
  <2>2. Listing = 0 /\ Relisting = 0
    BY <2>1, ConstantFacts DEF Listing, Relisting, Pc
  <2>3. Cardinality(Sat_ID) \in Nat /\ Sat_Total_num \in Nat /\ count.stale \in Nat
    BY SatCards DEF TypeInv, ListsOK, CountsOK, CountState
  <2>4. Cardinality(Sat_ID) - Sat_Total_num \in 0..count.stale
    BY <2>1, <2>2, <2>3 DEF CountedInv
  <2>5. ASSUME count.overlaps = 0
        PROVE  record_Total_num = Cardinality(record_ID)
    <3>1. Cardinality(record_ID) = record_Total_num + 0
      BY <2>1, <2>5 DEF RecordInv, NumberInv, NumberTrue
    <3>2. record_Total_num \in Nat
      BY DEF TypeInv, ListsOK
    <3> QED BY <3>1, <3>2
  <2> QED BY <2>4, <2>5
<1> QED BY <1>1, CountsInductive, RecordsInductive, PTL
=============================================================================
