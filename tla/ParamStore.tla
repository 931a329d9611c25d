----------------------------- MODULE ParamStore -----------------------------
(***************************************************************************)
(* The satellites and the antenna records of the EEPROM                    *)
(* (APP/src/app_param_save_read.c, HW/hw_eeprom.c) and the commands that   *)
(* change them (APP/src/app_pccomm.c, and for the antenna records the      *)
(* panel's APP/src/app_oledcomm.c too).                                    *)
(*                                                                         *)
(* Each of the two lists is kept three times: as records in the EEPROM     *)
(* (record i counts if its first byte is i), as a number of records in the *)
(* EEPROM, and as an index and a number in RAM that APP_PARAM_Init builds. *)
(* The satellites are searched until their number is reached, the antenna  *)
(* records are all searched and their number is put right.                 *)
(*                                                                         *)
(* Power may fail between any two writes.  A save may return FAIL with or  *)
(* without its bytes having been written (the write, or the comparison     *)
(* behind it, failed), and a record or the number of satellites may not be *)
(* readable at a start.  A satellite or an antenna record is a number that *)
(* no other one has had.                                                   *)
(***************************************************************************)
EXTENDS Integers, FiniteSets, FiniteSetsExt

CONSTANTS
    SatMax,         \* SAT_MAX_NUM (100)
    RecMax,         \* ANTENNA_RECORD_MAX_NUM (10)
    Straddling,     \* antenna records that lie on two pages (7 and 10)
    Senders,        \* who sends commands: "pc", "panel"
    Sessions,       \* sets of kinds of commands: the senders use one of them
    MaxCmds,        \* bound: commands
    MaxRestarts,    \* bound: power failures
    MaxFails,       \* bound: saves that return FAIL
    MaxMisreads,    \* bound: records that cannot be read at a start
    MaxBlind,       \* bound: starts that cannot read the number of satellites
    MaxOverlaps     \* bound: commands begun while the other sender's runs

ASSUME ParamStoreAssumption ==
    /\ {SatMax, RecMax} \subseteq Nat \ {0}
    /\ Straddling \subseteq 1..RecMax
    /\ "pc" \in Senders
    /\ Senders \subseteq {"pc", "panel"}
    /\ Sessions \subseteq SUBSET {"sat", "delsat", "rec", "delrec", "adjust", "band"}
    /\ {MaxCmds, MaxRestarts, MaxFails, MaxMisreads, MaxBlind, MaxOverlaps} \subseteq Nat

VARIABLES
    Sat_num,        \* EEPROM: number of satellites
    Sat,            \* EEPROM: the satellite of each id, 0 if none
    record_num,     \* EEPROM: number of antenna records
    record,         \* EEPROM: the two parts of each antenna record
    Sat_Total_num,  \* RAM: ACUDevInfo.SATList
    Sat_ID,
    record_Total_num, \* RAM: ACUDevInfo.AntennaRecordList
    record_ID,
    up,             \* the program: in APP_PARAM_Init ("sats", "records") or "on"
    kinds,          \* the kinds of commands sent
    task,           \* of each sender, the command that runs and its locals
    ackedSats,      \* satellites that were acknowledged and not deleted since
    ackedRecords,   \* antenna records likewise
    adjusted,       \* antenna records taken before the coders were adjusted
    count           \* commands and faults so far

eepromVars == <<Sat_num, Sat, record_num, record>>
satVars == <<Sat_Total_num, Sat_ID>>
recordVars == <<record_Total_num, record_ID>>
clientVars == <<ackedSats, ackedRecords, adjusted>>
paramVars == <<eepromVars, satVars, recordVars, up, kinds, task, clientVars, count>>

Sats == 1..SatMax
Records == 1..RecMax

None == <<0, 0>>
Whole(n) == <<n, n>>

Idle == [op |-> "idle", id |-> 0, n |-> 0, num |-> 0, todo |-> {}]

(* The k lowest members of S. *)
Lowest(S, k) == {i \in S : Cardinality({j \in S : j <= i}) <= k}

(* The device is switched on with satellites and records that were stored  *)
(* before, or with a new EEPROM, whose bytes are all 0xFF.  The satellites *)
(* and the records share no state but the senders, so that a session may   *)
(* do without the one or the other.                                        *)
Init ==
    /\ kinds \in Sessions
    /\ \E S \in IF "sat" \in kinds THEN SUBSET Sats ELSE {{}} :
          /\ Sat = [i \in Sats |-> IF i \in S THEN i ELSE 0]
          /\ Sat_num \in {Cardinality(S)} \cup (IF S = {} THEN {SatMax + 1} ELSE {})
          /\ ackedSats = S
    /\ \E R \in IF "rec" \in kinds THEN SUBSET Records ELSE {{}} :
          /\ record = [i \in Records |-> IF i \in R THEN Whole(i) ELSE None]
          /\ record_num \in {Cardinality(R)} \cup (IF R = {} THEN {RecMax + 1} ELSE {})
          /\ ackedRecords = R
    /\ Sat_Total_num = 0 /\ Sat_ID = {}
    /\ record_Total_num = 0 /\ record_ID = {}
    /\ up = "sats"
    /\ task = [s \in Senders |-> Idle]
    /\ adjusted = {}
    /\ count = [cmds |-> 0, restarts |-> 0, torn |-> 0, fails |-> 0,
                misreads |-> 0, blind |-> 0, stale |-> 0, overlaps |-> 0]

-----------------------------------------------------------------------------
(* APP_PARAM_Save, in a state whose counts are c: the bytes are written or *)
(* not (w), the save returns SUCC or FAIL (ok).                            *)
Save(w, ok, c) ==
    \/ w /\ ok /\ count' = c
    \/ /\ ~ok
       /\ c.fails < MaxFails
       /\ count' = [c EXCEPT !.fails = @ + 1]

(* Power fails and comes back: what is in RAM is lost, and with it the     *)
(* commands under way.                                                     *)
Crash ==
    /\ count.restarts < MaxRestarts
    /\ count' = [count EXCEPT !.restarts = @ + 1,
                     !.torn = @ + (IF \E s \in Senders : task[s] # Idle THEN 1 ELSE 0)]
    /\ Sat_Total_num' = 0 /\ Sat_ID' = {}
    /\ record_Total_num' = 0 /\ record_ID' = {}
    /\ task' = [s \in Senders |-> Idle]
    /\ up' = "sats"
    /\ UNCHANGED <<eepromVars, clientVars>>

-----------------------------------------------------------------------------
(* APP_PARAM_Init                                                          *)

Stored == {i \in Sats : Sat[i] # 0}

StoredRecords == {i \in Records : record[i][1] # 0}

(* The number of satellites to look for. *)
SatsToFind == IF Sat_num > SatMax THEN 0 ELSE Sat_num

(* The satellites found, when those of bad cannot be read. *)
FoundSats(bad) == Lowest(Stored \ bad, SatsToFind)

(* Faulty variant of RepairedNum: the stored number stays. *)
RepairedNum_Kept(found) == SatsToFind

(* What the number of satellites becomes when found are found. *)
RepairedNum(found) == Cardinality(found)

Misread(bad) == [count EXCEPT !.misreads = @ + Cardinality(bad)]

(* The number of satellites cannot be read: none is looked for, and the    *)
(* stored number stays.                                                    *)
InitSatsBlind ==
    /\ up = "sats"
    /\ count.blind < MaxBlind
    /\ count' = [count EXCEPT !.blind = @ + 1]
    /\ Sat_ID' = {} /\ Sat_Total_num' = 0
    /\ up' = "records"
    /\ UNCHANGED <<eepromVars, recordVars, task, clientVars>>

InitSats ==
    /\ up = "sats"
    /\ \E bad \in SUBSET Stored, w, ok \in BOOLEAN :
          LET found == FoundSats(bad) IN
          /\ count.misreads + Cardinality(bad) <= MaxMisreads
          /\ Sat_ID' = found
          /\ Sat_Total_num' = RepairedNum(found)
          /\ IF Cardinality(found) < SatsToFind
             THEN Save(w, ok, Misread(bad)) /\ Sat_num' = (IF w THEN RepairedNum(found) ELSE Sat_num)
             ELSE count' = Misread(bad) /\ UNCHANGED Sat_num
    /\ up' = "records"
    /\ UNCHANGED <<Sat, record_num, record, recordVars, task, clientVars>>

InitRecords ==
    /\ up = "records"
    /\ \E bad \in SUBSET StoredRecords, w, ok \in BOOLEAN :
          LET found == StoredRecords \ bad
              n == Cardinality(found)
          IN
          /\ count.misreads + Cardinality(bad) <= MaxMisreads
          /\ record_ID' = found
          /\ record_Total_num' = n
          /\ IF n # record_num
             THEN Save(w, ok, Misread(bad)) /\ record_num' = (IF w THEN n ELSE record_num)
             ELSE count' = Misread(bad) /\ UNCHANGED record_num
    /\ up' = "on"
    /\ UNCHANGED <<Sat_num, Sat, record, satVars, task, clientVars>>

-----------------------------------------------------------------------------
(* A sender begins a command of kind k: it has none under way.  The other  *)
(* sender may have one if control changed hands meanwhile.  stale is 1 if  *)
(* the command is a change of a satellite that is not listed.              *)
BeginCounting(s, k, t, stale) ==
    /\ up = "on"
    /\ k \in kinds
    /\ task[s] = Idle
    /\ count.cmds < MaxCmds
    /\ LET o == IF \E r \in Senders : task[r] # Idle THEN 1 ELSE 0 IN
          /\ count.overlaps + o <= MaxOverlaps
          /\ count' = [count EXCEPT !.cmds = @ + 1, !.overlaps = @ + o, !.stale = @ + stale]
    /\ task' = [task EXCEPT ![s] = t]

Begin(s, k, t) == BeginCounting(s, k, t, 0)

At(s, op) == up = "on" /\ task[s].op = op

Goto(s, op) == task' = [task EXCEPT ![s].op = op]

End(s) == task' = [task EXCEPT ![s] = Idle]

(* Faulty variant of NewSatId: the id behind the number of satellites. *)
NewSatId_Next == Sat_Total_num + 1

(* APP_PCCOMM_SatParamSet: id 0 asks for a new satellite.  The id it gets  *)
(* is the lowest that the list does not hold.                              *)
NewSatId == Min(Sats \ Sat_ID)

SatAdd ==
    /\ Sat_Total_num < SatMax
    /\ Sats \ Sat_ID # {}
    /\ Begin("pc", "sat", [Idle EXCEPT !.op = "save", !.id = NewSatId,
                               !.n = SatMax + count.cmds + 1, !.num = 1])
    /\ UNCHANGED <<eepromVars, satVars, recordVars, up, clientVars>>

(* Any other id changes that satellite.  Nothing is tested: the satellite  *)
(* may have been deleted meanwhile, by another PC or before this packet    *)
(* came, and is then a new one that will be listed and not counted.        *)
Changed(id) == IF Sat[id] # 0 THEN Sat[id] ELSE SatMax + count.cmds + 1

SatModify(id) ==
    /\ BeginCounting("pc", "sat",
          [Idle EXCEPT !.op = "save", !.id = id, !.n = Changed(id)],
          IF id \in Sat_ID THEN 0 ELSE 1)
    /\ UNCHANGED <<eepromVars, satVars, recordVars, up, clientVars>>

SatSave ==
    /\ At("pc", "save")
    /\ \E w, ok \in BOOLEAN :
          /\ Save(w, ok, count)
          /\ Sat' = IF w THEN [Sat EXCEPT ![task["pc"].id] = task["pc"].n] ELSE Sat
          /\ IF ok THEN Goto("pc", IF task["pc"].num = 1 THEN "count" ELSE "list") ELSE End("pc")
    /\ UNCHANGED <<Sat_num, record_num, record, satVars, recordVars, up, clientVars>>

SatCount ==
    /\ At("pc", "count")
    /\ Sat_Total_num' = Sat_Total_num + 1
    /\ \E w, ok \in BOOLEAN :
          Save(w, ok, count) /\ Sat_num' = (IF w THEN Sat_Total_num + 1 ELSE Sat_num)
    /\ Goto("pc", "list")
    /\ UNCHANGED <<Sat, record_num, record, Sat_ID, recordVars, up, clientVars>>

SatListed ==
    /\ At("pc", "list")
    /\ Sat_ID' = Sat_ID \cup {task["pc"].id}
    /\ ackedSats' = ackedSats \cup {task["pc"].n}
    /\ End("pc")
    /\ UNCHANGED <<eepromVars, Sat_Total_num, recordVars, up, ackedRecords, adjusted, count>>

(* Faulty variant of Less: zero is not looked for. *)
Less_Unguarded(n) == n - 1

(* One less, as a list that loses a member is counted. *)
Less(n) == IF n > 0 THEN n - 1 ELSE 0

(* APP_PCCOMM_DelSatSet: the PC sends a list of ids. *)
DelSatSet(ids) ==
    /\ Begin("pc", "delsat", [Idle EXCEPT !.op = "del", !.todo = ids])
    /\ ackedSats' = ackedSats \ {Sat[i] : i \in ids}
    /\ UNCHANGED <<eepromVars, satVars, recordVars, up, ackedRecords, adjusted>>

DelSat(i) ==
    /\ At("pc", "del")
    /\ i \in task["pc"].todo
    /\ task' = [task EXCEPT !["pc"].todo = @ \ {i}]
    /\ \/ /\ i \in Sat_ID
          /\ Sat_ID' = Sat_ID \ {i}
          /\ Sat_Total_num' = Less(Sat_Total_num)
          /\ \E w, ok \in BOOLEAN :
                Save(w, ok, count) /\ Sat' = (IF w THEN [Sat EXCEPT ![i] = 0] ELSE Sat)
       \/ i \notin Sat_ID /\ UNCHANGED <<satVars, Sat, count>>
    /\ UNCHANGED <<Sat_num, record_num, record, recordVars, up, clientVars>>

DelSatCount ==
    /\ At("pc", "del")
    /\ task["pc"].todo = {}
    /\ \E w, ok \in BOOLEAN :
          Save(w, ok, count) /\ Sat_num' = (IF w THEN Sat_Total_num ELSE Sat_num)
    /\ End("pc")
    /\ UNCHANGED <<Sat, record_num, record, satVars, recordVars, up, clientVars>>

(* APP_PCCOMM_SaveAllSatParamQue: the satellites sent.  The loop ends when *)
(* Sat_Total_num of them have been sent, and that is tested behind each.   *)
Answer == Lowest(Sat_ID \cap Stored, IF Sat_Total_num = 0 THEN 1 ELSE Sat_Total_num)

-----------------------------------------------------------------------------
(* APP_PCCOMM_AntennaRecord and its twin of the panel.  The lowest free id *)
(* is chosen and the number of records read; both are used after the save. *)
(* With a number below RecMax and no free id the code would write before   *)
(* the records; NumbersAgree says when that cannot be.                     *)
NewRecordId == Min(Records \ record_ID)

AntennaRecord(s) ==
    /\ record_Total_num < RecMax
    /\ Records \ record_ID # {}
    /\ Begin(s, "rec", [Idle EXCEPT !.op = "head", !.id = NewRecordId,
                            !.n = RecMax + count.cmds + 1, !.num = record_Total_num])
    /\ UNCHANGED <<eepromVars, satVars, recordVars, up, clientVars>>

(* HW_EEPROM_WriteBuffer writes page by page: record r after the first page *)
(* of the write of n to record id.                                          *)
FirstPage(r, id, n) == IF id \in Straddling THEN <<n, r[2]>> ELSE Whole(n)

RecordHead(s) ==
    /\ At(s, "head")
    /\ LET t == task[s] IN
       \E w, ok \in BOOLEAN :
          /\ Save(w, ok, count)
          /\ record' = IF w THEN [record EXCEPT ![t.id] = FirstPage(@, t.id, t.n)] ELSE record
          /\ IF ok THEN Goto(s, IF t.id \in Straddling THEN "tail" ELSE "compare") ELSE End(s)
    /\ UNCHANGED <<Sat_num, Sat, record_num, satVars, recordVars, up, clientVars>>

RecordTail(s) ==
    /\ At(s, "tail")
    /\ \E w, ok \in BOOLEAN :
          /\ Save(w, ok, count)
          /\ record' = IF w THEN [record EXCEPT ![task[s].id][2] = task[s].n] ELSE record
          /\ IF ok THEN Goto(s, "compare") ELSE End(s)
    /\ UNCHANGED <<Sat_num, Sat, record_num, satVars, recordVars, up, clientVars>>

(* Faulty variant of SameBytes: only the last page is compared. *)
SameBytes_Tail(s) == record[task[s].id][2] = task[s].n

(* The record is read back and compared. *)
SameBytes(s) == record[task[s].id] = Whole(task[s].n)

RecordCompare(s) ==
    /\ At(s, "compare")
    /\ \/ /\ SameBytes(s)
          /\ record_ID' = record_ID \cup {task[s].id}
          /\ Goto(s, "number")
       \/ ~SameBytes(s) /\ End(s) /\ UNCHANGED record_ID
    /\ UNCHANGED <<eepromVars, satVars, record_Total_num, up, clientVars, count>>

NewNumber(s) == IF task[s].num + 1 > RecMax THEN RecMax ELSE task[s].num + 1

RecordNumber(s) ==
    /\ At(s, "number")
    /\ LET n == NewNumber(s) IN
          /\ record_Total_num' = n
          /\ IF n # record_Total_num
             THEN \E w, ok \in BOOLEAN : Save(w, ok, count) /\ record_num' = (IF w THEN n ELSE record_num)
             ELSE UNCHANGED <<record_num, count>>
    /\ ackedRecords' = ackedRecords \cup {task[s].n}
    /\ End(s)
    /\ UNCHANGED <<Sat_num, Sat, record, satVars, record_ID, up, ackedSats, adjusted>>

(* APP_PCCOMM_DelAntennaRecord and its twin: each id of the command leaves *)
(* the list, then its record is overwritten.  The number in the EEPROM is  *)
(* left as it is.                                                          *)
DelAntennaRecord(s, ids) ==
    /\ ids \subseteq record_ID
    /\ Begin(s, "delrec", [Idle EXCEPT !.op = "unlist", !.todo = ids])
    /\ ackedRecords' = ackedRecords \ {record[i][1] : i \in ids}
    /\ UNCHANGED <<eepromVars, satVars, recordVars, up, ackedSats, adjusted>>

DelRecord(s, i) ==
    /\ At(s, "unlist")
    /\ i \in task[s].todo
    /\ \/ /\ i \in record_ID
          /\ record_ID' = record_ID \ {i}
          /\ record_Total_num' = Less(record_Total_num)
          /\ task' = [task EXCEPT ![s].op = "wipe", ![s].id = i, ![s].todo = @ \ {i}]
       \/ /\ i \notin record_ID
          /\ task' = [task EXCEPT ![s].todo = @ \ {i}]
          /\ UNCHANGED recordVars
    /\ UNCHANGED <<eepromVars, satVars, up, clientVars, count>>

WipeRecord(s) ==
    /\ At(s, "wipe")
    /\ \E w, ok \in BOOLEAN :
          Save(w, ok, count) /\ record' = (IF w THEN [record EXCEPT ![task[s].id] = None] ELSE record)
    /\ Goto(s, "unlist")
    /\ UNCHANGED <<Sat_num, Sat, record_num, satVars, recordVars, up, clientVars>>

DelRecordEnd(s) ==
    /\ At(s, "unlist")
    /\ task[s].todo = {}
    /\ End(s)
    /\ UNCHANGED <<eepromVars, satVars, recordVars, up, clientVars, count>>

(* The antenna records, which hold angles, are all cleared: the list, the  *)
(* number, then record by record (APP_PARAM_AntennaRecord_AllClear).       *)
ClearRecords(k) ==
    /\ Begin("pc", k, [Idle EXCEPT !.op = "clear", !.todo = Records])
    /\ record_ID' = {} /\ record_Total_num' = 0
    /\ ackedRecords' = {}
    /\ UNCHANGED <<eepromVars, satVars, up, ackedSats>>

(* The records that hold angles of the coders as they are now. *)
TakenNow == {n \in 1 .. RecMax + MaxCmds : \E i \in Records : record[i][1] = n}

(* APP_PCCOMM_AntennaParamAdjust stores what is known of the coders anew   *)
(* and clears the records,                                                 *)
AntennaParamAdjust == ClearRecords("adjust") /\ adjusted' = TakenNow

(* or answers FAIL when the save has failed, with or without the bytes.    *)
AntennaParamAdjustFails ==
    /\ up = "on"
    /\ "adjust" \in kinds
    /\ task["pc"] = Idle
    /\ count.cmds < MaxCmds
    /\ \E w \in BOOLEAN :
          /\ Save(w, FALSE, [count EXCEPT !.cmds = @ + 1])
          /\ adjusted' = IF w THEN TakenNow ELSE adjusted
    /\ UNCHANGED <<eepromVars, satVars, recordVars, up, task, ackedSats, ackedRecords>>

(* APP_PCCOMM_AntennaParamSet clears them when the oscillator of the LNB   *)
(* moves to another band.                                                  *)
AntennaParamSet == ClearRecords("band") /\ UNCHANGED adjusted

(* The clearing begins with the number. *)
ClearNumber ==
    /\ At("pc", "clear")
    /\ \E w, ok \in BOOLEAN :
          Save(w, ok, count) /\ record_num' = (IF w THEN 0 ELSE record_num)
    /\ Goto("pc", "clearall")
    /\ UNCHANGED <<Sat_num, Sat, record, satVars, recordVars, up, clientVars>>

ClearRecord ==
    /\ At("pc", "clearall")
    /\ LET i == Min(task["pc"].todo) IN
       \E w, ok \in BOOLEAN :
          /\ Save(w, ok, count)
          /\ record' = IF w THEN [record EXCEPT ![i] = None] ELSE record
          /\ IF task["pc"].todo = {i} THEN End("pc")
             ELSE task' = [task EXCEPT !["pc"].todo = @ \ {i}]
    /\ UNCHANGED <<Sat_num, Sat, record_num, satVars, recordVars, up, clientVars>>

Step ==
    \/ Crash \/ InitSats \/ InitSatsBlind \/ InitRecords
    \/ SatAdd \/ SatSave \/ SatCount \/ SatListed \/ DelSatCount
    \/ \E i \in Sats : SatModify(i) \/ DelSat(i)
    \/ \E ids \in SUBSET Sats \ {{}} : DelSatSet(ids)
    \/ \E s \in Senders :
          \/ AntennaRecord(s) \/ RecordHead(s) \/ RecordTail(s) \/ RecordCompare(s) \/ RecordNumber(s)
          \/ \E ids \in SUBSET Records \ {{}} : DelAntennaRecord(s, ids)
          \/ \E i \in Records : DelRecord(s, i)
          \/ WipeRecord(s) \/ DelRecordEnd(s)
    \/ AntennaParamAdjust \/ AntennaParamAdjustFails \/ AntennaParamSet
    \/ ClearNumber \/ ClearRecord

Next == Step /\ UNCHANGED kinds

Spec == Init /\ [][Next]_paramVars

-----------------------------------------------------------------------------
(* The numbers and ids are within the lists: above all the number of       *)
(* satellites never passes below 0, although a satellite that was listed   *)
(* again by a change of it (APP_PCCOMM_SatParamSet, flag 0) was not        *)
(* counted.                                                                *)
TypeOK ==
    /\ Sat_num \in 0 .. SatMax + 1
    /\ Sat \in [Sats -> 0 .. SatMax + MaxCmds]
    /\ record_num \in 0 .. RecMax + 1
    /\ record \in [Records -> (0 .. RecMax + MaxCmds) \X (0 .. RecMax + MaxCmds)]
    /\ Sat_Total_num \in 0..SatMax
    /\ Sat_ID \subseteq Sats
    /\ record_Total_num \in 0..RecMax
    /\ record_ID \subseteq Records
    /\ up \in {"sats", "records", "on"}
    /\ \A s \in Senders : task[s].id \in 0 .. (IF SatMax > RecMax THEN SatMax ELSE RecMax)

(* What was acknowledged and cannot be found any more. *)
LostSats == {n \in ackedSats : ~ \E i \in Answer : Sat[i] = n}

LostRecords == {n \in ackedRecords : ~ \E i \in record_ID : record[i] = Whole(n)}

(* The faults that may cost a satellite, and the changes of satellites     *)
(* that were not listed.                                                   *)
SatFaults == count.torn + count.fails + count.misreads + count.stale

(* Of the satellites that were acknowledged, the query (Answer) leaves out *)
(* at most one for each command cut off by a power failure, each save that *)
(* failed, each record that could not be read at a start and each change   *)
(* that came for a satellite not listed: the search that stops at a number *)
(* (APP_PARAM_Init) may pass over a satellite that no command was about,   *)
(* but the damage does not grow with the commands and restarts that        *)
(* follow.  Only a start that cannot read the number loses them all.       *)
SatsKept ==
    up = "on" /\ count.blind = 0 => Cardinality(LostSats) <= SatFaults

(* An antenna record that was acknowledged is listed with its own bytes:   *)
(* no power failure and no save that fails can lose it, because a start    *)
(* (APP_PARAM_Init) looks at every record.  Only an unreadable record at a *)
(* start, or a command of the other sender that overlaps, costs one.       *)
RecordsKept ==
    up = "on" => Cardinality(LostRecords) <= count.misreads + count.overlaps

AllIdle == up = "on" /\ \A s \in Senders : task[s] = Idle

(* Between commands the number of satellites is that of the list, but for  *)
(* the satellites that a change has listed without counting them           *)
(* (APP_PCCOMM_SatParamSet): no power failure, failed save or unreadable   *)
(* record sets the two apart, and deletions do not carry the number below. *)
(* The number of antenna records is that of the list as long as no two     *)
(* commands overlapped, so that APP_PCCOMM_AntennaRecord finds a free id   *)
(* whenever the number leaves room for one.                                *)
NumbersAgree ==
    AllIdle =>
       /\ Cardinality(Sat_ID) - Sat_Total_num \in 0 .. count.stale
       /\ count.overlaps = 0 => record_Total_num = Cardinality(record_ID)

(* What the comment of app_pccomm.c:605 asks for: once the coders have     *)
(* been adjusted, the antenna records from before are gone.  The adjusted  *)
(* values are stored first, and the start after a power failure lists      *)
(* every record that the clearing had not reached.                         *)
NoOldRecords ==
    (up = "on" /\ task["pc"] = Idle) => \A i \in record_ID : record[i][1] \notin adjusted
=============================================================================
