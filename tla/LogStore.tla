------------------------------ MODULE LogStore ------------------------------
(***************************************************************************)
(* What the operation log and the warning log promise: a record, once      *)
(* stored, stays where it is in its log, and a record is acknowledged only *)
(* after it was stored.  FlashLog.tla is shown to implement this while the *)
(* logs are on their first lap through the flash.                          *)
(***************************************************************************)
EXTENDS Naturals, Sequences, SequencesExt

CONSTANTS Logs, Codes

VARIABLES
    log,            \* of each log, the records in the order of storing
    acked           \* the records whose save returned SUCC

storeVars == <<log, acked>>

Init ==
    /\ log = [l \in Logs |-> <<>>]
    /\ acked = [l \in Logs |-> {}]

Store(l, c) ==
    /\ log' = [log EXCEPT ![l] = Append(@, c)]
    /\ UNCHANGED acked

Acknowledge(l, c) ==
    /\ c \in ToSet(log[l])
    /\ acked' = [acked EXCEPT ![l] = @ \cup {c}]
    /\ UNCHANGED log

Next == \E l \in Logs, c \in Codes : Store(l, c) \/ Acknowledge(l, c)

Spec == Init /\ [][Next]_storeVars
=============================================================================
