------------------------------- MODULE BspSem -------------------------------
(***************************************************************************)
(* The counting semaphore of uC/OS-III as the firmware uses it: every      *)
(* driver and every application module reaches it through                  *)
(* BSP_OS_Sem_Creat, BSP_OS_Sem_Pend and BSP_OS_Sem_Post of                *)
(* BSP/src/bsp_os.c.  BSP_OS_Sem_Post always passes OS_OPT_POST_ALL.       *)
(*                                                                         *)
(* A semaphore is a record: ctr is OS_SEM.Ctr, pend is the set of tasks on *)
(* OS_SEM.PendList.  A task that called OSSemPend is blocked exactly while *)
(* it is a member of pend; it runs on as soon as it is not, whether it     *)
(* never blocked or was readied by a post.  The counter's 32-bit overflow  *)
(* check (OS_ERR_SEM_OVF) is out of reach of the bounds and left out.      *)
(***************************************************************************)
EXTENDS Integers

(* A semaphore of tasks drawn from T. *)
Semaphore(T) == [ctr : Nat, pend : SUBSET T]

(* OSSemCreate: initial count n, nobody waiting. *)
SemCreate(n) == [ctr |-> n, pend |-> {}]

(* Faulty variant of SemPend: it takes a unit without looking for one. *)
SemPend_Unchecked(s, t) == [s EXCEPT !.ctr = @ - 1]

(* OSSemPend with OS_OPT_PEND_BLOCKING: take a unit or join the pend list. *)
SemPend(s, t) ==
    IF s.ctr > 0
    THEN [s EXCEPT !.ctr = @ - 1]
    ELSE [s EXCEPT !.pend = @ \cup {t}]

(* Faulty variant of SemPost: it counts the post even when tasks wait and  *)
(* readies none of them.                                                   *)
SemPost_CountsOnly(s) == [s EXCEPT !.ctr = @ + 1]

(* Faulty variant of SemPost: it readies the waiters and counts the post   *)
(* as well, handing the same unit out twice.                               *)
SemPost_CountsAndReadies(s) == [ctr |-> s.ctr + 1, pend |-> {}]

(* OS_SemPost with OS_OPT_POST_ALL: with no waiter the counter grows; with *)
(* waiters ALL of them are readied and the counter is left alone.          *)
SemPost(s) ==
    IF s.pend = {}
    THEN [s EXCEPT !.ctr = @ + 1]
    ELSE [s EXCEPT !.pend = {}]

(* n posts in a row, as an interrupt handler makes them: the first one     *)
(* readies the waiters, the others find none.                              *)
SemPostTimes(s, n) ==
    IF s.pend = {}
    THEN [s EXCEPT !.ctr = @ + n]
    ELSE [ctr |-> s.ctr + (n - 1), pend |-> {}]

(* The pend list without t, whose timeout expired. *)
SemForget(s, t) == [s EXCEPT !.pend = @ \ {t}]
=============================================================================
