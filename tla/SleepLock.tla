----------------------------- MODULE SleepLock ------------------------------
(***************************************************************************)
(* A sleep lock (sleeplock.c) on top of sleep() and wakeup() (proc.c).     *)
(*                                                                         *)
(* The two spin locks involved, lk->lk and ptable.lock, are given by their *)
(* holders.  sleep() takes ptable.lock before it lets lk->lk go, and every *)
(* acquisition and release in that hand-over is a step of its own.  What   *)
(* wakeup(), kill() and the resumption of a process do under ptable.lock   *)
(* is one step that needs ptable.lock to be free.                          *)
(***************************************************************************)
EXTENDS Naturals

CONSTANTS Proc,   \* processes, identified with their pids
          NoProc  \* pid 0, and "held by nobody"

SleepLockAssumption == NoProc \notin Proc

VARIABLES
    locked,  \* lk->locked
    pid,     \* lk->pid
    spin,    \* process that holds lk->lk
    ptable,  \* process that holds ptable.lock
    state,   \* state[p]: RUNNABLE (or running) or SLEEPING with p->chan = lk
    pc       \* pc[p]: where p is

vars == <<locked, pid, spin, ptable, state, pc>>

PCs == {"out", "test", "sleep_ptable", "sleep_release", "sleep_sched", "asleep",
        "reacquire", "unlock_acquiresleep", "in", "clear", "wakeup",
        "unlock_releasesleep"}

TypeOK ==
    /\ locked \in BOOLEAN
    /\ pid \in Proc \cup {NoProc}
    /\ spin \in Proc \cup {NoProc}
    /\ ptable \in Proc \cup {NoProc}
    /\ state \in [Proc -> {"RUNNABLE", "SLEEPING"}]
    /\ pc \in [Proc -> PCs]

(* initsleeplock *)
Init ==
    /\ locked = FALSE
    /\ pid = NoProc
    /\ spin = NoProc
    /\ ptable = NoProc
    /\ state = [p \in Proc |-> "RUNNABLE"]
    /\ pc = [p \in Proc |-> "out"]

Goto(p, place) == pc' = [pc EXCEPT ![p] = place]

(* acquire(&lk->lk), in acquiresleep and at the end of sleep() *)
AcquireSpin(p) ==
    /\ pc[p] \in {"out", "reacquire"}
    /\ spin = NoProc
    /\ spin' = p
    /\ Goto(p, "test")
    /\ UNCHANGED <<locked, pid, ptable, state>>

TestNotAgain(p) ==
    /\ pc[p] = "test"
    /\ locked' = TRUE
    /\ pid' = p
    /\ Goto(p, "unlock_acquiresleep")
    /\ UNCHANGED <<spin, ptable, state>>

(* while (lk->locked) sleep(lk, &lk->lk); then take the lock *)
Test(p) ==
    /\ pc[p] = "test"
    /\ \/ /\ locked
          /\ Goto(p, "sleep_ptable")
          /\ UNCHANGED <<locked, pid>>
       \/ /\ ~locked
          /\ locked' = TRUE
          /\ pid' = p
          /\ Goto(p, "unlock_acquiresleep")
    /\ UNCHANGED <<spin, ptable, state>>

UnlockAcquiresleep(p) ==
    /\ pc[p] = "unlock_acquiresleep"
    /\ spin' = NoProc
    /\ Goto(p, "in")
    /\ UNCHANGED <<locked, pid, ptable, state>>

SleepPtableLate(p) ==
    /\ pc[p] = "sleep_ptable"
    /\ spin' = IF spin = p THEN NoProc ELSE spin
    /\ IF spin # p /\ ptable = NoProc
       THEN ptable' = p /\ Goto(p, "sleep_sched")
       ELSE UNCHANGED <<ptable, pc>>
    /\ UNCHANGED <<locked, pid, state>>

(* sleep(): acquire(&ptable.lock) ... *)
SleepPtable(p) ==
    /\ pc[p] = "sleep_ptable"
    /\ ptable = NoProc
    /\ ptable' = p
    /\ Goto(p, "sleep_release")
    /\ UNCHANGED <<locked, pid, spin, state>>

(* ... release(lk) ... *)
SleepRelease(p) ==
    /\ pc[p] = "sleep_release"
    /\ spin' = NoProc
    /\ Goto(p, "sleep_sched")
    /\ UNCHANGED <<locked, pid, ptable, state>>

(* ... p->state = SLEEPING and sched(): the scheduler of this CPU goes on with
   ptable.lock and releases it. *)
SleepSched(p) ==
    /\ pc[p] = "sleep_sched"
    /\ state' = [state EXCEPT ![p] = "SLEEPING"]
    /\ ptable' = NoProc
    /\ Goto(p, "asleep")
    /\ UNCHANGED <<locked, pid, spin>>

(* A scheduler runs p again: p->chan = 0, release(&ptable.lock). *)
Resume(p) ==
    /\ pc[p] = "asleep"
    /\ state[p] = "RUNNABLE"
    /\ ptable = NoProc
    /\ Goto(p, "reacquire")
    /\ UNCHANGED <<locked, pid, spin, ptable, state>>

(* kill() wakes a sleeping process, which finds the lock still taken. *)
Kill(p) ==
    /\ state[p] = "SLEEPING"
    /\ ptable = NoProc
    /\ state' = [state EXCEPT ![p] = "RUNNABLE"]
    /\ UNCHANGED <<locked, pid, spin, ptable, pc>>

(* releasesleep(): acquire(&lk->lk) ... *)
Releasesleep(p) ==
    /\ pc[p] = "in"
    /\ spin = NoProc
    /\ spin' = p
    /\ Goto(p, "clear")
    /\ UNCHANGED <<locked, pid, ptable, state>>

(* ... lk->locked = 0; lk->pid = 0 ... *)
Clear(p) ==
    /\ pc[p] = "clear"
    /\ locked' = FALSE
    /\ pid' = NoProc
    /\ Goto(p, "wakeup")
    /\ UNCHANGED <<spin, ptable, state>>

WakeupOnSpin(p) ==
    /\ pc[p] = "wakeup"
    /\ Goto(p, "unlock_releasesleep")
    /\ state' = [q \in Proc |-> IF ptable = NoProc THEN "RUNNABLE" ELSE state[q]]
    /\ UNCHANGED <<locked, pid, spin, ptable>>

(* ... wakeup(lk), under ptable.lock ... *)
Wakeup(p) ==
    /\ pc[p] = "wakeup"
    /\ ptable = NoProc
    /\ state' = [q \in Proc |-> "RUNNABLE"]
    /\ Goto(p, "unlock_releasesleep")
    /\ UNCHANGED <<locked, pid, spin, ptable>>

(* ... release(&lk->lk) *)
UnlockReleasesleep(p) ==
    /\ pc[p] = "unlock_releasesleep"
    /\ spin' = NoProc
    /\ Goto(p, "out")
    /\ UNCHANGED <<locked, pid, ptable, state>>

Step(p) ==
    \/ AcquireSpin(p) \/ Test(p) \/ UnlockAcquiresleep(p)
    \/ SleepPtable(p) \/ SleepRelease(p) \/ SleepSched(p) \/ Resume(p)
    \/ Releasesleep(p) \/ Clear(p) \/ Wakeup(p) \/ UnlockReleasesleep(p)

Next == \E p \in Proc : Step(p) \/ Kill(p)

Spec == Init /\ [][Next]_vars

(* A runnable process is run again (the round-robin scheduler of project_1 to
   3), code that holds a spin lock or a buffer runs on, and a process spinning
   on lk->lk or ptable.lock gets it in the end, since both are free again and
   again and held for a bounded time.  The four steps that wait for a lock are
   at different places of p, which leaves each of them by that step only, so
   strong fairness of their disjunction is strong fairness of each. *)
Fairness ==
    \A p \in Proc : /\ WF_vars(pc[p] # "out" /\ Step(p))
                    /\ SF_vars(\/ Resume(p) \/ Releasesleep(p)
                               \/ Wakeup(p) \/ SleepPtable(p))

FairSpec == Spec /\ Fairness

-----------------------------------------------------------------------------
(* Properties. *)

Holders == {p \in Proc : pc[p] \in {"unlock_acquiresleep", "in", "clear"}}

(* At most one process is past acquiresleep and not yet past releasesleep,
   and lk->pid, which holdingsleep() compares with, names that process. *)
ExclusiveHolder ==
    /\ \A p, q \in Holders : p = q
    /\ \A p \in Proc : pid = p <=> p \in Holders

(* A process goes to sleep only while somebody will wake it up: the lock is
   still taken, or its holder has cleared it and not yet called wakeup. *)
NoLostWakeup ==
    \A p \in Proc :
        pc[p] \in {"sleep_sched", "asleep"} /\ ~(pc[p] = "asleep" /\ state[p] = "RUNNABLE")
            => locked \/ \E q \in Proc : pc[q] = "wakeup"

(* A process asleep on the lock does not sleep forever: it goes on to take
   lk->lk again, which is the one step that leaves "asleep". *)
SleeperRuns == \A p \in Proc : []<>(pc[p] # "asleep")
=============================================================================
