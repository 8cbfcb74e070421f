------------------------------ MODULE Spinlock ------------------------------
(***************************************************************************)
(* Spin locks and interrupt masking of spinlock.c, under the context       *)
(* switches of sched() and scheduler(): per-CPU ncli and intena, a lock    *)
(* word taken with xchg, interrupt handlers that take locks themselves,    *)
(* and ptable.lock handed from one kernel stack to another by swtch.       *)
(*                                                                         *)
(* The kernel code above the locks is any program that takes locks in      *)
(* increasing rank, releases what it holds, and switches only while it     *)
(* holds ptable.lock alone.  A kernel stack is a process or the scheduler  *)
(* of a CPU (named by that CPU).  It has two frames: the code it was       *)
(* running ("base") and an interrupt handler on top of it ("intr").        *)
(***************************************************************************)
EXTENDS Naturals, FiniteSets

CONSTANTS
    Cpu,      \* processors
    Proc,     \* processes
    Lock,     \* spin locks
    ptable,   \* ptable.lock, the innermost lock
    Rank,     \* Rank[l]: place of l in the lock order
    NoCpu, NoLock

ASSUME SpinlockAssumption ==
    /\ ptable \in Lock /\ NoLock \notin Lock
    /\ NoCpu \notin Cpu
    /\ Cpu \cap Proc = {}
    /\ Rank \in [Lock -> Nat]
    /\ \A l \in Lock \ {ptable} : Rank[l] < Rank[ptable]

VARIABLES
    locked,   \* locked[l]: lk->locked
    owner,    \* owner[l]: lk->cpu
    iflag,    \* iflag[c]: interrupt flag (FL_IF) of the processor
    ncli,     \* ncli[c]: depth of pushcli nesting
    intena,   \* intena[c]: were interrupts enabled before pushcli?
    cur,      \* cur[c]: kernel stack that runs on c
    intr,     \* intr[t]: an interrupt handler runs on top of stack t
    fresh,    \* fresh[t]: t has not returned from forkret yet
    pc,       \* pc[t][f]: where frame f of stack t is
    lk,       \* lk[t][f]: lock that it is acquiring or releasing
    eflags,   \* eflags[t][f]: local variable of pushcli
    held,     \* held[t][f]: locks taken and not yet released
    saved,    \* saved[t]: local variable intena of sched()
    panicked

vars == <<locked, owner, iflag, ncli, intena, cur, intr, fresh, pc, lk, eflags,
          held, saved, panicked>>

Thread == Cpu \cup Proc
Frame == {"base", "intr"}
PCs == {"loop", "run", "cli", "xchg", "record", "unlock", "popcli"}

TypeOK ==
    /\ locked \in [Lock -> BOOLEAN]
    /\ owner \in [Lock -> Cpu \cup {NoCpu}]
    /\ iflag \in [Cpu -> BOOLEAN]
    /\ ncli \in [Cpu -> Nat]
    /\ intena \in [Cpu -> BOOLEAN]
    /\ cur \in [Cpu -> Thread]
    /\ intr \in [Thread -> BOOLEAN]
    /\ fresh \in [Thread -> BOOLEAN]
    /\ pc \in [Thread -> [Frame -> PCs]]
    /\ lk \in [Thread -> [Frame -> Lock \cup {NoLock}]]
    /\ eflags \in [Thread -> [Frame -> BOOLEAN]]
    /\ held \in [Thread -> [Frame -> SUBSET Lock]]
    /\ saved \in [Thread -> BOOLEAN]
    /\ panicked \in BOOLEAN

(* mpmain() has called scheduler() on every CPU, with interrupts off; every
   process is as allocproc() leaves it: its first swtch enters forkret, which
   believes it holds ptable.lock. *)
Init ==
    /\ locked = [l \in Lock |-> FALSE]
    /\ owner = [l \in Lock |-> NoCpu]
    /\ iflag = [c \in Cpu |-> FALSE]
    /\ ncli = [c \in Cpu |-> 0]
    /\ intena = [c \in Cpu |-> FALSE]
    /\ cur = [c \in Cpu |-> c]
    /\ intr = [t \in Thread |-> FALSE]
    /\ fresh = [t \in Thread |-> t \in Proc]
    /\ pc = [t \in Thread |->
               [f \in Frame |-> IF t \in Cpu /\ f = "base" THEN "loop" ELSE "run"]]
    /\ lk = [t \in Thread |-> [f \in Frame |-> NoLock]]
    /\ eflags = [t \in Thread |-> [f \in Frame |-> FALSE]]
    /\ held = [t \in Thread |->
                 [f \in Frame |-> IF t \in Proc /\ f = "base" THEN {ptable} ELSE {}]]
    /\ saved = [t \in Thread |-> FALSE]
    /\ panicked = FALSE

-----------------------------------------------------------------------------
FrameOf(t) == IF intr[t] THEN "intr" ELSE "base"

(* The locks held, and the place, of the code that runs on c.  A local
   variable is reset once it is dead, to keep states few. *)
HeldOn(c) == held[cur[c]][FrameOf(cur[c])]
At(c, place) == pc[cur[c]][FrameOf(cur[c])] = place
LockOf(c) == lk[cur[c]][FrameOf(cur[c])]
Set(f, c, v) == [f EXCEPT ![cur[c]][FrameOf(cur[c])] = v]
Goto(c, place) == pc' = Set(pc, c, place)

(* holding(): the two fields are read one after the other, but only this CPU
   can make lk->cpu equal to itself. *)
Holding(c, l) == locked[l] /\ owner[l] = c

(* acquire: readeflags() in pushcli, before interrupts are masked. *)
Acquire(c, l) ==
    /\ At(c, "run")
    /\ \A h \in HeldOn(c) : Rank[h] < Rank[l]
    /\ cur[c] = c /\ ~intr[c] => l = ptable
    /\ fresh[cur[c]] => intr[cur[c]]
    /\ eflags' = Set(eflags, c, iflag[c])
    /\ lk' = Set(lk, c, l)
    /\ Goto(c, "cli")
    /\ UNCHANGED <<locked, owner, iflag, ncli, intena, cur, intr, fresh, held,
                   saved, panicked>>

PushcliNoCli(c) ==
    /\ At(c, "cli")
    /\ intena' = IF ncli[c] = 0
                 THEN [intena EXCEPT ![c] = eflags[cur[c]][FrameOf(cur[c])]]
                 ELSE intena
    /\ ncli' = [ncli EXCEPT ![c] = @ + 1]
    /\ eflags' = Set(eflags, c, FALSE)
    /\ Goto(c, "xchg")
    /\ UNCHANGED <<locked, owner, iflag, cur, intr, fresh, lk, held,
                   saved, panicked>>

(* The rest of pushcli, and the check that the lock is not held already. *)
Pushcli(c) ==
    /\ At(c, "cli")
    /\ iflag' = [iflag EXCEPT ![c] = FALSE]
    /\ intena' = IF ncli[c] = 0
                 THEN [intena EXCEPT ![c] = eflags[cur[c]][FrameOf(cur[c])]]
                 ELSE intena
    /\ ncli' = [ncli EXCEPT ![c] = @ + 1]
    /\ panicked' = Holding(c, LockOf(c))
    /\ eflags' = Set(eflags, c, FALSE)
    /\ Goto(c, "xchg")
    /\ UNCHANGED <<locked, owner, cur, intr, fresh, lk, held, saved>>

XchgRacy(c) ==
    /\ At(c, "xchg")
    /\ locked[LockOf(c)] => owner[LockOf(c)] = NoCpu
    /\ locked' = [locked EXCEPT ![LockOf(c)] = TRUE]
    /\ held' = Set(held, c, HeldOn(c) \cup {LockOf(c)})
    /\ Goto(c, "record")
    /\ UNCHANGED <<owner, iflag, ncli, intena, cur, intr, fresh, lk, eflags,
                   saved, panicked>>

(* while(xchg(&lk->locked, 1) != 0): the turn that finds the lock free. *)
Xchg(c) ==
    /\ At(c, "xchg")
    /\ ~locked[LockOf(c)]
    /\ locked' = [locked EXCEPT ![LockOf(c)] = TRUE]
    /\ held' = Set(held, c, HeldOn(c) \cup {LockOf(c)})
    /\ Goto(c, "record")
    /\ UNCHANGED <<owner, iflag, ncli, intena, cur, intr, fresh, lk, eflags,
                   saved, panicked>>

(* lk->cpu = mycpu() *)
Record(c) ==
    /\ At(c, "record")
    /\ owner' = [owner EXCEPT ![LockOf(c)] = c]
    /\ lk' = Set(lk, c, NoLock)
    /\ Goto(c, "run")
    /\ UNCHANGED <<locked, iflag, ncli, intena, cur, intr, fresh, eflags,
                   held, saved, panicked>>

(* release: the check and lk->cpu = 0 *)
Release(c, l) ==
    /\ At(c, "run")
    /\ l \in HeldOn(c)
    /\ panicked' = ~Holding(c, l)
    /\ owner' = [owner EXCEPT ![l] = NoCpu]
    /\ lk' = Set(lk, c, l)
    /\ Goto(c, "unlock")
    /\ UNCHANGED <<locked, iflag, ncli, intena, cur, intr, fresh, eflags, held,
                   saved>>

(* movl $0, lk->locked *)
Unlock(c) ==
    /\ At(c, "unlock")
    /\ locked' = [locked EXCEPT ![LockOf(c)] = FALSE]
    /\ held' = Set(held, c, HeldOn(c) \ {LockOf(c)})
    /\ Goto(c, "popcli")
    /\ UNCHANGED <<owner, iflag, ncli, intena, cur, intr, fresh, lk, eflags,
                   saved, panicked>>

(* popcli; the scheduler goes round its loop after its release. *)
Popcli(c) ==
    /\ At(c, "popcli")
    /\ panicked' = (iflag[c] \/ ncli[c] = 0)
    /\ ncli' = [ncli EXCEPT ![c] = IF @ = 0 THEN 0 ELSE @ - 1]
    /\ iflag' = [iflag EXCEPT ![c] = @ \/ (ncli[c] = 1 /\ intena[c])]
    /\ lk' = Set(lk, c, NoLock)
    /\ Goto(c, IF cur[c] = c /\ ~intr[c] THEN "loop" ELSE "run")
    /\ UNCHANGED <<locked, owner, intena, cur, intr, fresh, eflags, held, saved>>

-----------------------------------------------------------------------------
(* An interrupt gate masks interrupts; iret restores them. *)
Interrupt(c) ==
    /\ iflag[c]
    /\ ~intr[cur[c]]
    /\ iflag' = [iflag EXCEPT ![c] = FALSE]
    /\ intr' = [intr EXCEPT ![cur[c]] = TRUE]
    /\ pc' = [pc EXCEPT ![cur[c]]["intr"] = "run"]
    /\ UNCHANGED <<locked, owner, ncli, intena, cur, fresh, lk, eflags, held,
                   saved, panicked>>

Iret(c) ==
    /\ intr[cur[c]]
    /\ At(c, "run")
    /\ HeldOn(c) = {}
    /\ iflag' = [iflag EXCEPT ![c] = TRUE]
    /\ intr' = [intr EXCEPT ![cur[c]] = FALSE]
    /\ UNCHANGED <<locked, owner, ncli, intena, cur, fresh, pc, lk, eflags, held,
                   saved, panicked>>

(* forkret releases ptable.lock and "returns" to trapret, whose iret loads
   the FL_IF of the new trap frame.  What the first process does in between,
   iinit() and initlog(), is code like any other, with interrupts on. *)
ForkReturn(c) ==
    /\ fresh[cur[c]]
    /\ At(c, "run")
    /\ HeldOn(c) = {}
    /\ ~intr[cur[c]]
    /\ iflag' = [iflag EXCEPT ![c] = TRUE]
    /\ fresh' = [fresh EXCEPT ![cur[c]] = FALSE]
    /\ UNCHANGED <<locked, owner, ncli, intena, cur, intr, pc, lk, eflags, held,
                   saved, panicked>>

(* sti() at the head of scheduler()'s loop *)
Sti(c) ==
    /\ cur[c] = c /\ ~intr[c]
    /\ At(c, "loop")
    /\ iflag' = [iflag EXCEPT ![c] = TRUE]
    /\ Goto(c, "run")
    /\ UNCHANGED <<locked, owner, ncli, intena, cur, intr, fresh, lk, eflags,
                   held, saved, panicked>>

(* sched(): its checks, the saving of intena, and swtch to the scheduler. *)
Sched(c) ==
    /\ cur[c] \in Proc /\ (fresh[cur[c]] => intr[cur[c]])
    /\ At(c, "run")
    /\ HeldOn(c) = {ptable}
    /\ panicked' = (~Holding(c, ptable) \/ ncli[c] # 1 \/ iflag[c])
    /\ saved' = [saved EXCEPT ![cur[c]] = intena[c]]
    /\ cur' = [cur EXCEPT ![c] = c]
    /\ UNCHANGED <<locked, owner, iflag, ncli, intena, intr, fresh, pc, lk,
                   eflags, held>>

SwtchForgets(c, p) ==
    /\ cur[c] = c /\ ~intr[c]
    /\ At(c, "run")
    /\ HeldOn(c) = {ptable}
    /\ \A d \in Cpu : cur[d] # p
    /\ cur' = [cur EXCEPT ![c] = p]
    /\ saved' = [saved EXCEPT ![p] = FALSE]
    /\ UNCHANGED <<locked, owner, iflag, ncli, intena, intr, fresh, pc, lk,
                   eflags, held, panicked>>

(* scheduler(): swtch to a process, which continues in sched() by restoring
   its own intena on the CPU it now runs on, or in forkret.  An interrupt can
   also switch away a process that is still in forkret. *)
Swtch(c, p) ==
    /\ cur[c] = c /\ ~intr[c]
    /\ At(c, "run")
    /\ HeldOn(c) = {ptable}
    /\ \A d \in Cpu : cur[d] # p
    /\ cur' = [cur EXCEPT ![c] = p]
    /\ intena' = IF fresh[p] /\ ~intr[p] THEN intena ELSE [intena EXCEPT ![c] = saved[p]]
    /\ saved' = [saved EXCEPT ![p] = FALSE]
    /\ UNCHANGED <<locked, owner, iflag, ncli, intr, fresh, pc, lk, eflags, held,
                   panicked>>

Step(c) ==
    \/ \E l \in Lock : Acquire(c, l) \/ Release(c, l)
    \/ Pushcli(c) \/ Xchg(c) \/ Record(c) \/ Unlock(c) \/ Popcli(c)
    \/ Interrupt(c) \/ Iret(c) \/ ForkReturn(c) \/ Sti(c) \/ Sched(c)
    \/ \E p \in Proc : Swtch(c, p)

Next == ~panicked /\ \E c \in Cpu : Step(c)

Spec == Init /\ [][Next]_vars

-----------------------------------------------------------------------------
(* Properties. *)

(* A lock that the code running on one CPU holds is held by no other CPU,
   also when ptable.lock changes hands between stacks in swtch. *)
MutualExclusion ==
    \A c, d \in Cpu : c # d => HeldOn(c) \cap HeldOn(d) = {}

(* No CPU takes interrupts while its code holds a lock: a handler can never
   spin on a lock held by the code it interrupted. *)
MaskedWhileHolding ==
    \A c \in Cpu : HeldOn(c) # {} => ~iflag[c]

(* Interrupts are a property of the kernel stack, although intena is kept per
   CPU: wherever a process continues, its own code runs with interrupts on
   again once it has released its locks, and a handler runs with them off. *)
InterruptsFollowStack ==
    \A c \in Cpu :
        LET t == cur[c] IN
        /\ intr[t] => ~iflag[c]
        /\ t \in Proc /\ ~fresh[t] /\ ~intr[t] /\ At(c, "run") /\ HeldOn(c) = {}
              => iflag[c]

(* ncli counts exactly the locks of the code that runs on the CPU and the
   acquire or release it is in the middle of. *)
NcliCounts ==
    \A c \in Cpu :
        ncli[c] = Cardinality(HeldOn(c))
                    + (IF At(c, "xchg") \/ At(c, "popcli") THEN 1 ELSE 0)

(* No panic of acquire, release, popcli or sched is reachable. *)
NoLockPanic == ~panicked

(* What pushcli, popcli and sched keep true together on every CPU, wherever an
   interrupt or a switch of stacks falls: ncli counts the locks, interrupts are
   off under one and come back when the stack has released its last. *)
LockInv == TypeOK /\ NcliCounts /\ MaskedWhileHolding /\ InterruptsFollowStack
=============================================================================
