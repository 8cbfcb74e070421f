-------------------------------- MODULE Proc --------------------------------
(***************************************************************************)
(* The process table (proc.c of project_4): fork, exit, wait, kill, sleep, *)
(* wakeup, yield, setpri and the priority scheduler, on several CPUs.      *)
(*                                                                         *)
(* A process runs when some CPU c has cur[c] equal to its slot; with       *)
(* cur[c] = 0 the CPU is in scheduler().  Code between acquire and release *)
(* of ptable.lock is one step, except where the lock is handed through     *)
(* swtch from a process to the scheduler or back: then lock names the CPU  *)
(* that holds it.  What fork() does without the lock is done in separate   *)
(* steps.  sys_uptime() inside the scheduler is in Clock.                  *)
(***************************************************************************)
EXTENDS Naturals, FiniteSets

CONSTANTS
    CPU,
    NPROC,      \* number of slots of ptable.proc
    MaxPid,     \* bound: fork is not called after this pid
    KillPids,   \* pids that processes pass to kill
    Priority    \* priorities passed to setpri

LOW_PRI == 1
HIGH_PRI == 2

Slot == 1 .. NPROC
Nobody == 0        \* the null pointer to a struct proc
initproc == 1      \* userinit() runs first and takes the first slot
IO == NPROC + 1    \* a channel that is not a struct proc

ASSUME ProcAssumption ==
    /\ NPROC \in Nat \ {0} /\ MaxPid \in Nat \ {0}
    /\ KillPids \subseteq Nat \ {1}   \* nobody kills init
    /\ Priority \subseteq {LOW_PRI, HIGH_PRI}
    /\ CPU # {} /\ Nobody \notin CPU

VARIABLES
    state, pid, parent, chan, killed, pri,  \* fields of ptable.proc[i]
    nextpid,
    lock,    \* the CPU that holds ptable.lock across a step, or Nobody
    cur,     \* cur[c]: c->proc
    pos,     \* pos[c]: the slot p at which the scheduler's second loop is
    search,  \* search[c]: search_pri
    upc,     \* where the kernel code of a process is
    np       \* np[p]: the child that fork() of p is making

table == <<state, pid, parent, chan, killed, pri, nextpid>>
sched == <<cur, pos, search>>
vars == <<state, pid, parent, chan, killed, pri, nextpid, lock, cur, pos,
          search, upc, np>>

States == {"UNUSED", "EMBRYO", "SLEEPING", "RUNNABLE", "RUNNING", "ZOMBIE"}

(* user: in user space, or at its border;  forked: fork() after allocproc();
   copied: fork() before the second acquire;  wait: in the loop of wait();
   io: in a sleep() of some other system call. *)
Places == {"user", "forked", "copied", "wait", "io"}

TypeOK ==
    /\ state \in [Slot -> States]
    /\ pid \in [Slot -> 0 .. MaxPid]
    /\ parent \in [Slot -> Slot \cup {Nobody}]
    /\ chan \in [Slot -> 0 .. IO]
    /\ killed \in [Slot -> BOOLEAN]
    /\ pri \in [Slot -> {0, LOW_PRI, HIGH_PRI}]
    /\ nextpid \in 1 .. MaxPid + 1
    /\ lock \in CPU \cup {Nobody}
    /\ cur \in [CPU -> Slot \cup {Nobody}]
    /\ pos \in [CPU -> 0 .. NPROC]
    /\ search \in [CPU -> {LOW_PRI, HIGH_PRI}]
    /\ upc \in [Slot -> Places]
    /\ np \in [Slot -> Slot \cup {Nobody}]

(* userinit() has run, the CPUs enter scheduler() *)
Init ==
    /\ state = [p \in Slot |-> IF p = initproc THEN "RUNNABLE" ELSE "UNUSED"]
    /\ pid = [p \in Slot |-> IF p = initproc THEN 1 ELSE 0]
    /\ parent = [p \in Slot |-> Nobody]
    /\ chan = [p \in Slot |-> 0]
    /\ killed = [p \in Slot |-> FALSE]
    /\ pri = [p \in Slot |-> IF p = initproc THEN LOW_PRI ELSE 0]
    /\ nextpid = 2
    /\ lock = Nobody
    /\ cur = [c \in CPU |-> Nobody]
    /\ pos = [c \in CPU |-> 0]
    /\ search = [c \in CPU |-> LOW_PRI]
    /\ upc = [p \in Slot |-> "user"]
    /\ np = [p \in Slot |-> Nobody]

First(S) == CHOOSE p \in S : \A q \in S : p <= q

-----------------------------------------------------------------------------
(* scheduler() *)

StartPassLow(c) ==
    /\ cur[c] = Nobody /\ lock = Nobody
    /\ lock' = c
    /\ pos' = [pos EXCEPT ![c] = 0]
    /\ search' = [search EXCEPT ![c] = LOW_PRI]
    /\ UNCHANGED <<table, cur, upc, np>>

StartPassUnset(c) ==
    /\ cur[c] = Nobody /\ lock = Nobody
    /\ lock' = c
    /\ pos' = [pos EXCEPT ![c] = 0]
    /\ search' = [search EXCEPT ![c] =
          IF \E p \in Slot : state[p] = "RUNNABLE" /\ pri[p] = HIGH_PRI
          THEN HIGH_PRI ELSE 0]
    /\ UNCHANGED <<table, cur, upc, np>>

(* Start of a pass: acquire, and the first loop, which finds the priority
   to run. *)
StartPass(c) ==
    /\ cur[c] = Nobody /\ lock = Nobody
    /\ lock' = c
    /\ pos' = [pos EXCEPT ![c] = 0]
    /\ search' = [search EXCEPT ![c] =
          IF \E p \in Slot : state[p] = "RUNNABLE" /\ pri[p] = HIGH_PRI
          THEN HIGH_PRI ELSE LOW_PRI]
    /\ UNCHANGED <<table, cur, upc, np>>

Eligible(c) == {p \in Slot : /\ p > pos[c]
                             /\ state[p] = "RUNNABLE"
                             /\ pri[p] = search[c]}

(* The second loop goes on to the next slot that may run *)
Dispatch(c) ==
    /\ cur[c] = Nobody /\ lock = c /\ Eligible(c) # {}
    /\ LET p == First(Eligible(c)) IN
          /\ cur' = [cur EXCEPT ![c] = p]
          /\ pos' = [pos EXCEPT ![c] = p]
          /\ state' = [state EXCEPT ![p] = "RUNNING"]
    /\ UNCHANGED <<pid, parent, chan, killed, pri, nextpid, lock, search, upc,
                   np>>

(* ... and ends when there is none; its variables are dead. *)
EndPass(c) ==
    /\ cur[c] = Nobody /\ lock = c /\ Eligible(c) = {}
    /\ lock' = Nobody
    /\ pos' = [pos EXCEPT ![c] = 0]
    /\ search' = [search EXCEPT ![c] = LOW_PRI]
    /\ UNCHANGED <<table, cur, upc, np>>

(* In the scheduler after swtch: search_pri follows a process that has raised its
   priority, unless it has exited. *)
KeptPriority(c) ==
    IF state[cur[c]] # "ZOMBIE" /\ pri[cur[c]] > search[c]
    THEN pri[cur[c]] ELSE search[c]

(* sched(): a process that has changed its state swtches to the scheduler. *)
Sched(c) ==
    /\ cur[c] # Nobody /\ lock = c /\ state[cur[c]] # "RUNNING"
    /\ cur' = [cur EXCEPT ![c] = Nobody]
    /\ search' = [search EXCEPT ![c] = KeptPriority(c)]
    /\ UNCHANGED <<table, lock, pos, upc, np>>

(* The other side of swtch: the end of yield(), of sleep() on another lock
   than ptable.lock, or forkret(). *)
Resume(c) ==
    LET p == cur[c] IN
    /\ p # Nobody /\ lock = c /\ state[p] = "RUNNING" /\ upc[p] # "wait"
    /\ chan' = [chan EXCEPT ![p] = 0]
    /\ lock' = Nobody
    /\ UNCHANGED <<state, pid, parent, killed, pri, nextpid, sched, upc, np>>

-----------------------------------------------------------------------------
(* What the process cur[c] does on CPU c. *)

Running(c) == cur[c] # Nobody /\ lock # c

InUser(c) == Running(c) /\ upc[cur[c]] = "user"

(* In user space a killed process only exits: trap() *)
MayCall(c) == InUser(c) /\ ~killed[cur[c]]

WakeupOn(ch, s) ==
    [p \in Slot |-> IF s[p] = "SLEEPING" /\ chan[p] = ch
                    THEN "RUNNABLE" ELSE s[p]]

(* yield(), on a timer interrupt *)
Yield(c) ==
    /\ Running(c) /\ lock = Nobody
    /\ state' = [state EXCEPT ![cur[c]] = "RUNNABLE"]
    /\ lock' = c
    /\ UNCHANGED <<pid, parent, chan, killed, pri, nextpid, sched, upc, np>>

(* fork(): allocproc() takes the first free slot, if there is one *)
ForkAlloc(c) ==
    LET free == {q \in Slot : state[q] = "UNUSED"} IN
    /\ MayCall(c) /\ lock = Nobody
    /\ nextpid <= MaxPid
    /\ free # {}
    /\ LET q == First(free) IN
          /\ state' = [state EXCEPT ![q] = "EMBRYO"]
          /\ pid' = [pid EXCEPT ![q] = nextpid]
          /\ pri' = [pri EXCEPT ![q] = LOW_PRI]
          /\ np' = [np EXCEPT ![cur[c]] = q]
    /\ nextpid' = nextpid + 1
    /\ upc' = [upc EXCEPT ![cur[c]] = "forked"]
    /\ UNCHANGED <<parent, chan, killed, lock, sched>>

(* kalloc() or copyuvm() fails: the slot is given back without the lock *)
ForkFail(c) ==
    LET p == cur[c] IN
    /\ Running(c) /\ upc[p] = "forked"
    /\ state' = [state EXCEPT ![np[p]] = "UNUSED"]
    /\ np' = [np EXCEPT ![p] = Nobody]
    /\ upc' = [upc EXCEPT ![p] = "user"]
    /\ UNCHANGED <<pid, parent, chan, killed, pri, nextpid, lock, sched>>

ForkCopy(c) ==
    LET p == cur[c] IN
    /\ Running(c) /\ upc[p] = "forked"
    /\ parent' = [parent EXCEPT ![np[p]] = p]
    /\ upc' = [upc EXCEPT ![p] = "copied"]
    /\ UNCHANGED <<state, pid, chan, killed, pri, nextpid, lock, sched, np>>

ForkDone(c) ==
    LET p == cur[c] IN
    /\ Running(c) /\ upc[p] = "copied" /\ lock = Nobody
    /\ state' = [state EXCEPT ![np[p]] = "RUNNABLE"]
    /\ pri' = [pri EXCEPT ![np[p]] = LOW_PRI]
    /\ np' = [np EXCEPT ![p] = Nobody]
    /\ upc' = [upc EXCEPT ![p] = "user"]
    /\ UNCHANGED <<pid, parent, chan, killed, nextpid, lock, sched>>

ExitNoReparent(c) ==
    LET p == cur[c] IN
    /\ InUser(c) /\ lock = Nobody /\ p # initproc
    /\ state' = [WakeupOn(parent[p], state) EXCEPT ![p] = "ZOMBIE"]
    /\ lock' = c
    /\ UNCHANGED <<pid, parent, chan, killed, pri, nextpid, sched, upc, np>>

ExitForgetsInit(c) ==
    LET p == cur[c] IN
    /\ InUser(c) /\ lock = Nobody /\ p # initproc
    /\ state' = [WakeupOn(parent[p], state) EXCEPT ![p] = "ZOMBIE"]
    /\ parent' = [q \in Slot |-> IF parent[q] = p THEN initproc ELSE parent[q]]
    /\ lock' = c
    /\ UNCHANGED <<pid, chan, killed, pri, nextpid, sched, upc, np>>

ExitUnlocks(c) ==
    LET p == cur[c] IN
    /\ InUser(c) /\ lock = Nobody /\ p # initproc
    /\ state' = [WakeupOn(parent[p], state) EXCEPT ![p] = "ZOMBIE"]
    /\ parent' = [q \in Slot |-> IF parent[q] = p THEN initproc ELSE parent[q]]
    /\ UNCHANGED <<pid, chan, killed, pri, nextpid, lock, sched, upc, np>>

(* exit(): wake the parent, give the children to init, become a zombie;
   init itself panics instead and never gets here. *)
Exit(c) ==
    LET p == cur[c]
        children == {q \in Slot : parent[q] = p}
        woken == WakeupOn(parent[p], state)
    IN
    /\ InUser(c) /\ lock = Nobody /\ p # initproc
    /\ parent' = [q \in Slot |-> IF q \in children THEN initproc ELSE parent[q]]
    /\ state' = [ IF \E q \in children : state[q] = "ZOMBIE"
                  THEN WakeupOn(initproc, woken) ELSE woken
                  EXCEPT ![p] = "ZOMBIE"]
    /\ lock' = c
    /\ UNCHANGED <<pid, chan, killed, pri, nextpid, sched, upc, np>>

(* wait() acquires ptable.lock ... *)
Wait(c) ==
    /\ MayCall(c) /\ lock = Nobody
    /\ lock' = c
    /\ upc' = [upc EXCEPT ![cur[c]] = "wait"]
    /\ UNCHANGED <<table, sched, np>>

Kids(p) == {q \in Slot : parent[q] = p}
Zombies(p) == {q \in Kids(p) : state[q] = "ZOMBIE"}

(* ... reaps the first zombie among the children ... *)
WaitReap(c) ==
    LET p == cur[c]
        z == First(Zombies(p))
    IN
    /\ p # Nobody /\ lock = c /\ state[p] = "RUNNING" /\ upc[p] = "wait"
    /\ Zombies(p) # {}
    /\ state' = [state EXCEPT ![z] = "UNUSED"]
    /\ pid' = [pid EXCEPT ![z] = 0]
    /\ parent' = [parent EXCEPT ![z] = Nobody]
    /\ killed' = [killed EXCEPT ![z] = FALSE]
    /\ chan' = [chan EXCEPT ![p] = 0]
    /\ upc' = [upc EXCEPT ![p] = "user"]
    /\ lock' = Nobody
    /\ UNCHANGED <<pri, nextpid, sched, np>>

(* ... or returns -1, or sleeps until a child exits. *)
WaitNone(c) ==
    LET p == cur[c] IN
    /\ p # Nobody /\ lock = c /\ state[p] = "RUNNING" /\ upc[p] = "wait"
    /\ Zombies(p) = {}
    /\ IF Kids(p) = {} \/ killed[p]
       THEN /\ chan' = [chan EXCEPT ![p] = 0]
            /\ upc' = [upc EXCEPT ![p] = "user"]
            /\ lock' = Nobody
            /\ UNCHANGED state
       ELSE /\ chan' = [chan EXCEPT ![p] = p]
            /\ state' = [state EXCEPT ![p] = "SLEEPING"]
            /\ UNCHANGED <<upc, lock>>
    /\ UNCHANGED <<pid, parent, killed, pri, nextpid, sched, np>>

(* Any other system call that sleeps, once or in a loop *)
Sleep(c) ==
    LET p == cur[c] IN
    /\ MayCall(c) \/ (Running(c) /\ upc[p] = "io")
    /\ lock = Nobody
    /\ chan' = [chan EXCEPT ![p] = IO]
    /\ state' = [state EXCEPT ![p] = "SLEEPING"]
    /\ upc' = [upc EXCEPT ![p] = "io"]
    /\ lock' = c
    /\ UNCHANGED <<pid, parent, killed, pri, nextpid, sched, np>>

SleepDone(c) ==
    /\ Running(c) /\ upc[cur[c]] = "io"
    /\ upc' = [upc EXCEPT ![cur[c]] = "user"]
    /\ UNCHANGED <<table, lock, sched, np>>

(* wakeup() by an interrupt handler or by another process *)
Wakeup ==
    /\ lock = Nobody
    /\ \E p \in Slot : state[p] = "SLEEPING" /\ chan[p] = IO
    /\ state' = WakeupOn(IO, state)
    /\ UNCHANGED <<pid, parent, chan, killed, pri, nextpid, lock, sched, upc,
                   np>>

(* kill(k): the first slot with that pid *)
Kill(c, k) ==
    LET named == {q \in Slot : pid[q] = k}
        q == First(named)
    IN
    /\ MayCall(c) /\ lock = Nobody
    /\ named # {}
    /\ killed' = [killed EXCEPT ![q] = TRUE]
    /\ state' = [state EXCEPT ![q] = IF @ = "SLEEPING" THEN "RUNNABLE" ELSE @]
    /\ UNCHANGED <<pid, parent, chan, pri, nextpid, lock, sched, upc, np>>

(* setpri() of the running process itself *)
Setpri(c, k) ==
    /\ MayCall(c) /\ lock = Nobody
    /\ pri[cur[c]] # k
    /\ pri' = [pri EXCEPT ![cur[c]] = k]
    /\ UNCHANGED <<state, pid, parent, chan, killed, nextpid, lock, sched, upc,
                   np>>

-----------------------------------------------------------------------------
SchedulerStep(c) == StartPass(c) \/ Dispatch(c) \/ EndPass(c)

Switch(c) == Sched(c) \/ Resume(c)

ForkStep(c) == ForkAlloc(c) \/ ForkFail(c) \/ ForkCopy(c) \/ ForkDone(c)

WaitStep(c) == WaitReap(c) \/ WaitNone(c)

Next ==
    \/ \E c \in CPU :
          \/ SchedulerStep(c) \/ Switch(c) \/ Yield(c)
          \/ ForkStep(c) \/ Exit(c) \/ Wait(c) \/ WaitStep(c)
          \/ Sleep(c) \/ SleepDone(c)
          \/ \E k \in KillPids : Kill(c, k)
          \/ \E k \in Priority : Setpri(c, k)
    \/ Wakeup

Spec == Init /\ [][Next]_vars

(* The scheduler of every CPU runs on, and so does code that holds ptable.lock.
   The lock is free again and again, and then every CPU gets it in the end.
   Timer interrupts keep coming, so a CPU does not run one process forever: it
   yields, or the process has given the CPU up and the scheduler searches. *)
Fairness ==
    \A c \in CPU :
        /\ WF_vars(Dispatch(c) \/ EndPass(c))
        /\ WF_vars(Switch(c)) /\ WF_vars(WaitStep(c))
        /\ SF_vars(StartPass(c) \/ Yield(c))

FairSpec == Spec /\ Fairness

-----------------------------------------------------------------------------
(* Properties. *)

Alive(p) == state[p] \in {"SLEEPING", "RUNNABLE", "RUNNING"}

(* A process runs on one CPU at most, and nobody gives its kernel stack to
   somebody else, or runs it, before the CPU has left it: sched() hands
   ptable.lock to the scheduler. *)
OneCpuPerProcess ==
    /\ \A c \in CPU : cur[c] # Nobody =>
          \/ state[cur[c]] = "RUNNING"
          \/ lock = c /\ state[cur[c]] \in {"RUNNABLE", "SLEEPING", "ZOMBIE"}
    /\ \A c, d \in CPU : c # d /\ cur[c] # Nobody => cur[c] # cur[d]
    /\ \A p \in Slot : state[p] = "RUNNING" => \E c \in CPU : cur[c] = p

(* Every process, zombies included, has a parent that is able to wait for it:
   exit() gives the children of the dead to init. *)
ParentAlive ==
    \A p \in Slot : p # initproc /\ (Alive(p) \/ state[p] = "ZOMBIE") =>
        parent[p] # Nobody /\ Alive(parent[p])

(* A process that sleeps in wait() has children, none of them has exited,
   and it has not been killed. *)
WaitersMustWait ==
    \A p \in Slot : state[p] = "SLEEPING" /\ chan[p] = p =>
        Kids(p) # {} /\ Zombies(p) = {} /\ ~killed[p]

(* "A low-priority (level 1) process does NOT run as long as there are
   high-priority jobs available to run." *)
HighFirst ==
    [][\A c \in CPU : Dispatch(c) /\ pri[cur'[c]] = LOW_PRI =>
          ~ \E p \in Slot : state[p] = "RUNNABLE" /\ pri[p] = HIGH_PRI]_vars

HighBusy ==
    \E q \in Slot : pri[q] = HIGH_PRI /\ state[q] \in {"RUNNABLE", "RUNNING"}

Served(p) == state[p] = "RUNNABLE" => pri[p] = LOW_PRI /\ HighBusy

(* "If there are two or more processes that have the same high priority, the
   scheduler should round-robin between them": a runnable process gets its turn.
   A low-priority one may have to wait for ever, but only while processes of
   high priority keep running.  Without such processes this is the round-robin
   scheduler of project_1 to project_3. *)
NoStarvation == \A p \in Slot : []<>Served(p)
=============================================================================
