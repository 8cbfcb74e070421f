------------------------------- MODULE Clock --------------------------------
(***************************************************************************)
(* Time: the timer interrupt (trap.c), sys_sleep() and sys_uptime()        *)
(* (sysproc.c), the scheduler's use of the clock (proc.c of project_4) and *)
(* the two spin locks they take, tickslock and ptable.lock.                *)
(*                                                                         *)
(* Which process the scheduler picks is in Proc; here it may pick any.  A  *)
(* CPU that holds a spin lock is not interrupted (see Spinlock).           *)
(***************************************************************************)
EXTENDS Naturals

CONSTANTS
    CPU, BootCPU,          \* BootCPU has cpuid() = 0 and keeps the time
    Proc,
    Free,                  \* holder of a free lock, process of an idle CPU
    TickMod,               \* ticks is an unsigned integer modulo this
    SleepArg,              \* values of n passed to sleep, converted to unsigned
    Priority               \* priorities passed to setpri

LOW_PRI == 1
HIGH_PRI == 2

ClockAssumption ==
    /\ BootCPU \in CPU
    /\ Free \notin CPU \cup Proc
    /\ TickMod \in Nat \ {0} /\ SleepArg \subseteq 0 .. TickMod - 1
    /\ Priority \subseteq {LOW_PRI, HIGH_PRI}

VARIABLES
    ticks, tickslock, ptable,     \* the counter and the holders of the locks
    cpc,        \* cpc[c]: where CPU c is
    irq,        \* irq[c]: where its timer handler is
    cur,        \* cur[c]: c->proc
    pstate, killed, pri,          \* fields of struct proc
    insleep,    \* insleep[p]: p is in sys_sleep()
    ticks0, n,  \* its variables
    sched_time, lop_ticks, hip_ticks,
    elapsed,    \* history: ticks since p called sleep, at most n[p]
    ran         \* history: ran[p]: ticks while p had a CPU

locks == <<tickslock, ptable>>
sleepvars == <<insleep, ticks0, n, elapsed>>
accounts == <<sched_time, lop_ticks, hip_ticks>>
vars == <<ticks, locks, cpc, irq, cur, pstate, killed, pri, sleepvars,
          accounts, ran>>

(* loop: scheduler, without ptable.lock;  scan: scheduler, with it;  uptime: the
   scheduler is about to read the clock for the process it has picked;
   resumed: back in the process, ptable.lock still held;  proc: in the process,
   no lock held;  test: in the loop of sys_sleep, with tickslock;  sleep: in
   sleep(), before acquire(&ptable.lock);  back: in the scheduler after swtch. *)
CpuPlaces == {"loop", "scan", "uptime", "resumed", "proc", "test", "sleep", "back"}

(* acquire: before acquire(&tickslock);  wakeup: before wakeup(&ticks);
   yield: the handler is done and the process has to give up the CPU. *)
IrqPlaces == {"none", "acquire", "wakeup", "yield"}

TypeOK ==
    /\ ticks \in 0 .. TickMod - 1
    /\ tickslock \in CPU \cup {Free} /\ ptable \in CPU \cup {Free}
    /\ cpc \in [CPU -> CpuPlaces] /\ irq \in [CPU -> IrqPlaces]
    /\ cur \in [CPU -> Proc \cup {Free}]
    /\ pstate \in [Proc -> {"RUNNABLE", "RUNNING", "SLEEPING"}]
    /\ killed \in [Proc -> BOOLEAN]
    /\ pri \in [Proc -> {LOW_PRI, HIGH_PRI}]
    /\ insleep \in [Proc -> BOOLEAN]
    /\ ticks0 \in [Proc -> 0 .. TickMod - 1]
    /\ n \in [Proc -> 0 .. TickMod - 1]
    /\ sched_time \in [Proc -> 0 .. TickMod - 1]
    /\ lop_ticks \in [Proc -> 0 .. TickMod - 1]
    /\ hip_ticks \in [Proc -> 0 .. TickMod - 1]
    /\ elapsed \in [Proc -> 0 .. TickMod - 1]
    /\ ran \in [Proc -> 0 .. TickMod - 1]

Init ==
    /\ ticks = 0 /\ tickslock = Free /\ ptable = Free
    /\ cpc = [c \in CPU |-> "loop"] /\ irq = [c \in CPU |-> "none"]
    /\ cur = [c \in CPU |-> Free]
    /\ pstate = [p \in Proc |-> "RUNNABLE"]
    /\ killed = [p \in Proc |-> FALSE]
    /\ pri = [p \in Proc |-> LOW_PRI]
    /\ insleep = [p \in Proc |-> FALSE]
    /\ ticks0 = [p \in Proc |-> 0] /\ n = [p \in Proc |-> 0]
    /\ sched_time = [p \in Proc |-> 0]
    /\ lop_ticks = [p \in Proc |-> 0] /\ hip_ticks = [p \in Proc |-> 0]
    /\ elapsed = [p \in Proc |-> 0]
    /\ ran = [p \in Proc |-> 0]

At(c, place) == cpc[c] = place /\ irq[c] = "none"
Goto(c, place) == cpc' = [cpc EXCEPT ![c] = place]

(* Unsigned subtraction *)
Minus(a, b) == (a + TickMod - b) % TickMod

-----------------------------------------------------------------------------
(* scheduler() *)

StartPass(c) ==
    /\ At(c, "loop") /\ ptable = Free
    /\ ptable' = c
    /\ Goto(c, "scan")
    /\ UNCHANGED <<ticks, tickslock, irq, cur, pstate, killed, pri, sleepvars,
                   accounts, ran>>

Dispatch(c, p) ==
    /\ At(c, "scan") /\ pstate[p] = "RUNNABLE"
    /\ cur' = [cur EXCEPT ![c] = p]
    /\ pstate' = [pstate EXCEPT ![p] = "RUNNING"]
    /\ Goto(c, "uptime")
    /\ UNCHANGED <<ticks, locks, irq, killed, pri, sleepvars, accounts, ran>>

EndPass(c) ==
    /\ At(c, "scan")
    /\ ptable' = Free
    /\ Goto(c, "loop")
    /\ UNCHANGED <<ticks, tickslock, irq, cur, pstate, killed, pri, sleepvars,
                   accounts, ran>>

(* p->sched_time = sys_uptime(), which takes and releases tickslock *)
Uptime(c) ==
    /\ At(c, "uptime") /\ tickslock = Free
    /\ sched_time' = [sched_time EXCEPT ![cur[c]] = ticks]
    /\ Goto(c, "resumed")
    /\ UNCHANGED <<ticks, locks, irq, cur, pstate, killed, pri, sleepvars,
                   lop_ticks, hip_ticks, ran>>

ChargeFallsThrough(c) ==
    LET p == cur[c]
        tdif == Minus(ticks, sched_time[p])
    IN
    /\ lop_ticks' = [lop_ticks EXCEPT ![p] =
          IF pri[p] = LOW_PRI THEN (@ + tdif) % TickMod ELSE @]
    /\ hip_ticks' = [hip_ticks EXCEPT ![p] = (@ + tdif) % TickMod]
    /\ sched_time' = [sched_time EXCEPT ![p] = 0]

(* After swtch: charge the ticks to the priority the process has now; its
   sched_time is dead. *)
Charge(c) ==
    LET p == cur[c]
        tdif == Minus(ticks, sched_time[p])
    IN
    /\ IF pri[p] = LOW_PRI
       THEN /\ lop_ticks' = [lop_ticks EXCEPT ![p] = (@ + tdif) % TickMod]
            /\ UNCHANGED hip_ticks
       ELSE /\ hip_ticks' = [hip_ticks EXCEPT ![p] = (@ + tdif) % TickMod]
            /\ UNCHANGED lop_ticks
    /\ sched_time' = [sched_time EXCEPT ![p] = 0]

Back(c) ==
    /\ At(c, "back")
    /\ tickslock = Free
    /\ Charge(c)
    /\ cur' = [cur EXCEPT ![c] = Free]
    /\ Goto(c, "scan")
    /\ UNCHANGED <<ticks, locks, irq, pstate, killed, pri, sleepvars, ran>>

(* The process releases ptable.lock, at the end of yield() or in sleep() *)
Resume(c) ==
    /\ At(c, "resumed")
    /\ ptable' = Free
    /\ Goto(c, "proc")
    /\ UNCHANGED <<ticks, tickslock, irq, cur, pstate, killed, pri, sleepvars,
                   accounts, ran>>

-----------------------------------------------------------------------------
(* The process on CPU c *)

(* sys_sleep(): acquire(&tickslock); ticks0 = ticks *)
SysSleep(c, k) ==
    LET p == cur[c] IN
    /\ At(c, "proc") /\ ~insleep[p] /\ ~killed[p] /\ tickslock = Free
    /\ tickslock' = c
    /\ insleep' = [insleep EXCEPT ![p] = TRUE]
    /\ ticks0' = [ticks0 EXCEPT ![p] = ticks]
    /\ n' = [n EXCEPT ![p] = k]
    /\ elapsed' = [elapsed EXCEPT ![p] = 0]
    /\ Goto(c, "test")
    /\ UNCHANGED <<ticks, ptable, irq, cur, pstate, killed, pri, accounts, ran>>

(* sys_sleep() with an if in place of the while *)
RelockReturns(c) ==
    LET p == cur[c] IN
    /\ At(c, "proc") /\ insleep[p] /\ tickslock = Free
    /\ insleep' = [insleep EXCEPT ![p] = FALSE]
    /\ ticks0' = [ticks0 EXCEPT ![p] = 0] /\ n' = [n EXCEPT ![p] = 0]
    /\ elapsed' = [elapsed EXCEPT ![p] = 0]
    /\ UNCHANGED <<ticks, locks, cpc, irq, cur, pstate, killed, pri, accounts, ran>>

(* acquire(&tickslock) at the end of sleep(), then the test of the while again *)
Relock(c) ==
    /\ At(c, "proc") /\ insleep[cur[c]] /\ tickslock = Free
    /\ tickslock' = c
    /\ Goto(c, "test")
    /\ UNCHANGED <<ticks, ptable, irq, cur, pstate, killed, pri, sleepvars,
                   accounts, ran>>

DueAbsolute(p) == ticks >= (ticks0[p] + n[p]) % TickMod

Due(p) == Minus(ticks, ticks0[p]) >= n[p]

(* The test of the loop: sleep on, or return *)
TestLoop(c) ==
    /\ At(c, "test") /\ ~Due(cur[c]) /\ ~killed[cur[c]]
    /\ Goto(c, "sleep")
    /\ UNCHANGED <<ticks, locks, irq, cur, pstate, killed, pri, sleepvars,
                   accounts, ran>>

Return(c) ==
    LET p == cur[c] IN
    /\ At(c, "test") /\ (Due(p) \/ killed[p])
    /\ tickslock' = Free
    /\ insleep' = [insleep EXCEPT ![p] = FALSE]
    /\ ticks0' = [ticks0 EXCEPT ![p] = 0] /\ n' = [n EXCEPT ![p] = 0]
    /\ elapsed' = [elapsed EXCEPT ![p] = 0]
    /\ Goto(c, "proc")
    /\ UNCHANGED <<ticks, ptable, irq, cur, pstate, killed, pri, accounts, ran>>

(* sleep(&ticks, &tickslock): ptable.lock is taken before tickslock is given up *)
Sleep(c) ==
    /\ At(c, "sleep") /\ ptable = Free
    /\ ptable' = c /\ tickslock' = Free
    /\ pstate' = [pstate EXCEPT ![cur[c]] = "SLEEPING"]
    /\ Goto(c, "back")
    /\ UNCHANGED <<ticks, irq, cur, killed, pri, sleepvars, accounts, ran>>

Setpri(c, k) ==
    /\ At(c, "proc") /\ ~insleep[cur[c]] /\ ptable = Free
    /\ pri' = [pri EXCEPT ![cur[c]] = k]
    /\ UNCHANGED <<ticks, locks, cpc, irq, cur, pstate, killed, sleepvars,
                   accounts, ran>>

(* kill() by a process on CPU c *)
Kill(c, p) ==
    /\ At(c, "proc") /\ ~insleep[cur[c]] /\ ptable = Free /\ p # cur[c]
    /\ killed' = [killed EXCEPT ![p] = TRUE]
    /\ pstate' = [pstate EXCEPT ![p] = IF @ = "SLEEPING" THEN "RUNNABLE" ELSE @]
    /\ UNCHANGED <<ticks, locks, cpc, irq, cur, pri, sleepvars, accounts, ran>>

(* A killed process exits in user space; a new one takes its place. *)
Exit(c) ==
    /\ At(c, "proc") /\ ~insleep[cur[c]] /\ killed[cur[c]]
    /\ killed' = [killed EXCEPT ![cur[c]] = FALSE]
    /\ UNCHANGED <<ticks, locks, cpc, irq, cur, pstate, pri, sleepvars,
                   accounts, ran>>

-----------------------------------------------------------------------------
(* trap(), for a timer interrupt *)

AfterTimer(c) == IF cpc[c] = "proc" THEN "yield" ELSE "none"

Timer(c) ==
    /\ At(c, "loop") \/ At(c, "proc")
    /\ irq' = [irq EXCEPT ![c] = IF c = BootCPU THEN "acquire" ELSE AfterTimer(c)]
    /\ UNCHANGED <<ticks, locks, cpc, cur, pstate, killed, pri, sleepvars,
                   accounts, ran>>

Charged(p) == \E c \in CPU : cur[c] = p /\ cpc[c] # "uptime"

(* acquire(&tickslock); ticks++ *)
Tick(c) ==
    /\ irq[c] = "acquire" /\ tickslock = Free
    /\ tickslock' = c
    /\ ticks' = (ticks + 1) % TickMod
    /\ irq' = [irq EXCEPT ![c] = "wakeup"]
    /\ elapsed' = [p \in Proc |-> IF insleep[p] /\ elapsed[p] < n[p]
                                  THEN elapsed[p] + 1 ELSE elapsed[p]]
    /\ ran' = [p \in Proc |-> IF Charged(p) THEN (ran[p] + 1) % TickMod
                                           ELSE ran[p]]
    /\ UNCHANGED <<ptable, cpc, cur, pstate, killed, pri, insleep, ticks0, n,
                   accounts>>

(* wakeup(&ticks), which takes ptable.lock; release(&tickslock) *)
Wakeup(c) ==
    /\ irq[c] = "wakeup" /\ ptable = Free
    /\ pstate' = [p \in Proc |-> IF pstate[p] = "SLEEPING" THEN "RUNNABLE"
                                                          ELSE pstate[p]]
    /\ tickslock' = Free
    /\ irq' = [irq EXCEPT ![c] = AfterTimer(c)]
    /\ UNCHANGED <<ticks, ptable, cpc, cur, killed, pri, sleepvars, accounts, ran>>

Yield(c) ==
    /\ irq[c] = "yield" /\ ptable = Free
    /\ ptable' = c
    /\ pstate' = [pstate EXCEPT ![cur[c]] = "RUNNABLE"]
    /\ irq' = [irq EXCEPT ![c] = "none"]
    /\ Goto(c, "back")
    /\ UNCHANGED <<ticks, tickslock, cur, killed, pri, sleepvars, accounts, ran>>

-----------------------------------------------------------------------------
SchedulerStep(c) ==
    \/ StartPass(c) \/ EndPass(c) \/ Uptime(c) \/ Back(c) \/ Resume(c)
    \/ \E p \in Proc : Dispatch(c, p)

ProcessStep(c) ==
    \/ Relock(c) \/ TestLoop(c) \/ Return(c) \/ Sleep(c) \/ Exit(c)
    \/ \E k \in SleepArg : SysSleep(c, k)
    \/ \E k \in Priority : Setpri(c, k)
    \/ \E p \in Proc : Kill(c, p)

TrapStep(c) == Timer(c) \/ Tick(c) \/ Wakeup(c) \/ Yield(c)

Next == \E c \in CPU : SchedulerStep(c) \/ ProcessStep(c) \/ TrapStep(c)

Spec == Init /\ [][Next]_vars

-----------------------------------------------------------------------------
(* Properties. *)

(* "Scheduler never returns.  It loops": no two CPUs wait for each other's lock,
   one in the scheduler, the other in the timer handler or in sys_sleep(). *)
NoLockCycle ==
    ~ \E c, d \in CPU :
        /\ ptable = c /\ cpc[c] \in {"uptime", "back"}
        /\ tickslock = d /\ (irq[d] = "wakeup" \/ cpc[d] = "sleep")

(* Whoever sleeps in sys_sleep() is not yet due, except while the timer handler
   is about to wake it: no tick is missed between the test and sched(). *)
SleepersNotDue ==
    tickslock = Free =>
        \A p \in Proc : pstate[p] = "SLEEPING" => ~Due(p)

(* What the test of the loop relies on: when it finds the sleeper due, n ticks
   have been counted since it called sleep(). *)
DueAfterTicks ==
    \A c \in CPU : cpc[c] = "test" /\ Due(cur[c]) => elapsed[cur[c]] = n[cur[c]]

(* Every tick that passes while a process has a CPU is charged to it once, to one
   of the two accounts that getpinfo() reports, whatever setpri() and the other
   CPU do in the middle of its slice. *)
TicksChargedOnce ==
    \A p \in Proc : (\A c \in CPU : cur[c] # p) =>
        (hip_ticks[p] + lop_ticks[p]) % TickMod = ran[p]

(* sleep(n): every tick wakes all sleepers, and whoever is not due goes back to
   sleep.  Between two ticks nobody sleeps who is due, and sleep() does not
   return 0 before n ticks, also when ticks wraps around in between. *)
SleepsExactly ==
    /\ [](TypeOK /\ SleepersNotDue)
    /\ [][\A p \in Proc :
             insleep[p] /\ ~insleep'[p] => killed[p] \/ elapsed[p] = n[p]]_vars
=============================================================================
