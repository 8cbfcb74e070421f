------------------------------ MODULE Threads ------------------------------
(***************************************************************************)
(* Kernel threads (project_3): clone and join beside fork, exit, wait and  *)
(* growproc.  A thread is a slot of the process table with isThread set    *)
(* that has the page directory of its creator.  join frees its slot, wait  *)
(* frees the slot of a process and its page directory.                     *)
(*                                                                         *)
(* What happens under ptable.lock is one step, sched() included; which     *)
(* RUNNABLE slot a CPU takes is left open (Proc has the scheduler's pass). *)
(* kill, open files and kernel stacks are left out.  Where the code panics *)
(* ("remap", "page not present") the step does not take place.             *)
(*                                                                         *)
(* Disciplined programs, like simple_threads and prod_cons, join their     *)
(* threads before they exit.  Any thread may fork, and change the size of  *)
(* the address space, of which each has its own copy in p->sz.             *)
(***************************************************************************)
EXTENDS Naturals, FiniteSets, FiniteSetsExt

CONSTANTS
    CPU,
    NPROC,       \* slots of the process table
    MaxPid,      \* bound on nextpid
    MaxSz,       \* bound on the pages of an address space
    Disciplined  \* no process exits that still has threads

ThreadsAssumption ==
    /\ NPROC \in Nat \ {0, 1} /\ MaxPid \in Nat \ {0, 1}
    /\ MaxSz \in Nat \ {0} /\ Disciplined \in BOOLEAN

VARIABLES
    ptable,      \* struct proc of each slot
    pages,       \* the user pages of each page directory
    dirs,        \* the page directories allocated
    cpu,         \* slot that each CPU runs, or 0
    nextpid,
    lost         \* slots that a failed clone left behind (history)

vars == <<ptable, pages, dirs, cpu, nextpid, lost>>

Slot == 1 .. NPROC
initproc == 1
Dir == 1 .. NPROC
Page == 0 .. MaxSz - 1

(* at: where in the kernel the process is; arg: np of clone and fork, the pid
   that join waits for *)
Proc == [state : {"UNUSED", "EMBRYO", "SLEEPING", "RUNNABLE", "RUNNING", "ZOMBIE"},
         pid : 0 .. MaxPid, parent : 0 .. NPROC, isThread : BOOLEAN,
         pgdir : 0 .. NPROC, sz : 0 .. MaxSz,
         at : {"user", "clone", "fork", "wait", "join", "yield"}, arg : Nat]

TypeOK ==
    /\ ptable \in [Slot -> Proc]
    /\ dirs \subseteq Dir /\ pages \in [Dir -> SUBSET Page]
    /\ cpu \in [CPU -> 0 .. NPROC] /\ nextpid \in 1 .. MaxPid + 1 /\ lost \subseteq Slot

Unused == [state |-> "UNUSED", pid |-> 0, parent |-> 0, isThread |-> FALSE,
           pgdir |-> 0, sz |-> 0, at |-> "user", arg |-> 0]

(* init waits for its child, a program of one page *)
Init ==
    /\ ptable = [s \in Slot |->
          CASE s = initproc -> [Unused EXCEPT !.state = "RUNNABLE", !.pid = 1,
                                  !.pgdir = 1, !.sz = 1]
            [] s = 2 -> [Unused EXCEPT !.state = "RUNNABLE", !.pid = 2,
                           !.parent = initproc, !.pgdir = 2, !.sz = 1]
            [] OTHER -> Unused]
    /\ dirs = {1, 2} /\ pages = [d \in Dir |-> IF d <= 2 THEN {0} ELSE {}]
    /\ cpu = [c \in CPU |-> 0] /\ nextpid = 3 /\ lost = {}

At(c, at) == cpu[c] # 0 /\ ptable[cpu[c]].at = at
Return(pt, s) == [pt EXCEPT ![s].at = "user", ![s].arg = 0]

-----------------------------------------------------------------------------
(* scheduler, yield *)

Schedule(c) ==
    \E s \in Slot :
       /\ cpu[c] = 0 /\ ptable[s].state = "RUNNABLE"
       /\ ptable' = [ptable EXCEPT ![s].state = "RUNNING"]
       /\ cpu' = [cpu EXCEPT ![c] = s]
       /\ UNCHANGED <<pages, dirs, nextpid, lost>>

(* trap() tests the state without ptable.lock *)
Tick(c) ==
    /\ At(c, "user") /\ ptable[cpu[c]].state = "RUNNING"
    /\ ptable' = [ptable EXCEPT ![cpu[c]].at = "yield"]
    /\ UNCHANGED <<pages, dirs, cpu, nextpid, lost>>

Yield(c) ==
    /\ At(c, "yield")
    /\ ptable' = [Return(ptable, cpu[c]) EXCEPT ![cpu[c]].state = "RUNNABLE"]
    /\ cpu' = [cpu EXCEPT ![c] = 0]
    /\ UNCHANGED <<pages, dirs, nextpid, lost>>

-----------------------------------------------------------------------------
(* fork and clone *)

FreeSlots == {s \in Slot : ptable[s].state = "UNUSED"}

(* allocproc; without a free slot the call fails and nothing changes *)
Alloc(c, call) ==
    /\ At(c, "user") /\ FreeSlots # {} /\ nextpid <= MaxPid
    /\ ptable' = [ptable EXCEPT
          ![Min(FreeSlots)] = [@ EXCEPT !.state = "EMBRYO", !.pid = nextpid,
                                        !.isThread = FALSE],
          ![cpu[c]] = [@ EXCEPT !.at = call, !.arg = Min(FreeSlots)]]
    /\ nextpid' = nextpid + 1
    /\ UNCHANGED <<pages, dirs, cpu, lost>>

(* copyuvm copies the pages that p->sz promises *)
Fork(c) ==
    LET s == cpu[c]
        np == ptable[s].arg
        d == Min(Dir \ dirs)
    IN /\ At(c, "fork") /\ 0 .. ptable[s].sz - 1 \subseteq pages[ptable[s].pgdir]
       /\ dirs' = dirs \cup {d}
       /\ pages' = [pages EXCEPT ![d] = 0 .. ptable[s].sz - 1]
       /\ ptable' = [Return(ptable, s) EXCEPT ![np] =
             [@ EXCEPT !.state = "RUNNABLE", !.parent = s, !.pgdir = d,
                       !.sz = ptable[s].sz, !.isThread = FALSE]]
       /\ UNCHANGED <<cpu, nextpid, lost>>

(* kalloc of the kernel stack, or copyuvm of fork, fails *)
AllocFail(c) ==
    /\ At(c, "fork") \/ At(c, "clone")
    /\ ptable' = [Return(ptable, cpu[c]) EXCEPT
                    ![ptable[cpu[c]].arg].state = "UNUSED"]
    /\ UNCHANGED <<pages, dirs, cpu, nextpid, lost>>

Clone(c) ==
    LET s == cpu[c]
    IN /\ At(c, "clone")
       /\ ptable' = [Return(ptable, s) EXCEPT ![ptable[s].arg] =
             [@ EXCEPT !.state = "RUNNABLE", !.parent = s, !.isThread = TRUE,
                       !.pgdir = ptable[s].pgdir, !.sz = ptable[s].sz]]
       /\ UNCHANGED <<pages, dirs, cpu, nextpid, lost>>

(* clone with a stack that is not page-aligned, or above the heap: the slot
   that allocproc took is not given back *)
CloneBadStack(c) ==
    /\ At(c, "clone")
    /\ ptable' = Return(ptable, cpu[c])
    /\ lost' = lost \cup {ptable[cpu[c]].arg}
    /\ UNCHANGED <<pages, dirs, cpu, nextpid>>

-----------------------------------------------------------------------------
(* exit, wait, join, growproc *)

Threads(s) == {t \in Slot : ptable[t].parent = s /\ ptable[t].isThread}
Kids(s) == {t \in Slot : ptable[t].parent = s /\ ~ptable[t].isThread}
Zombies(ts) == {t \in ts : ptable[t].state = "ZOMBIE"}

Wakeup1(pt, chans) ==
    [t \in Slot |->
       IF pt[t].state = "SLEEPING" /\ t \in chans
       THEN [pt[t] EXCEPT !.state = "RUNNABLE"] ELSE pt[t]]

AbandonKeepsKids(s, t) ==
    IF t \in Threads(s) THEN [ptable[t] EXCEPT !.parent = 0, !.state = "ZOMBIE"]
    ELSE ptable[t]

(* the threads of s become zombies of nobody, its children pass to init; a
   process that sleeps in wait or join sleeps on its own struct proc *)
Abandon(s, t) ==
    CASE t \in Threads(s) -> [ptable[t] EXCEPT !.parent = 0, !.state = "ZOMBIE"]
      [] t \in Kids(s) -> [ptable[t] EXCEPT !.parent = initproc]
      [] OTHER -> ptable[t]

ExitNoInitWakeup(c) ==
    LET s == cpu[c]
    IN /\ At(c, "user") /\ s # initproc /\ (Disciplined => Threads(s) = {})
       /\ ptable' = [Wakeup1([t \in Slot |-> Abandon(s, t)], {ptable[s].parent})
                       EXCEPT ![s].state = "ZOMBIE"]
       /\ cpu' = [cpu EXCEPT ![c] = 0]
       /\ UNCHANGED <<pages, dirs, nextpid, lost>>

Exit(c) ==
    LET s == cpu[c]
        chans == {ptable[s].parent}
                   \cup (IF Zombies(Kids(s)) # {} THEN {initproc} ELSE {})
    IN /\ At(c, "user") /\ s # initproc /\ (Disciplined => Threads(s) = {})
       /\ ptable' = [Wakeup1([t \in Slot |-> Abandon(s, t)], chans)
                       EXCEPT ![s].state = "ZOMBIE"]
       /\ cpu' = [cpu EXCEPT ![c] = 0]
       /\ UNCHANGED <<pages, dirs, nextpid, lost>>

Sleep(c, at, arg) ==
    /\ ptable' = [ptable EXCEPT ![cpu[c]] =
                    [@ EXCEPT !.state = "SLEEPING", !.at = at, !.arg = arg]]
    /\ cpu' = [cpu EXCEPT ![c] = 0]

Freed(p) == [p EXCEPT !.state = "UNUSED", !.pid = 0, !.parent = 0]

(* the children that wait() reaps: threads are left to join *)
WaitAlsoThreads(s) == Kids(s) \cup Threads(s)

WaitsFor(s) == Kids(s)

Wait(c) ==
    LET s == cpu[c]
        z == Min(Zombies(WaitsFor(s)))
    IN /\ At(c, "user") \/ At(c, "wait")
       /\ IF Zombies(WaitsFor(s)) # {}
          THEN /\ ptable' = [Return(ptable, s) EXCEPT ![z] = Freed(@)]
               /\ dirs' = dirs \ {ptable[z].pgdir}
               /\ pages' = [pages EXCEPT ![ptable[z].pgdir] = {}]
               /\ UNCHANGED cpu
          ELSE /\ IF WaitsFor(s) = {} \/ ptable[s].isThread
                  THEN ptable' = Return(ptable, s) /\ UNCHANGED cpu
                  ELSE Sleep(c, "wait", 0)
               /\ UNCHANGED <<pages, dirs>>
       /\ UNCHANGED <<nextpid, lost>>

WithPid(pid) == {t \in Slot : ptable[t].pid = pid}

(* join fails at once for a pid that is not a thread of the caller *)
Join(c) ==
    LET s == cpu[c]
    IN \E pid \in 1 .. MaxPid :
          /\ At(c, "user") \/ (At(c, "join") /\ pid = ptable[s].arg)
          /\ IF WithPid(pid) # {} /\ WithPid(pid) \subseteq Threads(s)
             THEN \E t \in WithPid(pid) :
                     IF ptable[t].state = "ZOMBIE"
                     THEN /\ ptable' = [Return(ptable, s) EXCEPT ![t] = Freed(@)]
                          /\ UNCHANGED cpu
                     ELSE Sleep(c, "join", pid)
             ELSE ptable' = Return(ptable, s) /\ UNCHANGED cpu
          /\ UNCHANGED <<pages, dirs, nextpid, lost>>

Resize(c, sz, space) ==
    /\ ptable' = [ptable EXCEPT ![cpu[c]].sz = sz]
    /\ pages' = [pages EXCEPT ![ptable[cpu[c]].pgdir] = space]
    /\ UNCHANGED <<dirs, cpu, nextpid, lost>>

(* growproc(n), n > 0: allocuvm maps the pages above the caller's p->sz, and
   changes the size of the caller only *)
Grow(c) ==
    LET p == ptable[cpu[c]]
    IN /\ At(c, "user")
       /\ \E n \in p.sz + 1 .. MaxSz :
             /\ (p.sz .. n - 1) \cap pages[p.pgdir] = {}
             /\ Resize(c, n, pages[p.pgdir] \cup (p.sz .. n - 1))

(* Without memory allocuvm takes back whatever is mapped up to the new size,
   the pages of another thread too *)
GrowFail(c) ==
    LET p == ptable[cpu[c]]
    IN /\ At(c, "user")
       /\ \E n \in p.sz + 1 .. MaxSz :
             Resize(c, p.sz, pages[p.pgdir] \ (p.sz .. n - 1))

(* growproc(n), n < 0; bound: the first page stays *)
Shrink(c) ==
    LET p == ptable[cpu[c]]
    IN /\ At(c, "user")
       /\ \E n \in 1 .. p.sz - 1 :
             Resize(c, n, pages[p.pgdir] \ (n .. p.sz - 1))

Next ==
    \E c \in CPU :
       \/ Schedule(c) \/ Tick(c) \/ Yield(c)
       \/ Alloc(c, "fork") \/ Alloc(c, "clone")
       \/ Fork(c) \/ AllocFail(c) \/ Clone(c) \/ CloneBadStack(c)
       \/ Exit(c) \/ Wait(c) \/ Join(c)
       \/ Grow(c) \/ GrowFail(c) \/ Shrink(c)

Spec == Init /\ [][Next]_vars

-----------------------------------------------------------------------------
(* Properties *)

Live(s) == ptable[s].state \notin {"UNUSED", "EMBRYO", "ZOMBIE"}

(* wait() frees a page directory although threads may have it too: nobody
   runs, or will run, on one that has been freed, and two processes never
   have the same one. *)
AddressSpaceAlive ==
    /\ \A s \in Slot : Live(s) => ptable[s].pgdir \in dirs
    /\ \A c \in CPU : cpu[c] # 0 => ptable[cpu[c]].pgdir \in dirs
    /\ \A s, t \in Slot :
          (Live(s) /\ Live(t) /\ s # t /\ ptable[s].pgdir = ptable[t].pgdir)
             => ptable[s].isThread \/ ptable[t].isThread

(* exit() and the two reapers: every zombie has a live parent that can reap
   it with wait or join, so that no slot is lost. *)
ZombieHasReaper ==
    \A s \in Slot : ptable[s].state = "ZOMBIE" =>
       ptable[s].parent # 0 /\ Live(ptable[s].parent)

(* No lost wakeup between exit and join or wait: who sleeps in wait has
   children and none is a zombie, who sleeps in join waits for a thread of
   its own that has not exited. *)
ReapersMustWait ==
    \A s \in Slot : ptable[s].state = "SLEEPING" =>
       \/ ptable[s].at = "wait" /\ Kids(s) # {} /\ Zombies(Kids(s)) = {}
       \/ /\ ptable[s].at = "join"
          /\ \E t \in Threads(s) : /\ ptable[t].pid = ptable[s].arg
                                   /\ ptable[t].state # "ZOMBIE"

(* A slot is EMBRYO only while a process fills it in: a fork that fails gives
   it back, and no slot is lost but by a clone that rejects its stack. *)
EmbryoHasCreator ==
    \A s \in Slot \ lost : ptable[s].state = "EMBRYO" =>
       \E t \in Slot : /\ Live(t) /\ ptable[t].at \in {"fork", "clone"}
                       /\ ptable[t].arg = s

(* "Grow current process's memory by n bytes.  Return 0 on success, -1 on
   failure" (growproc): whoever calls it with n > 0 finds no page at p->sz,
   where it is about to map one; mappages would panic ("remap"). *)
GrowReturns ==
    \A c \in CPU : At(c, "user") =>
       ptable[cpu[c]].sz \notin pages[ptable[cpu[c]].pgdir]

(* "An exited process remains in the zombie state until its parent calls
   wait() to find out it exited" (exit). *)
ZombieStays ==
    [][\A s \in Slot : ptable[s].state = "ZOMBIE" =>
          ptable'[s].state \in {"ZOMBIE", "UNUSED"}]_vars

(* No slot of the process table is lost: one that is being filled in has a
   process that does it, and a zombie has one that can reap it. *)
SlotInv == TypeOK /\ EmbryoHasCreator /\ ZombieHasReaper
=============================================================================
