-------------------------------- MODULE Vm --------------------------------
(***************************************************************************)
(* Physical pages and address spaces (project_2): kalloc.c, vm.c, exec.c   *)
(* and fork, exit, wait, growproc and shmem_access.  The pages of shared   *)
(* memory are mapped by several processes and owned by none.               *)
(*                                                                         *)
(* Memory may run out at every page that fork, exec and growproc ask for,  *)
(* each of which is a step of its own, since other processes take and give *)
(* back pages in between.  A page directory needs itself and a table for   *)
(* the kernel, a table for low user addresses and one for the shared       *)
(* pages just below KERNBASE.  Physical pages are counted: what has a page *)
(* is recorded, and how many are free.  Contents and permissions of pages, *)
(* and sm_counts, are left out.                                            *)
(*                                                                         *)
(* Addresses are counted in pages.  There is less memory than address      *)
(* space (PHYSTOP is 224 MB, KERNBASE 2 GB), so an sbrk that reaches the   *)
(* shared pages passes allocuvm's test and then runs out of memory.        *)
(***************************************************************************)
EXTENDS Naturals, FiniteSets, FiniteSetsExt

CONSTANTS
    NPROC,       \* slots of the process table
    NFRAMES,     \* physical pages, those of shmem_init apart
    NSHAREPAGE,  \* shared pages
    KERN,        \* the page at KERNBASE
    MaxSz,       \* bound on the pages of a program
    Reach        \* processes ask for sizes that reach shared pages they have mapped

VmAssumption ==
    /\ NPROC \in Nat \ {0} /\ NFRAMES \in Nat /\ NSHAREPAGE \in Nat /\ MaxSz \in Nat \ {0}
    /\ NFRAMES >= 3
    /\ KERN \in Nat /\ MaxSz + NSHAREPAGE <= KERN /\ NFRAMES + NSHAREPAGE <= KERN
    /\ Reach \in BOOLEAN

VARIABLES
    freelist,    \* length of kmem.freelist
    proc         \* slots of the process table and the calls they make

vars == <<freelist, proc>>

Slot == 1 .. NPROC
initproc == 1
Shm == 1 .. NSHAREPAGE
Page == 0 .. KERN - NSHAREPAGE - 1
Table == {"pgdir", "kern", "low", "high"}

(* an address space: its tables, its user pages and the shared pages that it
   maps, shared page i at virtual page KERN - i *)
Space == [tab : SUBSET Table, pte : SUBSET Page, shm : SUBSET Shm]
NoSpace == [tab |-> {}, pte |-> {}, shm |-> {}]

(* new, next, to: the space under construction, the next page, the new size;
   flags: where p->shared_page[i] is not 0 *)
Process == [state : {"UNUSED", "EMBRYO", "RUN", "ZOMBIE"}, parent : 0 .. NPROC,
            kstack : 0 .. 1, space : Space, sz : 0 .. MaxSz, flags : SUBSET Shm,
            call : {"none", "fork", "forkshm", "exec", "grow", "fault"}, np : 0 .. NPROC,
            new : Space, next : Nat, to : 0 .. KERN]

TypeOK == freelist \in Nat /\ proc \in [Slot -> Process]

UnusedSlot ==
    [state |-> "UNUSED", parent |-> 0, kstack |-> 0, space |-> NoSpace, sz |-> 0,
     flags |-> {}, call |-> "none", np |-> 0, new |-> NoSpace, next |-> 0, to |-> 0]

(* init, once exec has left it without a first page *)
Init ==
    /\ proc = [s \in Slot |-> IF s = initproc
          THEN [UnusedSlot EXCEPT !.state = "RUN", !.kstack = 1, !.sz = 1,
                                  !.space.tab = {"pgdir", "kern"}]
          ELSE UnusedSlot]
    /\ freelist = NFRAMES - 3

-----------------------------------------------------------------------------
(* kalloc.c, vm.c *)

(* k calls of kalloc succeed *)
Available(k) == freelist >= k

(* mappages of user page v or of shared page i: walkpgdir may need a table *)
NeedsTable(sp, t) == IF t \in sp.tab THEN 0 ELSE 1
MapTakes(sp) == 1 + NeedsTable(sp, "low")
MapPage(sp, v) == [sp EXCEPT !.tab = @ \cup {"low"}, !.pte = @ \cup {v}]
MapShm(sp, i) == [sp EXCEPT !.tab = @ \cup {"high"}, !.shm = @ \cup {i}]

(* deallocuvm of the pages vs: what it leaves, what it gives back.  It frees
   whatever is mapped there, shared pages too. *)
SharedIn(sp, vs) == {i \in sp.shm : KERN - i \in vs}
Deallocuvm(sp, vs) == [sp EXCEPT !.pte = @ \ vs, !.shm = @ \ SharedIn(sp, vs)]
DeallocuvmFrees(sp, vs) == Cardinality(sp.pte \cap vs) + Cardinality(SharedIn(sp, vs))

(* freevm as it was before there were shared pages *)
FreevmUpToKernbase(sp) == Cardinality(sp.pte) + Cardinality(sp.shm) + Cardinality(sp.tab)

(* freevm: the pages it gives back; the shared ones are spared *)
Freevm(sp) == Cardinality(sp.pte) + Cardinality(sp.tab)

(* setupkvm *)
KernelSpace == [NoSpace EXCEPT !.tab = {"pgdir", "kern"}]

-----------------------------------------------------------------------------
(* fork: allocproc and setupkvm, then copyuvm page by page *)

Idle(s) == proc[s].state = "RUN" /\ proc[s].call = "none"
Done(q) == [q EXCEPT !.call = "none", !.new = NoSpace, !.np = 0, !.next = 0, !.to = 0]
FreeSlots == {s \in Slot : proc[s].state = "UNUSED"}

(* without a slot or memory fork gives back what it has and nothing changes *)
Fork(s) ==
    LET np == Min(FreeSlots)
    IN /\ Idle(s) /\ FreeSlots # {} /\ Available(3)
       /\ proc' = [proc EXCEPT
             ![s] = [@ EXCEPT !.call = "fork", !.np = np, !.new = KernelSpace, !.next = 1],
             ![np].state = "EMBRYO", ![np].kstack = 1]
       /\ freelist' = freelist - 3

CopyPage(s) ==
    LET p == proc[s]
    IN /\ p.call = "fork" /\ p.next < p.sz /\ Available(MapTakes(p.new))
       /\ proc' = [proc EXCEPT ![s].new = MapPage(p.new, p.next), ![s].next = @ + 1]
       /\ freelist' = freelist - MapTakes(p.new)

CopyuvmShm(s) ==
    LET p == proc[s]
    IN /\ p.call = "fork" /\ p.next >= p.sz
       /\ proc' = [proc EXCEPT ![s].call = "forkshm", ![s].next = 1]
       /\ UNCHANGED freelist

NextShm(p) == {i \in p.flags : i >= p.next}

CopyShmNoFlag(s) ==
    LET p == proc[s]
        i == Min(NextShm(p))
    IN /\ p.call = "forkshm" /\ NextShm(p) # {} /\ Available(NeedsTable(p.new, "high"))
       /\ proc' = [proc EXCEPT ![s].new = MapShm(p.new, i), ![s].next = i + 1]
       /\ freelist' = freelist - NeedsTable(p.new, "high")

CopyShm(s) ==
    LET p == proc[s]
        i == Min(NextShm(p))
    IN /\ p.call = "forkshm" /\ NextShm(p) # {} /\ Available(NeedsTable(p.new, "high"))
       /\ proc' = [proc EXCEPT ![s].new = MapShm(p.new, i), ![s].next = i + 1,
                               ![p.np].flags = @ \cup {i}]
       /\ freelist' = freelist - NeedsTable(p.new, "high")

ForkDone(s) ==
    LET p == proc[s]
    IN /\ p.call = "forkshm" /\ NextShm(p) = {}
       /\ proc' = [proc EXCEPT
             ![s] = Done(@),
             ![p.np] = [@ EXCEPT !.state = "RUN", !.parent = s, !.space = p.new, !.sz = p.sz]]
       /\ UNCHANGED freelist

(* bad: of copyuvm and the failure of fork.  For a shared page the flag of
   the child is set before mappages fails, and stays *)
ForkBad(s) ==
    LET p == proc[s]
        shm == p.call = "forkshm" /\ NextShm(p) # {} /\ ~Available(NeedsTable(p.new, "high"))
        flags == proc[p.np].flags \cup (IF shm THEN {Min(NextShm(p))} ELSE {})
    IN /\ shm \/ (p.call = "fork" /\ p.next < p.sz
                    /\ ~Available(MapTakes(p.new)))
       /\ proc' = [proc EXCEPT ![s] = Done(@),
             ![p.np] = [@ EXCEPT !.state = "UNUSED", !.kstack = 0, !.flags = flags]]
       /\ freelist' = freelist + Freevm(p.new) + 1

-----------------------------------------------------------------------------
(* exec: a new space of n pages, the first not mapped *)

Exec(s) ==
    \E n \in 1 .. MaxSz :
       /\ Idle(s) /\ Available(2)
       /\ proc' = [proc EXCEPT ![s] = [@ EXCEPT !.call = "exec", !.new = KernelSpace,
                                                !.next = 1, !.to = n]]
       /\ freelist' = freelist - 2

ExecPage(s) ==
    LET p == proc[s]
    IN /\ p.call = "exec" /\ p.next < p.to /\ Available(MapTakes(p.new))
       /\ proc' = [proc EXCEPT ![s].new = MapPage(p.new, p.next), ![s].next = @ + 1]
       /\ freelist' = freelist - MapTakes(p.new)

ExecCommit(s) ==
    LET p == proc[s]
    IN /\ p.call = "exec" /\ p.next = p.to
       /\ proc' = [proc EXCEPT ![s] =
             [Done(@) EXCEPT !.space = p.new, !.sz = p.to, !.flags = {}]]
       /\ freelist' = freelist + Freevm(p.space)

(* bad: no memory, or a bad file or argument *)
ExecBad(s) ==
    /\ proc[s].call = "exec"
    /\ proc' = [proc EXCEPT ![s] = Done(@)]
    /\ freelist' = freelist + Freevm(proc[s].new)

-----------------------------------------------------------------------------
(* growproc, shmem_access, exit, wait *)

(* allocuvm: to a size that a program may have, or to one that there is no
   memory for, up to the last below KERNBASE; from there on it fails at once *)
Grow(s) ==
    \E n \in 1 .. MaxSz \cup KERN - NSHAREPAGE .. KERN :
       /\ Idle(s) /\ n > proc[s].sz
       /\ ~Reach => SharedIn(proc[s].space, 0 .. n - 1) = {}
       /\ proc' = [proc EXCEPT ![s] = [@ EXCEPT !.call = "grow", !.next = proc[s].sz, !.to = n]]
       /\ UNCHANGED freelist

GrowPage(s) ==
    LET p == proc[s]
    IN /\ p.call = "grow" /\ p.next < p.to /\ Available(MapTakes(p.space))
       /\ proc' = [proc EXCEPT ![s].space = MapPage(p.space, p.next), ![s].next = @ + 1]
       /\ freelist' = freelist - MapTakes(p.space)

GrowDone(s) ==
    /\ proc[s].call = "grow" /\ proc[s].next = proc[s].to
    /\ proc' = [proc EXCEPT ![s] = [Done(@) EXCEPT !.sz = proc[s].to]]
    /\ UNCHANGED freelist

(* allocuvm fails and takes back the pages it has mapped *)
GrowFail(s) ==
    LET p == proc[s]
        vs == p.sz .. p.to - 1
    IN /\ p.call = "grow" /\ p.next < p.to /\ ~Available(MapTakes(p.space))
       /\ proc' = [proc EXCEPT ![s] = [Done(@) EXCEPT !.space = Deallocuvm(p.space, vs)]]
       /\ freelist' = freelist + DeallocuvmFrees(p.space, vs)

(* For a size of 0 growproc returns -1 and keeps p->sz although the pages are
   gone: the process has no code left, and faults.  init is not such a program. *)
Shrink(s) ==
    \E n \in 0 .. MaxSz :
       LET vs == n .. proc[s].sz - 1
       IN /\ Idle(s) /\ n < proc[s].sz /\ (n = 0 => s # initproc)
          /\ proc' = [proc EXCEPT ![s] =
                [@ EXCEPT !.space = Deallocuvm(proc[s].space, vs),
                          !.sz = IF n = 0 THEN @ ELSE n,
                          !.call = IF n = 0 THEN "fault" ELSE @]]
          /\ freelist' = freelist + DeallocuvmFrees(proc[s].space, vs)

(* bound: there is memory for the table, or the code panics *)
ShmemAccess(s) ==
    \E i \in Shm :
       /\ Idle(s) /\ i \notin proc[s].flags
       /\ Available(NeedsTable(proc[s].space, "high"))
       /\ proc' = [proc EXCEPT ![s].space = MapShm(@, i), ![s].flags = @ \cup {i}]
       /\ freelist' = freelist - NeedsTable(proc[s].space, "high")

Exit(s) ==
    /\ Idle(s) \/ proc[s].call = "fault"
    /\ s # initproc
    /\ proc' = [t \in Slot |->
          IF t = s THEN [proc[t] EXCEPT !.state = "ZOMBIE", !.call = "none"]
          ELSE IF proc[t].parent = s THEN [proc[t] EXCEPT !.parent = initproc]
          ELSE proc[t]]
    /\ UNCHANGED freelist

(* wait reaps a zombie child; the sleep of wait is in Proc *)
Wait(s) ==
    \E z \in Slot :
       /\ Idle(s) /\ proc[z].parent = s /\ proc[z].state = "ZOMBIE"
       /\ proc' = [proc EXCEPT ![z] = UnusedSlot]
       /\ freelist' = freelist + Freevm(proc[z].space) + 1

Next ==
    \E s \in Slot :
       \/ Fork(s) \/ CopyPage(s) \/ CopyuvmShm(s) \/ CopyShm(s) \/ ForkDone(s) \/ ForkBad(s)
       \/ Exec(s) \/ ExecPage(s) \/ ExecCommit(s) \/ ExecBad(s)
       \/ Grow(s) \/ GrowPage(s) \/ GrowDone(s) \/ GrowFail(s) \/ Shrink(s)
       \/ ShmemAccess(s) \/ Exit(s) \/ Wait(s)

Spec == Init /\ [][Next]_vars

-----------------------------------------------------------------------------
(* Properties *)

(* the places of a process that have a page of memory each *)
Places(p) ==
    ({"kstack"} \X (1 .. p.kstack))
      \cup ({"tab"} \X p.space.tab) \cup ({"pte"} \X p.space.pte)
      \cup ({"newtab"} \X p.new.tab) \cup ({"newpte"} \X p.new.pte)

Owners(table) == UNION {{s} \X Places(table[s]) : s \in Slot}

(* Every page that kalloc hands out is free or has one owner, and the shared
   pages are never on the free list: on no path, the failures of fork, exec and
   growproc included, is a page lost, freed while something still has it, or
   freed twice.  With Reach growproc's failure frees shared pages (vm.c:242). *)
FramesConserved == freelist + Cardinality(Owners(proc)) = NFRAMES

(* The pages from PGSIZE up to p->sz are there, and none above: copyuvm finds
   what it copies and allocuvm never maps a page twice. *)
SizeMatchesPages ==
    \A s \in Slot : Idle(s) =>
       proc[s].space.pte = 1 .. proc[s].sz - 1

(* A process with a shared page mapped has p->shared_page set, also a child
   of fork and after exec: shmem_access never maps it again, which would
   panic. *)
NoShmRemap ==
    \A s \in Slot : proc[s].state = "RUN" => proc[s].space.shm \subseteq proc[s].flags

(* "Check whether the share memory is already allocated for given page number"
   (shmem_access): where p->shared_page is set the page is mapped, so that
   shmem_access never returns an address at which there is nothing. *)
FlagsAreMappings ==
    \A s \in Slot : proc[s].state = "RUN" => proc[s].flags \subseteq proc[s].space.shm

(* p->sz tells which pages there are, and no shared page is mapped without its
   p->shared_page, also after a call that has failed halfway: neither copyuvm
   nor growproc nor shmem_access panics. *)
SpaceInv == TypeOK /\ SizeMatchesPages /\ NoShmRemap
=============================================================================
