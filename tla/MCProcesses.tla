---------------------------- MODULE MCProcesses -----------------------------
(***************************************************************************)
(* Processes and their memory: the process table of project_4 (Proc), that *)
(* of project_3 with its threads (Threads), the address spaces of          *)
(* project_2 (Vm) and the heap of a program (Umalloc).                     *)
(*                                                                         *)
(* They belong to different kernels or share no state that matters here,   *)
(* so TLC explores them side by side, not interleaved: a behaviour belongs *)
(* to one of them, and the others keep their initial state.                *)
(***************************************************************************)
EXTENDS Proc, TLC

CONSTANTS
    ThreadPid, ThreadSz, Disciplined,                     \* Threads
    VmSlots, NFRAMES, NSHAREPAGE, KERN, VmSz, Reach,      \* Vm
    HEAP, MORE, HDR, Bytes, UintMod, Null                 \* Umalloc

VARIABLES
    which,                                                \* the one that runs
    ptable, pages, dirs, cpu, tnextpid, lost,             \* Threads
    freelist, proc,                                       \* Vm
    ptr, size, freep, brk, used, asked, sbrked            \* Umalloc

T == INSTANCE Threads WITH MaxPid <- ThreadPid, MaxSz <- ThreadSz, nextpid <- tnextpid
V == INSTANCE Vm WITH NPROC <- VmSlots, MaxSz <- VmSz
U == INSTANCE Umalloc

ASSUME MemoryConstants == T!ThreadsAssumption /\ V!VmAssumption /\ U!UmallocAssumption

threadvars == <<ptable, pages, dirs, cpu, tnextpid, lost>>
vmvars == <<freelist, proc>>
heapvars == <<ptr, size, freep, brk, used, asked, sbrked>>
all == <<which, vars, threadvars, vmvars, heapvars>>

MCInit ==
    /\ which \in {"proc", "threads", "vm", "umalloc"}
    /\ Init /\ T!Init /\ V!Init /\ U!Init

MCNext ==
    \/ which = "proc" /\ Next /\ UNCHANGED <<which, threadvars, vmvars, heapvars>>
    \/ which = "threads" /\ T!Next /\ UNCHANGED <<which, vars, vmvars, heapvars>>
    \/ which = "vm" /\ V!Next /\ UNCHANGED <<which, vars, threadvars, heapvars>>
    \/ which = "umalloc" /\ U!Next /\ UNCHANGED <<which, vars, threadvars, vmvars>>

MCSpec == MCInit /\ [][MCNext]_all

Symmetry == Permutations(CPU)

-----------------------------------------------------------------------------
(* The properties of the instances; each is stated in its module. *)

(* wait() frees a page directory although threads may have it too: nobody
   runs, or will run, on one that has been freed, and two processes never
   have the same one. *)
AddressSpaceAlive == which = "threads" => T!AddressSpaceAlive

(* No slot of the process table is lost: one that is being filled in has a
   process that does it, and a zombie has one that can reap it. *)
SlotInv == which = "threads" => T!SlotInv

(* No lost wakeup between exit and join or wait: who sleeps in wait has
   children and none is a zombie, who sleeps in join waits for a thread of
   its own that has not exited. *)
ReapersMustWait == which = "threads" => T!ReapersMustWait

(* Every page that kalloc hands out is free or has one owner, and the shared
   pages are never on the free list: on no path, the failures of fork, exec and
   growproc included, is a page lost, freed while something still has it, or
   freed twice.  For programs that do not ask for memory up to a shared page
   they have mapped (Reach = FALSE). *)
FramesConserved == which = "vm" => V!FramesConserved

(* p->sz tells which pages there are, and no shared page is mapped without its
   p->shared_page, also after a call that has failed halfway: neither copyuvm
   nor growproc nor shmem_access panics. *)
SpaceInv == which = "vm" => V!SpaceInv

(* The heap of a program after any mallocs, frees and sbrks: an ordered free
   list, no unit lost or in two blocks, and room for every request. *)
HeapInv == which = "umalloc" => U!HeapInv
=============================================================================
