----------------------------- MODULE AtomicDisk -----------------------------
(***************************************************************************)
(* What the logging layer of log.c promises to the file system above it:   *)
(* a disk whose blocks are updated by system calls in groups.  mem is what *)
(* the running kernel reads, durable is what it will read after a crash,   *)
(* and durable only ever becomes mem at a moment when no system call is in *)
(* the middle of its updates.                                              *)
(***************************************************************************)
CONSTANTS Proc,   \* processes that execute file system calls
          Block,  \* home blocks: everything outside the log
          Val     \* contents of a block

VARIABLES mem,     \* mem[b]: contents of b as the kernel sees it
          durable, \* durable[b]: contents of b after a crash and recovery
          active   \* processes between begin_op and end_op

avars == <<mem, durable, active>>

AInit ==
    /\ durable \in [Block -> Val]
    /\ mem = durable
    /\ active = {}

Begin(p) ==
    /\ p \notin active
    /\ active' = active \cup {p}
    /\ UNCHANGED <<mem, durable>>

Update(p, b, v) ==
    /\ p \in active
    /\ mem' = [mem EXCEPT ![b] = v]
    /\ UNCHANGED <<durable, active>>

End(p) ==
    /\ p \in active
    /\ active' = active \ {p}
    /\ UNCHANGED <<mem, durable>>

(* All updates of the group become durable at once, and only between calls. *)
Commit ==
    /\ active = {}
    /\ durable' = mem
    /\ UNCHANGED <<mem, active>>

(* Whatever was not committed is lost, all of it. *)
Crash ==
    /\ mem' = durable
    /\ active' = {}
    /\ UNCHANGED durable

ANext ==
    \/ \E p \in Proc : Begin(p) \/ End(p)
    \/ \E p \in Proc, b \in Block, v \in Val : Update(p, b, v)
    \/ Commit
    \/ Crash

ASpec == AInit /\ [][ANext]_avars
=============================================================================
