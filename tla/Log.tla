-------------------------------- MODULE Log ---------------------------------
(***************************************************************************)
(* The write-ahead log of log.c: begin_op, log_write, end_op, commit and   *)
(* recover_from_log, run by concurrent file system calls over the buffer   *)
(* cache and a disk that keeps its contents when the machine crashes.      *)
(*                                                                         *)
(* Every region protected by log.lock is one step.  What the code does     *)
(* outside the lock is separate steps: the tests at the head of log_write, *)
(* and each bwrite of commit() and of recovery, which is one atomic write  *)
(* of a 512-byte sector.  A crash may come between any two steps.          *)
(***************************************************************************)
EXTENDS Naturals, Sequences, FiniteSets, Functions

CONSTANTS
    Proc,         \* processes that execute file system calls
    Block,        \* home blocks: everything outside the log
    Val,          \* contents of a block
    LOGSIZE,      \* param.h: capacity of struct logheader
    MAXOPBLOCKS,  \* param.h: blocks reserved by begin_op for each call
    LogBlocks,    \* sb.nlog (log.size): blocks of the on-disk log, header included
    OpBlocks,     \* most distinct blocks that one call really logs
    WriteThrough, \* TRUE: writei also calls bwrite after log_write (project_4)
    NoBlock       \* the process holds no locked buffer

ASSUME LogAssumption ==
    /\ LOGSIZE \in Nat /\ MAXOPBLOCKS \in Nat \ {0}
    /\ LogBlocks \in Nat \ {0} /\ OpBlocks \in Nat
    /\ MAXOPBLOCKS <= LOGSIZE
    /\ OpBlocks <= MAXOPBLOCKS
    /\ WriteThrough \in BOOLEAN
    /\ NoBlock \notin Block
    /\ IsFiniteSet(Proc)
    /\ Val # {}

VARIABLES
    \* on disk
    home,        \* home[b]: the block in its home location
    logblk,      \* logblk[i]: i-th block after the log header
    hdr,         \* the header block: block[0..n-1]
    \* buffer cache
    cache,       \* cache[b]: what bread(b) returns
    dirty,       \* blocks whose buffer has B_DIRTY set
    \* struct log
    lh,          \* log.lh.block[0..n-1]
    outstanding, \* calls between begin_op and end_op
    committing,  \* a commit is running, please wait
    \* control
    pc,          \* where each process is
    blk,         \* buffer each process holds locked, or NoBlock
    wrote,       \* distinct blocks logged by the current call of each process
    phase,       \* step of commit() or of recover_from_log()
    tail,        \* loop counter of write_log and install_trans
    panicked     \* the kernel has called panic()

disk == <<home, logblk, hdr>>
buffers == <<cache, dirty>>
log == <<lh, outstanding, committing>>
calls == <<pc, blk, wrote>>
vars == <<home, logblk, hdr, cache, dirty, lh, outstanding, committing,
          pc, blk, wrote, phase, tail, panicked>>

Phases == {"run", "write_log", "write_head", "install_trans", "clear",
           "end_commit", "read_head"}
PCs == {"user", "sleeping", "woken", "fs", "log_write", "bwrite", "commit"}

TypeOK ==
    /\ home \in [Block -> Val]
    /\ logblk \in [1 .. LOGSIZE -> Val]
    /\ hdr \in Seq(Block)
    /\ cache \in [Block -> Val]
    /\ dirty \in SUBSET Block
    /\ lh \in Seq(Block)
    /\ outstanding \in Nat
    /\ committing \in BOOLEAN
    /\ pc \in [Proc -> PCs]
    /\ blk \in [Proc -> Block \cup {NoBlock}]
    /\ wrote \in [Proc -> SUBSET Block]
    /\ phase \in Phases
    /\ tail \in Nat
    /\ panicked \in BOOLEAN

(* The image built by mkfs has an empty log; boot starts with recovery. *)
Init ==
    /\ home \in [Block -> Val]
    /\ logblk \in {[i \in 1 .. LOGSIZE |-> v] : v \in Val}
    /\ hdr = << >>
    /\ cache = home
    /\ dirty = {}
    /\ lh = << >>
    /\ outstanding = 0
    /\ committing = FALSE
    /\ pc = [p \in Proc |-> "user"]
    /\ blk = [p \in Proc |-> NoBlock]
    /\ wrote = [p \in Proc |-> {}]
    /\ phase = "read_head"
    /\ tail = 1
    /\ panicked = FALSE

-----------------------------------------------------------------------------
(* No process runs before forkret() has finished initlog(). *)
Booted == committing \/ phase = "run"

InOp == {p \in Proc : pc[p] \in {"fs", "log_write", "bwrite"}}

Held == {blk[p] : p \in Proc} \ {NoBlock}

(* wakeup(&log): every process asleep in begin_op becomes runnable. *)
Wakeup(f) == [q \in Proc |-> IF f[q] = "sleeping" THEN "woken" ELSE f[q]]

MightOverflowOffByOne == Len(lh) + outstanding * MAXOPBLOCKS > LOGSIZE

(* begin_op's test that the call might exhaust the log. *)
MightOverflow == Len(lh) + (outstanding + 1) * MAXOPBLOCKS > LOGSIZE

BeginOpUncounted(p) ==
    /\ Booted
    /\ pc[p] \in {"user", "woken"}
    /\ pc' = [pc EXCEPT ![p] =
                 IF committing \/ MightOverflow THEN "sleeping" ELSE "fs"]
    /\ UNCHANGED <<disk, buffers, log, blk, wrote, phase, tail, panicked>>

(* begin_op: one turn of its loop, from the moment log.lock is held. *)
BeginOp(p) ==
    /\ Booted
    /\ pc[p] \in {"user", "woken"}
    /\ \/ /\ committing \/ MightOverflow
          /\ pc' = [pc EXCEPT ![p] = "sleeping"]
          /\ UNCHANGED <<outstanding, wrote>>
       \/ /\ ~committing /\ ~MightOverflow
          /\ outstanding' = outstanding + 1
          /\ pc' = [pc EXCEPT ![p] = "fs"]
          /\ wrote' = [wrote EXCEPT ![p] = {}]
    /\ UNCHANGED <<disk, buffers, lh, committing, blk, phase, tail, panicked>>

(* kill() makes a sleeping process runnable; begin_op tests again. *)
Kill(p) ==
    /\ pc[p] = "sleeping"
    /\ pc' = [pc EXCEPT ![p] = "woken"]
    /\ UNCHANGED <<disk, buffers, log, blk, wrote, phase, tail, panicked>>

(* A call locks a buffer with bread, changes it, and enters log_write, whose
   two tests read log.lh.n and log.outstanding without log.lock. *)
ModifyBlock(p, b, v) ==
    /\ pc[p] = "fs"
    /\ b \notin Held
    /\ b \in wrote[p] \/ Cardinality(wrote[p]) < OpBlocks
    /\ cache' = [cache EXCEPT ![b] = v]
    /\ blk' = [blk EXCEPT ![p] = b]
    /\ wrote' = [wrote EXCEPT ![p] = @ \cup {b}]
    /\ \/ /\ Len(lh) >= LOGSIZE \/ Len(lh) >= LogBlocks - 1 \/ outstanding < 1
          /\ panicked' = TRUE
          /\ UNCHANGED pc
       \/ /\ Len(lh) < LOGSIZE /\ Len(lh) < LogBlocks - 1 /\ outstanding >= 1
          /\ pc' = [pc EXCEPT ![p] = "log_write"]
          /\ UNCHANGED panicked
    /\ UNCHANGED <<disk, dirty, log, phase, tail>>

(* The locked part of log_write: absorb or append, and pin the buffer.  The
   caller then releases the buffer, unless it is project_4's writei. *)
LogWrite(p) ==
    /\ pc[p] = "log_write"
    /\ lh' = IF blk[p] \in Range(lh) THEN lh ELSE Append(lh, blk[p])
    /\ dirty' = dirty \cup {blk[p]}
    /\ \/ /\ pc' = [pc EXCEPT ![p] = "fs"]
          /\ blk' = [blk EXCEPT ![p] = NoBlock]
       \/ /\ WriteThrough
          /\ pc' = [pc EXCEPT ![p] = "bwrite"]
          /\ UNCHANGED blk
    /\ UNCHANGED <<disk, cache, outstanding, committing, wrote, phase, tail,
                   panicked>>

(* project_4's writei: bwrite(bp) right after log_write(bp), then brelse. *)
WriteiBwrite(p) ==
    /\ pc[p] = "bwrite"
    /\ home' = [home EXCEPT ![blk[p]] = cache[blk[p]]]
    /\ dirty' = dirty \ {blk[p]}
    /\ pc' = [pc EXCEPT ![p] = "fs"]
    /\ blk' = [blk EXCEPT ![p] = NoBlock]
    /\ UNCHANGED <<logblk, hdr, cache, log, wrote, phase, tail, panicked>>

(* bget may recycle any buffer that is neither in use nor dirty; the block
   is read from disk when it is next needed. *)
Evict(b) ==
    /\ b \notin dirty /\ b \notin Held
    /\ cache' = [cache EXCEPT ![b] = home[b]]
    /\ UNCHANGED <<disk, dirty, log, calls, phase, tail, panicked>>

EndOpHeadFirst(p) ==
    /\ pc[p] = "fs"
    /\ outstanding' = outstanding - 1
    /\ IF outstanding = 1
       THEN /\ committing' = TRUE
            /\ pc' = [pc EXCEPT ![p] = "commit"]
            /\ phase' = IF lh = << >> THEN "end_commit" ELSE "write_head"
            /\ tail' = 1
       ELSE /\ pc' = Wakeup([pc EXCEPT ![p] = "user"])
            /\ UNCHANGED <<committing, phase, tail>>
    /\ UNCHANGED <<disk, buffers, lh, blk, wrote, panicked>>

(* The last call to finish starts the commit; any other gives its reservation
   back and wakes the calls that wait for space. *)
EndOp(p) ==
    /\ pc[p] = "fs"
    /\ outstanding' = outstanding - 1
    /\ panicked' = committing
    /\ IF outstanding = 1 /\ ~committing
       THEN /\ committing' = TRUE
            /\ pc' = [pc EXCEPT ![p] = "commit"]
            /\ phase' = IF lh = << >> THEN "end_commit" ELSE "write_log"
            /\ tail' = 1
       ELSE /\ pc' = Wakeup([pc EXCEPT ![p] = "user"])
            /\ UNCHANGED <<committing, phase, tail>>
    /\ UNCHANGED <<disk, buffers, lh, blk, wrote>>

-----------------------------------------------------------------------------
(* commit() and recover_from_log(), one disk write per step. *)

WriteLog ==
    /\ phase = "write_log"
    /\ logblk' = [logblk EXCEPT ![tail] = cache[lh[tail]]]
    /\ IF tail < Len(lh)
       THEN tail' = tail + 1 /\ UNCHANGED phase
       ELSE tail' = 1 /\ phase' = "write_head"
    /\ UNCHANGED <<home, hdr, buffers, log, calls, panicked>>

(* The real commit. *)
WriteHead ==
    /\ phase = "write_head"
    /\ hdr' = lh
    /\ phase' = "install_trans"
    /\ UNCHANGED <<home, logblk, buffers, log, calls, tail, panicked>>

InstallTransShort ==
    /\ phase = "install_trans"
    /\ IF tail < Len(lh)
       THEN /\ home' = [home EXCEPT ![lh[tail]] = logblk[tail]]
            /\ cache' = [cache EXCEPT ![lh[tail]] = logblk[tail]]
            /\ dirty' = dirty \ {lh[tail]}
            /\ tail' = tail + 1
            /\ UNCHANGED phase
       ELSE tail' = 1 /\ phase' = "clear" /\ UNCHANGED <<home, cache, dirty>>
    /\ UNCHANGED <<logblk, hdr, log, calls, panicked>>

(* bread the log block and its home block, copy, bwrite. *)
InstallTrans ==
    /\ phase = "install_trans"
    /\ home' = [home EXCEPT ![lh[tail]] = logblk[tail]]
    /\ cache' = [cache EXCEPT ![lh[tail]] = logblk[tail]]
    /\ dirty' = dirty \ {lh[tail]}
    /\ IF tail < Len(lh)
       THEN tail' = tail + 1 /\ UNCHANGED phase
       ELSE tail' = 1 /\ phase' = "clear"
    /\ UNCHANGED <<logblk, hdr, log, calls, panicked>>

(* log.lh.n = 0; write_head() *)
ClearLog ==
    /\ phase = "clear"
    /\ lh' = << >>
    /\ hdr' = << >>
    /\ phase' = IF committing THEN "end_commit" ELSE "run"
    /\ UNCHANGED <<home, logblk, buffers, outstanding, committing, calls, tail,
                   panicked>>

EndCommitNoWakeup ==
    /\ phase = "end_commit"
    /\ committing' = FALSE
    /\ phase' = "run"
    /\ pc' = [p \in Proc |-> IF pc[p] = "commit" THEN "user" ELSE pc[p]]
    /\ UNCHANGED <<disk, buffers, lh, outstanding, blk, wrote, tail, panicked>>

(* The end of end_op: let waiting calls in again. *)
EndCommit ==
    /\ phase = "end_commit"
    /\ committing' = FALSE
    /\ phase' = "run"
    /\ pc' = Wakeup([p \in Proc |-> IF pc[p] = "commit" THEN "user" ELSE pc[p]])
    /\ UNCHANGED <<disk, buffers, lh, outstanding, blk, wrote, tail, panicked>>

ReadHead ==
    /\ phase = "read_head"
    /\ lh' = hdr
    /\ phase' = IF hdr = << >> THEN "clear" ELSE "install_trans"
    /\ UNCHANGED <<disk, buffers, outstanding, committing, calls, tail, panicked>>

(* Power is lost and the machine boots again: only the disk survives. *)
Crash ==
    /\ cache' = home
    /\ dirty' = {}
    /\ lh' = << >>
    /\ outstanding' = 0
    /\ committing' = FALSE
    /\ pc' = [p \in Proc |-> "user"]
    /\ blk' = [p \in Proc |-> NoBlock]
    /\ wrote' = [p \in Proc |-> {}]
    /\ phase' = "read_head"
    /\ tail' = 1
    /\ panicked' = FALSE
    /\ UNCHANGED disk

Committer == WriteLog \/ WriteHead \/ InstallTrans \/ ClearLog \/ EndCommit
                \/ ReadHead

Call(p) ==
    \/ BeginOp(p) \/ Kill(p) \/ LogWrite(p) \/ WriteiBwrite(p) \/ EndOp(p)
    \/ \E b \in Block, v \in Val : ModifyBlock(p, b, v)

Next ==
    \/ /\ ~panicked
       /\ \/ \E p \in Proc : Call(p)
          \/ \E b \in Block : Evict(b)
          \/ Committer
    \/ Crash

Spec == Init /\ [][Next]_vars

(* The disk interrupts the committer forever; every call makes finitely many
   log_writes and then reaches end_op, since no loop of the file system code
   depends on another call's progress while it holds a transaction. *)
Fairness ==
    /\ WF_vars(~panicked /\ Committer)
    /\ \A p \in Proc : /\ WF_vars(~panicked /\ LogWrite(p))
                       /\ WF_vars(~panicked /\ WriteiBwrite(p))
                       /\ SF_vars(~panicked /\ EndOp(p))

FairSpec == Spec /\ Fairness

-----------------------------------------------------------------------------
(* Properties. *)

(* What recover_from_log would leave in the home locations if the machine
   crashed now: the log is replayed when its header is not empty. *)
Recovered ==
    [b \in Block |-> IF b \in Range(hdr)
                     THEN logblk[CHOOSE i \in DOMAIN hdr : hdr[i] = b]
                     ELSE home[b]]

(* The log slots promised by begin_op and not used yet: one pair <<p, i>> for
   each of the MAXOPBLOCKS blocks of call p beyond those already in the log. *)
Reserved ==
    {x \in InOp \X (1 .. MAXOPBLOCKS) :
        x[2] > Cardinality(wrote[x[1]] \cap Range(lh))}

(* What begin_op's test is for: the blocks in the log and the blocks still
   promised to running calls never exceed the log, so no append can fail. *)
Reservation == Len(lh) + Cardinality(Reserved) <= LOGSIZE

(* Neither struct logheader nor the on-disk log is ever overrun, although
   log_write tests for space before it takes log.lock: the reservation made
   by begin_op covers every append still to come. *)
LogFits == Len(lh) <= LOGSIZE /\ Len(lh) < LogBlocks

(* No panic of log_write or end_op is reachable. *)
NoPanic == ~panicked

(* When no call is running and no commit is in progress, everything the
   finished calls wrote would survive a crash. *)
IdleIsDurable ==
    Booted /\ ~committing /\ InOp = {} => Recovered = cache

(* What would survive a crash never changes while a call is in the middle of
   its updates: "there is never any reasoning required about whether a commit
   might write an uncommitted system call's updates to disk" (log.c). *)
NoUncommittedUpdateOnDisk ==
    [][InOp # {} => Recovered' = Recovered]_vars

(* The log implements the atomic disk: all the updates of a group of calls
   survive a crash, or none does, at every point of commit and of recovery. *)
Disk == INSTANCE AtomicDisk WITH
            mem <- IF Booted THEN cache ELSE Recovered,
            durable <- Recovered,
            active <- InOp

AtomicAcrossCrashes == Disk!ASpec

(* A call asleep in begin_op does not sleep forever, unless the kernel has
   panicked: the wakeup of an end_op or of a commit is never lost. *)
SleeperWoken == \A p \in Proc : []<>(pc[p] # "sleeping" \/ panicked)
=============================================================================
