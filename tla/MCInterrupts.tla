---------------------------- MODULE MCInterrupts ----------------------------
(***************************************************************************)
(* Code that interrupts can overtake: spin locks and interrupt masking     *)
(* (Spinlock), the clock, sleep() and the accounting of ticks (Clock), the *)
(* disk with its queue and the buffer cache above it (Bcache), and the     *)
(* console (Console).                                                      *)
(*                                                                         *)
(* The other three take spin locks as given, so TLC explores the four side *)
(* by side, not interleaved: a behaviour belongs to one of them, and the   *)
(* others keep their initial state.                                        *)
(***************************************************************************)
EXTENDS MCSpinlock

CONSTANTS
    CPU, BootCPU, Free, TickMod, SleepArg, Priority,             \* Clock
    Buf, Block, Val, MaxPinned, NoBlock, NoProc, NoBuf,          \* Bcache
    ConsReader, Letter, INPUT_BUF, ConsUintMod, ConsMaxN         \* Console

VARIABLES
    which,                                                       \* the one that runs
    ticks, tickslock, ptlock, cpc, irq, running, pstate, killed, \* Clock
    pri, insleep, ticks0, n, sched_time, lop_ticks, hip_ticks,
    elapsed, ran,
    blockno, valid, dirty, refcnt, holder, data, mru, idequeue,  \* Bcache
    ctlr, disk, latest, failed, bpc, mine, bpanicked,
    buf, r, w, e, conslock, conspc, consn, target, got,          \* Console
    conskilled

C == INSTANCE Clock WITH ptable <- ptlock, cur <- running
B == INSTANCE Bcache WITH pc <- bpc, panicked <- bpanicked
K == INSTANCE Console WITH
    Reader <- ConsReader, UintMod <- ConsUintMod, MaxN <- ConsMaxN,
    lock <- conslock, pc <- conspc, n <- consn, killed <- conskilled

ASSUME ClockConstantsAssumed == C!ClockAssumption
ASSUME CacheConstantsAssumed == B!BcacheAssumption
ASSUME ConsoleConstants == K!ConsoleAssumption

clockvars == <<ticks, tickslock, ptlock, cpc, irq, running, pstate, killed, pri,
               insleep, ticks0, n, sched_time, lop_ticks, hip_ticks, elapsed, ran>>
bcachevars == <<blockno, valid, dirty, refcnt, holder, data, mru, idequeue, ctlr,
                disk, latest, failed, bpc, mine, bpanicked>>
consvars == <<buf, r, w, e, conslock, conspc, consn, target, got, conskilled>>
all == <<which, vars, clockvars, bcachevars, consvars>>

(* Where the disk starts with any contents, it is parked with one. *)
MCInit ==
    /\ which \in {"spinlock", "clock", "disk", "console"}
    /\ Init /\ C!Init /\ B!Init /\ K!Init
    /\ which # "disk" => LET v == CHOOSE v \in Val : TRUE
                         IN data = [b \in Buf |-> v] /\ disk = [k \in Block |-> v] /\ ctlr = v

(* The clock can stop, in the deadlock of tickslock and ptable.lock only. *)
Halted == which = "clock" /\ ~C!NoLockCycle /\ UNCHANGED all

MCNext ==
    \/ which = "spinlock" /\ Next /\ UNCHANGED <<which, clockvars, bcachevars, consvars>>
    \/ which = "clock" /\ C!Next /\ UNCHANGED <<which, vars, bcachevars, consvars>>
    \/ which = "disk" /\ B!Next /\ UNCHANGED <<which, vars, clockvars, consvars>>
    \/ which = "console" /\ K!Next /\ UNCHANGED <<which, vars, clockvars, bcachevars>>
    \/ Halted

MCSpec == MCInit /\ [][MCNext]_all

-----------------------------------------------------------------------------
(* What TLC takes for one state. *)

(* No action of Clock reads the accounts of ticks, and what is said of them is that
   their sum and the ticks that passed differ by the slice that has not ended. *)
ClockView == <<ticks, tickslock, ptlock, cpc, irq, running, pstate, killed, pri,
               insleep, ticks0, n, elapsed, sched_time,
               [p \in Proc |-> (hip_ticks[p] + lop_ticks[p] + TickMod - ran[p]) % TickMod]>>

(* A state of Bcache without the names of buffers, blocks and processes: a buffer
   is its place on the list of the cache, and of blocks and of processes that are
   alike there is a number. *)
Position(b) == CHOOSE i \in DOMAIN mru : mru[i] = b

Alike(kind(_), S) == {<<kind(x), Cardinality({y \in S : kind(y) = kind(x)})>> : x \in S}

BufferView(b) ==
    <<b \in valid, b \in dirty, b \in failed, refcnt[b], holder[b] = NoProc, data[b]>>

BlockView(k) == <<disk[k], latest[k], {i \in DOMAIN mru : blockno[mru[i]] = k}>>

UserView(p) == <<bpc[p], {i \in DOMAIN mru : mru[i] = mine[p]},
                 {i \in DOMAIN mru : holder[mru[i]] = p}>>

BcacheView ==
    IF ~B!ListComplete THEN bcachevars
    ELSE <<[i \in DOMAIN mru |-> BufferView(mru[i])],
           [j \in DOMAIN idequeue |-> Position(idequeue[j])], ctlr, bpanicked,
           Alike(BlockView, Block), Alike(UserView, Proc)>>

View == <<which, CASE which = "spinlock" -> vars
                   [] which = "clock" -> ClockView
                   [] which = "disk" -> BcacheView
                   [] which = "console" -> consvars>>

-----------------------------------------------------------------------------
(* The properties of the instances; each is stated in its module. *)

(* Every tick that passes while a process has a CPU is charged to it once, to one
   of the two accounts that getpinfo() reports, whatever setpri() and the other
   CPU do in the middle of its slice. *)
TicksChargedOnce == which = "clock" => C!TicksChargedOnce

(* sleep(n) returns when n ticks have passed and not before, though every tick wakes
   all sleepers and the counter of ticks wraps around. *)
SleepsExactly == C!SleepsExactly

(* What bget, brelse and the users of a buffer share: a block in one buffer,
   references counted exactly, a complete list, no panic. *)
BufferInv == which = "disk" => B!BufferInv

(* Whoever holds a buffer sees the block as it was last written, whatever was
   evicted, read again or waited for in between. *)
ReadsLatest == which = "disk" => B!ReadsLatest

(* The queue between iderw and ideintr: whoever waits has one request in it,
   also when a kill woke it early, and every request has one that waits. *)
QueueInv == which = "disk" => B!QueueInv

(* What cons.lock protects: three indices in order, and neither a reader nor
   the keyboard that waits for the other in vain. *)
ConsoleInv == which = "console" => K!ConsoleInv

(* The ring buffer with its three indices, edited by interrupts while readers
   sleep in mid-copy, implements the line discipline: a reader gets the
   characters of finished lines, each once and in order, and ^D ends a read. *)
IsLineDiscipline == K!IsLineDiscipline
=============================================================================
