------------------------------- MODULE MCLive -------------------------------
(***************************************************************************)
(* Where processes wait for each other: for bytes in a pipe (Pipe), for a  *)
(* sleep lock (SleepLock), for room in the log (Log) and for the processor *)
(* (Proc).                                                                 *)
(*                                                                         *)
(* TLC explores the four side by side, not interleaved: a behaviour        *)
(* belongs to one of them, and the others keep their initial state.        *)
(***************************************************************************)
EXTENDS Pipe

CONSTANTS
    Caller,                                                      \* SleepLock, Log
    Block, Val, LOGSIZE, MAXOPBLOCKS, LogBlocks, OpBlocks,       \* Log
    WriteThrough, NoBlock,
    CPU, NPROC, MaxPid, KillPids, Priority                       \* Proc

VARIABLES
    which,                                                       \* the one that runs
    locked, holder, spin, ptable, state, slpc,                   \* SleepLock
    home, logblk, hdr, cache, dirty, lh, outstanding, committing,\* Log
    logpc, blk, wrote, phase, tail, panicked,
    pstate, ppid, parent, chan, pkilled, pri, nextpid, plock,    \* Proc
    cur, pos, search, upc, np

S == INSTANCE SleepLock WITH Proc <- Caller, pid <- holder, pc <- slpc
L == INSTANCE Log WITH Proc <- Caller, pc <- logpc
P == INSTANCE Proc WITH state <- pstate, pid <- ppid, killed <- pkilled, lock <- plock

ASSUME SleepLockConstants == S!SleepLockAssumption

sleepvars == <<locked, holder, spin, ptable, state, slpc>>
logvars == <<home, logblk, hdr, cache, dirty, lh, outstanding, committing,
             logpc, blk, wrote, phase, tail, panicked>>
procvars == <<pstate, ppid, parent, chan, pkilled, pri, nextpid, plock, cur,
              pos, search, upc, np>>
all == <<which, vars, sleepvars, logvars, procvars>>

(* The parked pipe has one of the bytes it may start with. *)
MCInit ==
    /\ which \in {"pipe", "sleeplock", "log", "proc"}
    /\ Init /\ S!Init /\ L!Init /\ P!Init
    /\ which # "pipe" => LET b == CHOOSE b \in Byte : TRUE
                         IN last = b /\ \A j \in DOMAIN data : data[j] = b

OnPipe(A) ==
    which = "pipe" /\ A /\ UNCHANGED <<which, sleepvars, logvars, procvars>>

OnSleepLock(A) ==
    which = "sleeplock" /\ A /\ UNCHANGED <<which, vars, logvars, procvars>>

OnLog(A) ==
    which = "log" /\ A /\ UNCHANGED <<which, vars, sleepvars, procvars>>

OnProc(A) ==
    which = "proc" /\ A /\ UNCHANGED <<which, vars, sleepvars, logvars>>

MCNext ==
    OnPipe(Next) \/ OnSleepLock(S!Next) \/ OnLog(L!Next) \/ OnProc(P!Next)

(* The fairness of each module, for the one that runs; a log that has panicked
   owes nothing.  Since one of them runs only, strong fairness of a disjunction of
   steps of different modules is strong fairness of each. *)
MCFairness ==
    /\ WF_all(OnLog(~panicked /\ L!Committer))
    /\ \A p \in Proc : WF_all(OnPipe(Step(p)))
    /\ \A p \in Caller :
          /\ WF_all(OnSleepLock(slpc[p] # "out" /\ S!Step(p)))
          /\ WF_all(OnLog(~panicked /\ L!LogWrite(p)))
          /\ WF_all(OnLog(~panicked /\ L!WriteiBwrite(p)))
          /\ SF_all(\/ p \in Proc /\ OnPipe(Acquire(p))
                    \/ OnSleepLock(\/ S!Resume(p) \/ S!Releasesleep(p)
                                   \/ S!Wakeup(p) \/ S!SleepPtable(p))
                    \/ OnLog(~panicked /\ L!EndOp(p))
                    \/ p \in CPU /\ OnProc(P!StartPass(p) \/ P!Yield(p)))
    /\ \A c \in CPU :
          /\ WF_all(OnProc(P!Dispatch(c) \/ P!EndPass(c)))
          /\ WF_all(OnProc(P!Switch(c))) /\ WF_all(OnProc(P!WaitStep(c)))

MCSpec == MCInit /\ [][MCNext]_all /\ MCFairness

-----------------------------------------------------------------------------
(* The properties of the instances; each is stated in its module. *)

(* A sleep lock has one holder at most, which holdingsleep() knows. *)
ExclusiveHolder == which = "sleeplock" => S!ExclusiveHolder

(* A process that goes to sleep on a sleep lock has a wakeup still to come: the
   hand-over from lk->lk to ptable.lock in sleep() leaves no window. *)
NoLostWakeup == which = "sleeplock" => S!NoLostWakeup

(* No process sleeps on a sleep lock for ever. *)
SleeperRuns == S!SleeperRuns

(* A call asleep in begin_op does not sleep for ever: the wakeup of an end_op or
   of a commit is never lost. *)
SleeperWoken == L!SleeperWoken

(* A runnable process gets its turn.  A low-priority one may have to wait for
   ever, but only while processes of high priority keep running. *)
NoStarvation == \A p \in P!Slot : []<>(which = "proc" => P!Served(p))
=============================================================================
