-------------------------------- MODULE Pipe --------------------------------
(***************************************************************************)
(* Pipes (pipe.c): a ring of PIPESIZE bytes with free-running unsigned     *)
(* counters, concurrent readers and writers that sleep on &p->nread and    *)
(* &p->nwrite, kill, and the closing of either end.                        *)
(*                                                                         *)
(* p->lock is given by its holder; between two tests the code that holds   *)
(* it may be overtaken by kill(), which takes ptable.lock only.  sleep()   *)
(* releases p->lock and sleeps in one step (see SleepLock).                *)
(***************************************************************************)
EXTENDS Naturals, Sequences

CONSTANTS
    Reader, Writer,  \* processes that have the read, the write end open
    Byte,
    PIPESIZE,
    UintMod,         \* nread and nwrite are unsigned integers modulo this
    MaxN,            \* largest n passed to read or write
    NoProc

ASSUME PipeAssumption ==
    /\ Reader \cap Writer = {} /\ NoProc \notin Reader \cup Writer
    /\ PIPESIZE \in Nat \ {0} /\ MaxN \in Nat \ {0}
    /\ UintMod \in Nat /\ UintMod % PIPESIZE = 0 /\ UintMod > PIPESIZE
    /\ Byte # {}

Proc == Reader \cup Writer

VARIABLES
    data, nread, nwrite, readopen, writeopen,  \* struct pipe
    lock,    \* holder of p->lock
    freed,   \* the page of the pipe has been given back with kfree
    pc,      \* where each process is
    i, n,    \* loop counter and count of the call
    killed,  \* killed[p]: p->killed
    last,    \* byte most recently stored through a reader's addr
    missed   \* history: a killed writer has left readers asleep since wakeup(&p->nread)

pipe == <<data, nread, nwrite, readopen, writeopen, freed>>
vars == <<data, nread, nwrite, readopen, writeopen, lock, freed, pc, i, n,
          killed, last, missed>>

PCs == {"out", "wacquire", "wloop", "wsleep", "wasleep",
        "racquire", "rtest", "rsleep", "rasleep", "rcopy"}

TypeOK ==
    /\ data \in [0 .. PIPESIZE - 1 -> Byte]
    /\ nread \in 0 .. UintMod - 1 /\ nwrite \in 0 .. UintMod - 1
    /\ readopen \in BOOLEAN /\ writeopen \in BOOLEAN /\ freed \in BOOLEAN
    /\ lock \in Proc \cup {NoProc}
    /\ pc \in [Proc -> PCs]
    /\ i \in [Proc -> 0 .. MaxN] /\ n \in [Proc -> 0 .. MaxN]
    /\ killed \in [Proc -> BOOLEAN]
    /\ last \in Byte /\ missed \in BOOLEAN

(* pipealloc *)
Init ==
    /\ data \in {[j \in 0 .. PIPESIZE - 1 |-> b] : b \in Byte}
    /\ nread = 0 /\ nwrite = 0
    /\ readopen = TRUE /\ writeopen = TRUE
    /\ lock = NoProc
    /\ freed = FALSE
    /\ pc = [p \in Proc |-> "out"]
    /\ i = [p \in Proc |-> 0] /\ n = [p \in Proc |-> 0]
    /\ killed = [p \in Proc |-> FALSE]
    /\ last \in Byte /\ missed = FALSE

-----------------------------------------------------------------------------
Goto(p, place) == pc' = [pc EXCEPT ![p] = place]

(* The call is over: release(&p->lock), and its locals are dead. *)
Return(p) ==
    /\ lock' = NoProc
    /\ i' = [i EXCEPT ![p] = 0] /\ n' = [n EXCEPT ![p] = 0]

FullOffByOne == nwrite = (nread + PIPESIZE + 1) % UintMod

Full == nwrite = (nread + PIPESIZE) % UintMod

Empty == nread = nwrite

(* pc after wakeup(chan), for the sleepers of that channel *)
WakeReaders(f) == [p \in Proc |-> IF f[p] = "rasleep" THEN "racquire" ELSE f[p]]
WakeWriters(f) == [p \in Proc |-> IF f[p] = "wasleep" THEN "wacquire" ELSE f[p]]

(* A call of write(fd, addr, k) or read(fd, addr, k) on an open end.  A
   process that has been killed makes no more calls (trap.c). *)
Call(p, k) ==
    /\ pc[p] = "out" /\ ~killed[p] /\ ~freed
    /\ \/ p \in Writer /\ writeopen /\ Goto(p, "wacquire")
       \/ p \in Reader /\ readopen /\ Goto(p, "racquire")
    /\ n' = [n EXCEPT ![p] = k]
    /\ i' = [i EXCEPT ![p] = 0]
    /\ UNCHANGED <<pipe, lock, killed, last, missed>>

(* acquire(&p->lock), at the start of a call and at the end of sleep() *)
Acquire(p) ==
    /\ pc[p] \in {"wacquire", "racquire"}
    /\ lock = NoProc
    /\ lock' = p
    /\ Goto(p, IF p \in Writer THEN "wloop" ELSE "rtest")
    /\ UNCHANGED <<pipe, i, n, killed, last, missed>>

WriteByte(p, b) ==
    /\ pc[p] = "wloop" /\ i[p] < n[p] /\ ~Full
    /\ data' = [data EXCEPT ![nwrite % PIPESIZE] = b]
    /\ nwrite' = (nwrite + 1) % UintMod
    /\ i' = [i EXCEPT ![p] = @ + 1]
    /\ UNCHANGED <<nread, readopen, writeopen, freed, lock, pc, n, killed, last, missed>>

(* The pipe is full: give up, or wake the readers and sleep.  A killed writer
   gives up without a wakeup for the bytes it has stored since the last one. *)
WriteFull(p) ==
    /\ pc[p] = "wloop" /\ i[p] < n[p] /\ Full
    /\ IF ~readopen \/ killed[p]
       THEN /\ Return(p) /\ Goto(p, "out")
            /\ missed' = (missed \/ \E q \in Reader : pc[q] = "rasleep")
       ELSE /\ pc' = WakeReaders([pc EXCEPT ![p] = "wsleep"])
            /\ missed' = FALSE
            /\ UNCHANGED <<lock, i, n>>
    /\ UNCHANGED <<pipe, killed, last>>

WriteDone(p) ==
    /\ pc[p] = "wloop" /\ i[p] = n[p]
    /\ pc' = WakeReaders([pc EXCEPT ![p] = "out"])
    /\ missed' = FALSE
    /\ Return(p)
    /\ UNCHANGED <<pipe, killed, last>>

(* sleep(&p->nwrite, &p->lock) and sleep(&p->nread, &p->lock) *)
Sleep(p) ==
    /\ pc[p] \in {"wsleep", "rsleep"}
    /\ lock' = NoProc
    /\ Goto(p, IF p \in Writer THEN "wasleep" ELSE "rasleep")
    /\ UNCHANGED <<pipe, i, n, killed, last, missed>>

(* The loop at the head of piperead *)
ReadTest(p) ==
    /\ pc[p] = "rtest"
    /\ IF Empty /\ writeopen
       THEN IF killed[p] THEN Return(p) /\ Goto(p, "out")
                         ELSE Goto(p, "rsleep") /\ UNCHANGED <<lock, i, n>>
       ELSE Goto(p, "rcopy") /\ UNCHANGED <<lock, i, n>>
    /\ UNCHANGED <<pipe, killed, last, missed>>

ReadByte(p) ==
    /\ pc[p] = "rcopy" /\ i[p] < n[p] /\ ~Empty
    /\ last' = data[nread % PIPESIZE]
    /\ nread' = (nread + 1) % UintMod
    /\ i' = [i EXCEPT ![p] = @ + 1]
    /\ UNCHANGED <<data, nwrite, readopen, writeopen, freed, lock, pc, n, killed, missed>>

ReadDoneNoWakeup(p) ==
    /\ pc[p] = "rcopy" /\ (i[p] = n[p] \/ Empty)
    /\ Goto(p, "out")
    /\ Return(p)
    /\ UNCHANGED <<pipe, killed, last, missed>>

ReadDone(p) ==
    /\ pc[p] = "rcopy" /\ (i[p] = n[p] \/ Empty)
    /\ pc' = WakeWriters([pc EXCEPT ![p] = "out"])
    /\ Return(p)
    /\ UNCHANGED <<pipe, killed, last, missed>>

(* pipeclose: the last reference to the end's struct file is gone, so none of
   its processes is in the middle of a call. *)
CloseWrite ==
    /\ writeopen /\ lock = NoProc
    /\ \A p \in Writer : pc[p] = "out"
    /\ writeopen' = FALSE
    /\ pc' = WakeReaders(pc)
    /\ missed' = FALSE
    /\ freed' = ~readopen
    /\ UNCHANGED <<data, nread, nwrite, readopen, lock, i, n, killed, last>>

CloseReadNoWakeup ==
    /\ readopen /\ lock = NoProc
    /\ \A p \in Reader : pc[p] = "out"
    /\ readopen' = FALSE
    /\ freed' = ~writeopen
    /\ UNCHANGED <<data, nread, nwrite, writeopen, lock, pc, i, n, killed, last, missed>>

CloseRead ==
    /\ readopen /\ lock = NoProc
    /\ \A p \in Reader : pc[p] = "out"
    /\ readopen' = FALSE
    /\ pc' = WakeWriters(pc)
    /\ freed' = ~writeopen
    /\ UNCHANGED <<data, nread, nwrite, writeopen, lock, i, n, killed, last, missed>>

(* A later pipe() gets the page back from kalloc. *)
Pipealloc ==
    /\ freed
    /\ readopen' = TRUE /\ writeopen' = TRUE
    /\ nread' = 0 /\ nwrite' = 0
    /\ freed' = FALSE
    /\ UNCHANGED <<data, lock, pc, i, n, killed, last, missed>>

(* kill(): set p->killed, and make p runnable if it sleeps. *)
Kill(p) ==
    /\ ~killed[p]
    /\ killed' = [killed EXCEPT ![p] = TRUE]
    /\ pc' = [pc EXCEPT ![p] = CASE @ = "rasleep" -> "racquire"
                                 [] @ = "wasleep" -> "wacquire"
                                 [] OTHER -> @]
    /\ UNCHANGED <<pipe, lock, i, n, last, missed>>

(* A killed process exits when it returns to user space; another one, with
   the same end of the pipe, takes its place. *)
Exit(p) ==
    /\ killed[p] /\ pc[p] = "out"
    /\ killed' = [killed EXCEPT ![p] = FALSE]
    /\ UNCHANGED <<pipe, lock, pc, i, n, last, missed>>

Step(p) ==
    \/ Acquire(p) \/ WriteFull(p) \/ WriteDone(p) \/ Sleep(p)
    \/ ReadTest(p) \/ ReadByte(p) \/ ReadDone(p)
    \/ \E b \in Byte : WriteByte(p, b)

Next ==
    \/ \E p \in Proc : \/ Step(p) \/ Kill(p) \/ Exit(p)
                       \/ \E k \in 1 .. MaxN : Call(p, k)
    \/ CloseWrite \/ CloseRead \/ Pipealloc

Spec == Init /\ [][Next]_vars

(* A process inside a call runs on, and gets p->lock in the end: it is free
   again and again. *)
Fairness == \A p \in Proc : WF_vars(Step(p)) /\ SF_vars(Acquire(p))

FairSpec == Spec /\ Fairness

-----------------------------------------------------------------------------
(* Properties. *)

Used == (nwrite + UintMod - nread) % UintMod

(* The pipe is a first-in first-out channel of PIPESIZE bytes, also when the
   counters wrap around and with several readers and writers. *)
Channel == INSTANCE ByteChannel WITH
    Capacity <- PIPESIZE,
    q <- IF freed THEN << >>
         ELSE [j \in 1 .. Used |-> data[(nread + j - 1) % PIPESIZE]],
    open <- ~freed

FirstInFirstOut == Channel!CSpec

(* When p->lock is free, a reader sleeps only on an empty pipe that can still
   be written, and a writer only on a full one that can still be read: every
   change that could let them go on has woken them.  There is one exception,
   in pipewrite: a writer that is killed and finds the pipe full returns
   without wakeup(&p->nread), so a reader may sleep on bytes that were stored
   for it until the next writer that is not killed, or the last close. *)
SleepersMustWait ==
    lock = NoProc =>
        /\ \A p \in Reader : pc[p] = "rasleep" => (Empty \/ missed) /\ writeopen
        /\ \A p \in Writer : pc[p] = "wasleep" => Full /\ readopen

(* The page is given back once, when nobody can reach it any more. *)
NoUseAfterFree == freed => lock = NoProc /\ \A p \in Proc : pc[p] = "out"

(* After the last close of one end every call still in progress at the other end
   returns, wherever the close met it: before the tests, in the middle of its
   bytes, about to sleep or asleep.  (While both ends are open a call may have
   to wait for ever, for bytes or for room.)  A closed end never opens again: who is
   again and again in no call, or sees an open end, is in no call for ever with a
   closed one. *)
CloseReleases ==
    /\ \A p \in Reader : []<>(pc[p] = "out" \/ writeopen)
    /\ \A p \in Writer : []<>(pc[p] = "out" \/ readopen)

(* What p->lock protects: nobody sleeps who could go on, and nobody is left
   in a pipe whose page has been given back. *)
PipeInv == TypeOK /\ SleepersMustWait /\ NoUseAfterFree
=============================================================================
