------------------------------- MODULE Bcache -------------------------------
(***************************************************************************)
(* The buffer cache of bio.c and the IDE driver of ide.c, composed: bread, *)
(* bwrite, brelse and log_write's pinning by concurrent processes, the     *)
(* disk request queue, and the interrupt that completes a request.         *)
(*                                                                         *)
(* What is done under bcache.lock or under idelock is one step.  The sleep *)
(* lock of a buffer is its holder (module SleepLock shows that this is     *)
(* what acquiresleep and releasesleep provide).  latest and failed are     *)
(* history variables.                                                      *)
(***************************************************************************)
EXTENDS Naturals, Sequences, FiniteSets, SequencesExt

CONSTANTS
    Proc,       \* processes
    Buf,        \* bcache.buf[NBUF]
    Block,      \* disk blocks
    Val,        \* contents of a block
    MaxPinned,  \* most buffers that the log keeps dirty at a time
    NoBlock, NoProc, NoBuf

BcacheAssumption ==
    /\ MaxPinned \in Nat
    /\ NoBlock \notin Block /\ NoProc \notin Proc /\ NoBuf \notin Buf
    /\ IsFiniteSet(Buf) /\ IsFiniteSet(Proc)
    /\ Val # {}

VARIABLES
    blockno,   \* blockno[b]: block that buffer b is for
    valid,     \* buffers with B_VALID
    dirty,     \* buffers with B_DIRTY
    refcnt,    \* refcnt[b]
    holder,    \* holder[b]: holder of the sleep lock b->lock
    data,      \* data[b]: b->data
    mru,       \* the list from bcache.head.next on: most recently used first
    idequeue,  \* disk requests; the first one is being served
    ctlr,      \* data sent to the controller with the active write
    disk,      \* disk[k]: contents of block k on the platter
    latest,    \* latest[k]: what a reader of block k must see
    failed,    \* buffers that hold what a failed read left in them
    pc, mine,  \* where each process is, and the buffer it uses
    panicked

cachevars == <<blockno, refcnt, holder, mru>>
idevars == <<idequeue, ctlr, disk>>
history == <<latest, failed>>
vars == <<blockno, valid, dirty, refcnt, holder, data, mru, idequeue, ctlr,
          disk, latest, failed, pc, mine, panicked>>

PCs == {"out", "acquiresleep", "iderw", "sleeping", "woken", "in", "brelse"}

TypeOK ==
    /\ blockno \in [Buf -> Block \cup {NoBlock}]
    /\ valid \in SUBSET Buf /\ dirty \in SUBSET Buf
    /\ refcnt \in [Buf -> Nat]
    /\ holder \in [Buf -> Proc \cup {NoProc}]
    /\ data \in [Buf -> Val]
    /\ mru \in Seq(Buf)
    /\ idequeue \in Seq(Buf)
    /\ ctlr \in Val
    /\ disk \in [Block -> Val] /\ latest \in [Block -> Val]
    /\ failed \in SUBSET Buf
    /\ pc \in [Proc -> PCs]
    /\ mine \in [Proc -> Buf \cup {NoBuf}]
    /\ panicked \in BOOLEAN

(* binit: every buffer is on the list and caches nothing. *)
Init ==
    /\ blockno = [b \in Buf |-> NoBlock]
    /\ valid = {} /\ dirty = {}
    /\ refcnt = [b \in Buf |-> 0]
    /\ holder = [b \in Buf |-> NoProc]
    /\ data \in {[b \in Buf |-> v] : v \in Val}
    /\ mru = SetToSeq(Buf)
    /\ idequeue = << >>
    /\ ctlr \in Val
    /\ disk \in [Block -> Val]
    /\ latest = disk
    /\ failed = {}
    /\ pc = [p \in Proc |-> "out"]
    /\ mine = [p \in Proc |-> NoBuf]
    /\ panicked = FALSE

Goto(p, place) == pc' = [pc EXCEPT ![p] = place]

-----------------------------------------------------------------------------
(* bio.c *)

CachedIfValid(k) == {b \in valid : blockno[b] = k}

(* The buffers that bget's first loop would return. *)
Cached(k) == {b \in Buf : blockno[b] = k}

RecyclableRefOnly == {b \in Buf : refcnt[b] = 0}

(* Buffers that bget may recycle: unused, and not kept by the log. *)
Recyclable == {b \in Buf : refcnt[b] = 0 /\ b \notin dirty}

(* The first one met from bcache.head.prev backwards. *)
LeastRecent(S) == mru[CHOOSE i \in DOMAIN mru :
                        /\ mru[i] \in S
                        /\ \A j \in DOMAIN mru : mru[j] \in S => j <= i]

(* bget, up to the release of bcache.lock *)
Bget(p, k) ==
    /\ pc[p] = "out"
    /\ \/ \E b \in Cached(k) :
            /\ refcnt' = [refcnt EXCEPT ![b] = @ + 1]
            /\ mine' = [mine EXCEPT ![p] = b]
            /\ Goto(p, "acquiresleep")
            /\ UNCHANGED <<blockno, valid, dirty, failed, panicked>>
       \/ /\ Cached(k) = {} /\ Recyclable # {}
          /\ LET b == LeastRecent(Recyclable) IN
                /\ blockno' = [blockno EXCEPT ![b] = k]
                /\ valid' = valid \ {b}
                /\ dirty' = dirty \ {b}
                /\ failed' = failed \ {b}
                /\ refcnt' = [refcnt EXCEPT ![b] = 1]
                /\ mine' = [mine EXCEPT ![p] = b]
          /\ Goto(p, "acquiresleep")
          /\ UNCHANGED panicked
       \/ /\ Cached(k) = {} /\ Recyclable = {}
          /\ panicked' = TRUE
          /\ UNCHANGED <<blockno, valid, dirty, failed, refcnt, mine, pc>>
    /\ UNCHANGED <<holder, data, mru, idevars, latest>>

(* acquiresleep(&b->lock), then bread's test of B_VALID *)
Acquiresleep(p) ==
    /\ pc[p] = "acquiresleep"
    /\ holder[mine[p]] = NoProc
    /\ holder' = [holder EXCEPT ![mine[p]] = p]
    /\ Goto(p, IF mine[p] \in valid THEN "in" ELSE "iderw")
    /\ UNCHANGED <<blockno, valid, dirty, refcnt, data, mru, idevars, history,
                   mine, panicked>>

(* The holder changes the data and calls log_write, which pins the buffer. *)
LogWrite(p, v) ==
    /\ pc[p] = "in"
    /\ mine[p] \in dirty \/ Cardinality(dirty) < MaxPinned
    /\ data' = [data EXCEPT ![mine[p]] = v]
    /\ latest' = [latest EXCEPT ![blockno[mine[p]]] = v]
    /\ failed' = failed \ {mine[p]}
    /\ dirty' = dirty \cup {mine[p]}
    /\ UNCHANGED <<valid, cachevars, idevars, pc, mine, panicked>>

(* The holder changes the data and calls bwrite, up to the call of iderw. *)
Bwrite(p, v) ==
    /\ pc[p] = "in"
    /\ data' = [data EXCEPT ![mine[p]] = v]
    /\ latest' = [latest EXCEPT ![blockno[mine[p]]] = v]
    /\ failed' = failed \ {mine[p]}
    /\ dirty' = dirty \cup {mine[p]}
    /\ Goto(p, "iderw")
    /\ UNCHANGED <<valid, cachevars, idevars, mine, panicked>>

(* brelse: releasesleep first ... *)
Brelse(p) ==
    /\ pc[p] = "in"
    /\ panicked' = (holder[mine[p]] # p)
    /\ holder' = [holder EXCEPT ![mine[p]] = NoProc]
    /\ Goto(p, "brelse")
    /\ UNCHANGED <<blockno, valid, dirty, refcnt, data, mru, idevars, history, mine>>

(* b is unlinked and linked in again behind bcache.head. *)
MoveToHead(b) ==
    LET i == CHOOSE i \in DOMAIN mru : mru[i] = b
    IN  [j \in DOMAIN mru |-> IF j = 1 THEN b ELSE IF j <= i THEN mru[j - 1] ELSE mru[j]]

(* ... then, under bcache.lock, the reference and the move to the head. *)
BrelseList(p) ==
    /\ pc[p] = "brelse"
    /\ refcnt' = [refcnt EXCEPT ![mine[p]] = @ - 1]
    /\ mru' = IF refcnt[mine[p]] = 1 THEN MoveToHead(mine[p]) ELSE mru
    /\ mine' = [mine EXCEPT ![p] = NoBuf]
    /\ Goto(p, "out")
    /\ UNCHANGED <<blockno, valid, dirty, holder, data, idevars, history, panicked>>

-----------------------------------------------------------------------------
(* ide.c *)

(* idestart(b): a write hands its data to the controller at once. *)
Idestart(b) == ctlr' = IF b \in dirty THEN data[b] ELSE ctlr

(* iderw: its panics, the queue, and the first sleep(b, &idelock). *)
Iderw(p) ==
    /\ pc[p] = "iderw"
    /\ panicked' = (holder[mine[p]] # p \/ mine[p] \in valid \ dirty)
    /\ idequeue' = Append(idequeue, mine[p])
    /\ IF idequeue = << >> THEN Idestart(mine[p]) ELSE UNCHANGED ctlr
    /\ Goto(p, "sleeping")
    /\ UNCHANGED <<valid, dirty, cachevars, data, disk, history, mine>>

(* wakeup(b), the only channel of which is the buffer itself *)
Wakeup(b) ==
    pc' = [p \in Proc |-> IF pc[p] = "sleeping" /\ mine[p] = b THEN "woken" ELSE pc[p]]

(* ideintr: the disk has finished the first request of the queue. *)
Ideintr ==
    /\ idequeue # << >>
    /\ LET b == Head(idequeue) IN
        /\ \/ /\ b \in dirty
              /\ disk' = [disk EXCEPT ![blockno[b]] = ctlr]
              /\ UNCHANGED <<data, failed>>
           \/ /\ b \notin dirty
              /\ data' = [data EXCEPT ![b] = disk[blockno[b]]]
              /\ failed' = failed \ {b}
              /\ UNCHANGED disk
           \/ /\ b \notin dirty       \* idewait(1) < 0: no insl, but B_VALID
              /\ failed' = failed \cup {b}
              /\ UNCHANGED <<data, disk>>
        /\ valid' = valid \cup {b}
        /\ dirty' = dirty \ {b}
        /\ Wakeup(b)
        /\ idequeue' = Tail(idequeue)
        /\ IF Tail(idequeue) # << >> THEN Idestart(Head(Tail(idequeue)))
                                     ELSE UNCHANGED ctlr
    /\ UNCHANGED <<cachevars, latest, mine, panicked>>

(* kill() also makes a process that waits for the disk runnable. *)
Kill(p) ==
    /\ pc[p] = "sleeping"
    /\ Goto(p, "woken")
    /\ UNCHANGED <<valid, dirty, cachevars, data, idevars, history, mine, panicked>>

IderwDoneNoLoop(p) ==
    /\ pc[p] = "woken"
    /\ Goto(p, "in")
    /\ UNCHANGED <<valid, dirty, cachevars, data, idevars, history, mine, panicked>>

(* The while loop of iderw around sleep() *)
IderwDone(p) ==
    /\ pc[p] = "woken"
    /\ Goto(p, IF mine[p] \in valid \ dirty THEN "in" ELSE "sleeping")
    /\ UNCHANGED <<valid, dirty, cachevars, data, idevars, history, mine, panicked>>

Step(p) ==
    \/ Acquiresleep(p) \/ Iderw(p) \/ IderwDone(p) \/ BrelseList(p) \/ Brelse(p)

Next ==
    /\ ~panicked
    /\ \/ \E p \in Proc : \/ Step(p) \/ Kill(p)
                          \/ \E k \in Block : Bget(p, k)
                          \/ \E v \in Val : LogWrite(p, v) \/ Bwrite(p, v)
       \/ Ideintr

Spec == Init /\ [][Next]_vars

-----------------------------------------------------------------------------
(* Properties. *)

(* "The implementation uses the cache as a synchronization point": a block is
   cached by one buffer at most, so its lock serializes its users. *)
OneBufferPerBlock ==
    \A b, c \in Buf : blockno[b] = blockno[c] /\ blockno[b] # NoBlock => b = c

(* A buffer is never recycled under a process that waits for it or uses it:
   refcnt counts them exactly, and it still caches the block they asked for. *)
RefcntExact ==
    \A b \in Buf : refcnt[b] = Cardinality({p \in Proc : mine[p] = b})

(* Whoever holds a locked buffer sees the block as it was last written, by a
   bwrite or by a log_write that has not been installed yet, whatever was
   evicted and read again in between; unless the disk has failed to read it,
   which ideintr does not report. *)
ReadsLatest ==
    \A p \in Proc : pc[p] = "in" /\ mine[p] \notin failed
                        => data[mine[p]] = latest[blockno[mine[p]]]

(* A buffer in the disk queue is there once, locked by a process that waits
   for it, and needs a transfer: no request is answered twice. *)
QueueWellFormed ==
    /\ IsInjective(idequeue)
    /\ \A b \in Buf : b \in ToSet(idequeue) =>
          /\ b \notin valid \ dirty
          /\ holder[b] # NoProc /\ mine[holder[b]] = b
          /\ pc[holder[b]] \in {"sleeping", "woken"}

(* Whoever sleeps in iderw, also after a kill has woken it early, has its request
   in the queue, whose head the disk is serving: an answer is still to come. *)
RequestPending ==
    \A p \in Proc : pc[p] = "sleeping" => mine[p] \in ToSet(idequeue)

(* The list holds every buffer once, so bget's backward scan misses none. *)
ListComplete == IsInjective(mru) /\ ToSet(mru) = Buf

(* With room for the log's pinned blocks and one buffer for each process,
   neither "bget: no buffers" nor "iderw: nothing to do" is reachable. *)
NoCachePanic == ~panicked

(* The state that bget, brelse and the processes that use a buffer share: one
   buffer for a block, counted exactly, on the list once, and no panic. *)
BufferInv ==
    TypeOK /\ OneBufferPerBlock /\ RefcntExact /\ ListComplete /\ NoCachePanic

(* The queue between iderw and ideintr: whoever waits has one request in it,
   and every request has one process that waits. *)
QueueInv == QueueWellFormed /\ RequestPending
=============================================================================
