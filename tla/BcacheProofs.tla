---------------------------- MODULE BcacheProofs -----------------------------
(***************************************************************************)
(* Proofs about the buffer cache and the disk queue, the instance of       *)
(* Bcache in MCInterrupts, for every number of buffers, blocks, processes  *)
(* and contents.                                                           *)
(***************************************************************************)
EXTENDS MCInterrupts, SequencesExt, FiniteSetTheorems, SequenceTheorems, WellFoundedInduction, TLAPS

Busy == {"iderw", "sleeping", "woken"}

(* The parts of the invariants of Bcache that count or speak of sequences, with the
   operators that the theorems of the library are about. *)
RefcntExact == \A b \in Buf : refcnt[b] = Cardinality({p \in Proc : mine[p] = b})

ListComplete == IsInjective(mru) /\ ToSet(mru) = Buf

QueueWellFormed ==
    /\ IsInjective(idequeue)
    /\ \A b \in Buf : b \in ToSet(idequeue) =>
          /\ b \notin valid \ dirty
          /\ holder[b] # NoProc /\ mine[holder[b]] = b
          /\ bpc[holder[b]] \in {"sleeping", "woken"}

RequestPending ==
    \A p \in Proc : bpc[p] = "sleeping" => mine[p] \in ToSet(idequeue)

(* A process uses a buffer from bget() to the end of brelse(), and holds its lock
   from acquiresleep() to releasesleep(). *)
Users ==
    /\ \A p \in Proc : bpc[p] = "out" <=> mine[p] = NoBuf
    /\ \A p \in Proc : mine[p] # NoBuf => blockno[mine[p]] \in Block
    /\ \A b \in Buf, p \in Proc :
          holder[b] = p <=> mine[p] = b /\ bpc[p] \in Busy \cup {"in"}

(* What the flags of a buffer mean, where its user is. *)
Flags ==
    /\ dirty \subseteq valid
    /\ dirty \cap failed = {}
    /\ \A b \in valid : blockno[b] \in Block
    /\ \A p \in Proc :
          /\ bpc[p] = "in" => mine[p] \in valid
          /\ bpc[p] = "iderw" => mine[p] \notin valid \ dirty

(* Whoever was woken has been served, or still has its request in the queue. *)
Woken ==
    \A p \in Proc : bpc[p] = "woken" =>
        mine[p] \in valid \ dirty \/ mine[p] \in ToSet(idequeue)

(* A write that the disk is serving has sent the data of its buffer. *)
Sent == idequeue # << >> /\ Head(idequeue) \in dirty => ctlr = data[Head(idequeue)]

(* The newest contents of a block are in its valid buffer, and on the disk too
   unless that buffer is dirty. *)
Coherent ==
    /\ \A b \in valid \ failed : data[b] = latest[blockno[b]]
    /\ \A k \in Block : disk[k] = latest[k] \/ \E b \in dirty : blockno[b] = k

(* Dirty buffers that no process is writing to the disk: the log keeps them. *)
Pinned == {b \in dirty : \A p \in Proc : holder[b] = p => bpc[p] \notin Busy}

(* The inductive invariant. *)
Ind == /\ B!TypeOK /\ B!OneBufferPerBlock /\ RefcntExact /\ ListComplete
       /\ Users /\ Flags /\ QueueWellFormed /\ RequestPending /\ Woken /\ Sent
       /\ Coherent

(* With enough buffers, bget() always finds one. *)
EnoughBuffers == Cardinality(Buf) >= Cardinality(Proc) + MaxPinned

Room == Cardinality(Pinned) <= MaxPinned /\ ~bpanicked

-----------------------------------------------------------------------------
(* The instance has operators of its own for them. *)
LEMMA SameOperators ==
    /\ \A S : B!IsFiniteSet(S) <=> IsFiniteSet(S)
    /\ \A S : B!Cardinality(S) = Cardinality(S)
    /\ \A q : B!ToSet(q) = ToSet(q) /\ (B!IsInjective(q) <=> IsInjective(q))
    /\ B!SetToSeq(Buf) = SetToSeq(Buf)
BY DEF B!IsFiniteSet, IsFiniteSet, B!Cardinality, Cardinality, B!ToSet, ToSet,
       B!IsInjective, IsInjective, B!SetToSeq, SetToSeq

LEMMA SameInvariants ==
    /\ B!RefcntExact <=> RefcntExact
    /\ B!ListComplete <=> ListComplete
    /\ B!QueueWellFormed <=> QueueWellFormed
    /\ B!RequestPending <=> RequestPending
BY SameOperators DEF B!RefcntExact, RefcntExact, B!ListComplete, ListComplete,
       B!QueueWellFormed, QueueWellFormed, B!RequestPending, RequestPending

LEMMA BcacheConstants ==
    /\ MaxPinned \in Nat
    /\ NoBlock \notin Block /\ NoProc \notin Proc /\ NoBuf \notin Buf
    /\ IsFiniteSet(Buf) /\ IsFiniteSet(Proc)
    /\ Val # {}
BY CacheConstantsAssumed, SameOperators DEF B!BcacheAssumption

-----------------------------------------------------------------------------
(* Facts about sequences without repetition, once for the list of the cache and
   once for the queue of the disk. *)

(* A sequence, by its elements. *)
LEMMA SeqIs ==
    ASSUME NEW S, NEW m \in Nat, NEW f \in [1 .. m -> S]
    PROVE  f \in Seq(S) /\ Len(f) = m /\ DOMAIN f = 1 .. m
OBVIOUS

LEMMA ToSetMember ==
    ASSUME NEW q, NEW x
    PROVE  x \in ToSet(q) <=> \E i \in DOMAIN q : q[i] = x
BY DEF ToSet

LEMMA SetToSeqIs ==
    /\ SetToSeq(Buf) \in Seq(Buf)
    /\ IsInjective(SetToSeq(Buf)) /\ ToSet(SetToSeq(Buf)) = Buf
<1> DEFINE m == Cardinality(Buf)
           s == SetToSeq(Buf)
<1>1. IsFiniteSet(Buf)
  BY BcacheConstants
<1>2. m \in Nat /\ ExistsBijection(1 .. m, Buf)
  BY <1>1, FS_CardinalityType
<1>3. PICK f : f \in [1 .. m -> Buf] /\ IsInjective(f)
  BY <1>2 DEF ExistsBijection, Bijection, Injection, IsInjective
<1>4. s \in [1 .. m -> Buf] /\ IsInjective(s)
  BY <1>3 DEF SetToSeq
<1>5. IsFiniteSet(1 .. m) /\ Cardinality(1 .. m) = m
  BY <1>2, FS_Interval
<1>6. s \in Injection(1 .. m, Buf)
  BY <1>4 DEF Injection, IsInjective
<1>7. s \in Surjection(1 .. m, Buf)
  BY <1>1, <1>5, <1>6, FS_Injection
<1>8. ToSet(s) = Buf
  BY <1>4, <1>7 DEF ToSet, Surjection
<1>9. s \in Seq(Buf)
  BY <1>2, <1>4, SeqIs
<1> QED
  BY <1>4, <1>8, <1>9

(* bget()'s backward scan finds a buffer of S if there is one. *)
LEMMA LeastRecentIn ==
    ASSUME B!TypeOK, ListComplete, NEW S, S \subseteq Buf, S # {}
    PROVE  B!LeastRecent(S) \in S
<1> DEFINE I == {i \in DOMAIN mru : mru[i] \in S}
           R == {Len(mru) - i : i \in I}
<1>1. Len(mru) \in Nat /\ DOMAIN mru = 1 .. Len(mru)
  BY DEF B!TypeOK
<1>2. I # {}
  <2>1. PICK b \in S : b \in ToSet(mru)
    BY DEF ListComplete
  <2> QED
    BY <2>1, ToSetMember
<1>3. R \subseteq Nat /\ R # {}
  BY <1>1, <1>2
<1>4. PICK least \in R : \A y \in R : ~(<<y, least>> \in OpToRel(<, Nat))
  BY <1>3, WFMin, NatLessThanWellFounded, Zenon
<1>5. \A y \in R : least <= y
  <2> HIDE DEF R
  <2>1. \A y \in R : ~(y < least)
    BY <1>3, <1>4 DEF OpToRel
  <2> QED
    BY <1>3, <2>1
<1>6. PICK i \in I : least = Len(mru) - i
  OBVIOUS
<1>7. ASSUME NEW j \in I PROVE j <= i
  <2>1. Len(mru) - j \in R
    OBVIOUS
  <2>2. Len(mru) - i <= Len(mru) - j
    BY <1>5, <1>6, <2>1
  <2> QED
    BY <1>1, <2>2
<1>8. \E k \in DOMAIN mru : mru[k] \in S /\ \A j \in DOMAIN mru : mru[j] \in S => j <= k
  BY <1>6, <1>7
<1> QED
  BY <1>8 DEF B!LeastRecent

(* brelse() moves a buffer to the head of the list and loses none. *)
LEMMA MoveToHeadIs ==
    ASSUME B!TypeOK, ListComplete, NEW b \in Buf
    PROVE  /\ B!MoveToHead(b) \in Seq(Buf)
           /\ IsInjective(B!MoveToHead(b)) /\ ToSet(B!MoveToHead(b)) = Buf
<1> DEFINE m == Len(mru)
           i == CHOOSE x \in DOMAIN mru : mru[x] = b
           s == B!MoveToHead(b)
<1>1. m \in Nat /\ DOMAIN mru = 1 .. m /\ mru \in [1 .. m -> Buf]
  BY DEF B!TypeOK
<1>2. i \in 1 .. m /\ mru[i] = b
  BY <1>1, ToSetMember DEF ListComplete
<1>3. s = [j \in 1 .. m |-> IF j = 1 THEN b ELSE IF j <= i THEN mru[j - 1] ELSE mru[j]]
  BY <1>1 DEF B!MoveToHead
<1> HIDE DEF i, s
<1>4. s \in [1 .. m -> Buf]
  BY <1>1, <1>2, <1>3
<1>5. s \in Seq(Buf) /\ DOMAIN s = 1 .. m
  BY <1>1, <1>4, SeqIs
<1>6. \A x, y \in 1 .. m : mru[x] = mru[y] => x = y
  BY <1>1 DEF ListComplete, IsInjective
<1>7. IsInjective(s)
  <2> SUFFICES ASSUME NEW x \in 1 .. m, NEW y \in 1 .. m, s[x] = s[y] PROVE x = y
    BY <1>5 DEF IsInjective
  <2>1. \A z \in 1 .. m : /\ z = 1 => s[z] = mru[i]
                          /\ z # 1 /\ z <= i => z - 1 \in 1 .. m /\ s[z] = mru[z - 1]
                          /\ z # 1 /\ z > i => s[z] = mru[z]
    BY <1>1, <1>2, <1>3
  <2>2. (IF x = 1 THEN i ELSE IF x <= i THEN x - 1 ELSE x) =
        (IF y = 1 THEN i ELSE IF y <= i THEN y - 1 ELSE y)
    BY <1>1, <1>2, <1>6, <2>1
  <2> QED
    BY <1>1, <1>2, <2>2
<1>8. ToSet(s) = Buf
  <2>1. ASSUME NEW c \in Buf PROVE c \in ToSet(s)
    <3>1. PICK x \in 1 .. m : mru[x] = c
      BY <1>1, ToSetMember DEF ListComplete
    <3>2. CASE x = i
      BY <1>1, <1>2, <1>3, <1>5, <3>1, <3>2, ToSetMember
    <3>3. CASE x < i
      <4>1. x + 1 \in 1 .. m /\ s[x + 1] = c
        BY <1>1, <1>2, <1>3, <3>1, <3>3
      <4> QED
        BY <1>5, <4>1, ToSetMember
    <3>4. CASE x > i
      BY <1>1, <1>2, <1>3, <1>5, <3>1, <3>4, ToSetMember
    <3> QED
      BY <1>1, <1>2, <3>2, <3>3, <3>4
  <2>2. ToSet(s) \subseteq Buf
    BY <1>4, <1>5 DEF ToSet
  <2> QED
    BY <2>1, <2>2
<1> QED
  BY <1>5, <1>7, <1>8 DEF s

LEMMA AppendIs ==
    ASSUME NEW q \in Seq(Buf), NEW b \in Buf, IsInjective(q), b \notin ToSet(q)
    PROVE  /\ Append(q, b) \in Seq(Buf) /\ Append(q, b) # << >>
           /\ IsInjective(Append(q, b))
           /\ ToSet(Append(q, b)) = ToSet(q) \cup {b}
           /\ Head(Append(q, b)) = IF q = << >> THEN b ELSE Head(q)
<1> DEFINE m == Len(q)
           s == Append(q, b)
<1>1. m \in Nat /\ DOMAIN q = 1 .. m
  OBVIOUS
<1>2. /\ s \in Seq(Buf) /\ s # << >> /\ DOMAIN s = 1 .. m + 1
      /\ s[m + 1] = b /\ \A i \in 1 .. m : s[i] = q[i]
  OBVIOUS
<1>3. Head(s) = IF q = << >> THEN b ELSE Head(q)
  BY <1>1, <1>2
<1> HIDE DEF s
<1>4. \A i \in 1 .. m : q[i] # b
  BY <1>1, ToSetMember
<1>5. IsInjective(s)
  BY <1>1, <1>2, <1>4 DEF IsInjective
<1>6. ToSet(s) = ToSet(q) \cup {b}
  <2>1. \A x : x \in ToSet(s) <=> \E i \in 1 .. m + 1 : s[i] = x
    BY <1>2, ToSetMember
  <2>2. \A x : x \in ToSet(q) <=> \E i \in 1 .. m : q[i] = x
    BY <1>1, ToSetMember
  <2>3. \A x : x \in ToSet(s) <=> x \in ToSet(q) \/ x = b
    BY <1>1, <1>2, <2>1, <2>2
  <2> QED
    BY <2>3
<1> QED
  BY <1>2, <1>3, <1>5, <1>6 DEF s

LEMMA TailIs ==
    ASSUME NEW q \in Seq(Buf), IsInjective(q), q # << >>
    PROVE  /\ Head(q) \in Buf /\ Head(q) \in ToSet(q)
           /\ Tail(q) \in Seq(Buf) /\ IsInjective(Tail(q))
           /\ ToSet(Tail(q)) = ToSet(q) \ {Head(q)}
           /\ Tail(q) # << >> => Head(Tail(q)) \in ToSet(Tail(q))
<1> DEFINE m == Len(q)
           s == Tail(q)
<1>1. m \in Nat /\ m # 0 /\ DOMAIN q = 1 .. m /\ Head(q) = q[1] /\ q[1] \in Buf
  OBVIOUS
<1>2. /\ s \in Seq(Buf) /\ DOMAIN s = 1 .. m - 1 /\ Len(s) = m - 1
      /\ \A i \in 1 .. m - 1 : s[i] = q[i + 1]
  OBVIOUS
<1>3. s # << >> => Head(s) = s[1] /\ m - 1 # 0
  BY <1>2
<1> HIDE DEF s
<1>4. \A x, y \in 1 .. m : q[x] = q[y] => x = y
  BY <1>1 DEF IsInjective
<1>5. IsInjective(s)
  <2> SUFFICES ASSUME NEW x \in 1 .. m - 1, NEW y \in 1 .. m - 1, s[x] = s[y] PROVE x = y
    BY <1>2 DEF IsInjective
  <2>1. x + 1 \in 1 .. m /\ y + 1 \in 1 .. m /\ q[x + 1] = q[y + 1]
    BY <1>1, <1>2
  <2>2. x + 1 = y + 1
    BY <1>4, <2>1
  <2> QED
    BY <1>1, <2>2
<1>6. ToSet(s) = ToSet(q) \ {Head(q)}
  <2>1. \A x : x \in ToSet(s) <=> \E i \in 1 .. m - 1 : s[i] = x
    BY <1>2, ToSetMember
  <2>2. \A x : x \in ToSet(q) <=> \E i \in 1 .. m : q[i] = x
    BY <1>1, ToSetMember
  <2>3. ASSUME NEW x, x \in ToSet(s) PROVE x \in ToSet(q) /\ x # q[1]
    <3>1. PICK i \in 1 .. m - 1 : s[i] = x
      BY <2>1, <2>3
    <3>2. i + 1 \in 1 .. m /\ q[i + 1] = x /\ i + 1 # 1 /\ 1 \in 1 .. m
      BY <1>1, <1>2, <3>1
    <3> QED
      BY <1>4, <2>2, <3>2
  <2>4. ASSUME NEW x, x \in ToSet(q), x # q[1] PROVE x \in ToSet(s)
    <3>1. PICK i \in 1 .. m : q[i] = x
      BY <2>2, <2>4
    <3>2. i - 1 \in 1 .. m - 1 /\ s[i - 1] = x
      BY <1>1, <1>2, <2>4, <3>1
    <3> QED
      BY <2>1, <3>2
  <2> QED
    BY <1>1, <2>3, <2>4
<1>7. s # << >> => Head(s) \in ToSet(s)
  BY <1>1, <1>2, <1>3, ToSetMember
<1>8. Head(q) \in ToSet(q)
  BY <1>1, ToSetMember
<1> QED
  BY <1>1, <1>2, <1>5, <1>6, <1>7, <1>8 DEF s

-----------------------------------------------------------------------------
(* The buffer that a process uses. *)
LEMMA MineIs ==
    ASSUME Ind, NEW p \in Proc, bpc[p] # "out"
    PROVE  mine[p] \in Buf /\ blockno[mine[p]] \in Block
BY DEF Ind, B!TypeOK, Users

(* The step of one process: what the others are doing stays. *)
LEMMA GotoIs ==
    ASSUME B!TypeOK, NEW p \in Proc, NEW place \in B!PCs, B!Goto(p, place)
    PROVE  /\ bpc' \in [Proc -> B!PCs] /\ bpc'[p] = place
           /\ \A q \in Proc : q # p => bpc'[q] = bpc[q]
BY DEF B!TypeOK, B!Goto

(* What a step that leaves the list and the references alone keeps. *)
LEMMA CacheUnchanged ==
    ASSUME Ind, UNCHANGED <<blockno, refcnt, mru, mine>>
    PROVE  B!OneBufferPerBlock' /\ RefcntExact' /\ ListComplete'
BY DEF Ind, B!OneBufferPerBlock, RefcntExact, ListComplete, ToSet, IsInjective

(* What a step that leaves data, disk and queue alone keeps. *)
LEMMA DataUnchanged ==
    ASSUME Ind, UNCHANGED <<blockno, valid, dirty, data, B!idevars, B!history>>
    PROVE  Sent' /\ Coherent'
BY DEF Ind, Sent, Coherent, B!idevars, B!history

(* One lemma per action: it keeps the inductive invariant. *)
LEMMA AcquiresleepInd ==
    ASSUME Ind, NEW p \in Proc, B!Acquiresleep(p)
    PROVE  Ind'
<1> USE BcacheConstants
<1>1. bpc[p] = "acquiresleep"
  BY DEF B!Acquiresleep
<1>2. PICK b \in Buf : b = mine[p] /\ blockno[b] \in Block
  BY <1>1, MineIs
<1>3. PICK place \in {"in", "iderw"} : place = IF b \in valid THEN "in" ELSE "iderw"
  OBVIOUS
<1>4. /\ holder[b] = NoProc /\ holder' = [holder EXCEPT ![b] = p]
      /\ B!Goto(p, place)
      /\ UNCHANGED <<blockno, valid, dirty, refcnt, data, mru, B!idevars, B!history,
                     mine, bpanicked>>
  BY <1>2, <1>3 DEF B!Acquiresleep
<1>5. B!TypeOK
  BY DEF Ind
<1>6. /\ bpc' \in [Proc -> B!PCs] /\ bpc'[p] = place
      /\ \A q \in Proc : q # p => bpc'[q] = bpc[q]
  BY <1>4, <1>5, GotoIs DEF B!PCs
<1>7. /\ holder' \in [Buf -> Proc \cup {NoProc}] /\ holder'[b] = p
      /\ \A x \in Buf : x # b => holder'[x] = holder[x]
  BY <1>4, <1>5 DEF B!TypeOK
<1>8. B!TypeOK'
  BY <1>4, <1>5, <1>6, <1>7 DEF B!TypeOK, B!idevars, B!history
<1>9. B!OneBufferPerBlock' /\ RefcntExact' /\ ListComplete' /\ Sent' /\ Coherent'
  BY <1>4, CacheUnchanged, DataUnchanged
<1>10. Users'
  <2>1. \A q \in Proc : bpc'[q] = "out" <=> mine[q] = NoBuf
    BY <1>1, <1>3, <1>6 DEF Ind, Users
  <2>2. ASSUME NEW x \in Buf, NEW q \in Proc
        PROVE  holder'[x] = q <=> mine[q] = x /\ bpc'[q] \in Busy \cup {"in"}
    <3>1. holder[x] = q <=> mine[q] = x /\ bpc[q] \in Busy \cup {"in"}
      BY DEF Ind, Users
    <3> QED
      BY <1>1, <1>2, <1>3, <1>4, <1>6, <1>7, <3>1 DEF Busy
  <2> QED
    BY <1>4, <2>1, <2>2 DEF Ind, Users
<1>11. Flags'
  BY <1>2, <1>3, <1>4, <1>6 DEF Ind, Flags, B!history
<1>12. QueueWellFormed'
  <2> SUFFICES ASSUME NEW x \in Buf, x \in ToSet(idequeue)
               PROVE  /\ x \notin valid \ dirty
                      /\ holder'[x] # NoProc /\ mine[holder'[x]] = x
                      /\ bpc'[holder'[x]] \in {"sleeping", "woken"}
    BY <1>4 DEF Ind, QueueWellFormed, B!idevars
  <2>1. /\ x \notin valid \ dirty
        /\ holder[x] # NoProc /\ mine[holder[x]] = x
        /\ bpc[holder[x]] \in {"sleeping", "woken"}
    BY DEF Ind, QueueWellFormed
  <2>2. x # b /\ holder[x] # p /\ holder[x] \in Proc
    BY <1>1, <1>4, <1>5, <2>1 DEF B!TypeOK
  <2> QED
    BY <1>6, <1>7, <2>1, <2>2
<1>13. RequestPending' /\ Woken'
  BY <1>3, <1>4, <1>6 DEF Ind, RequestPending, Woken, B!idevars
<1> QED
  BY <1>8, <1>9, <1>10, <1>11, <1>12, <1>13 DEF Ind

LEMMA BrelseInd ==
    ASSUME Ind, NEW p \in Proc, B!Brelse(p)
    PROVE  Ind' /\ (~bpanicked)'
<1> USE BcacheConstants
<1>1. bpc[p] = "in"
  BY DEF B!Brelse
<1>2. PICK b \in Buf : b = mine[p] /\ blockno[b] \in Block
  BY <1>1, MineIs
<1>3. B!TypeOK /\ holder[b] = p
  BY <1>1, <1>2 DEF Ind, Users
<1>4. /\ bpanicked' = (holder[b] # p)
      /\ holder' = [holder EXCEPT ![b] = NoProc]
      /\ B!Goto(p, "brelse")
      /\ UNCHANGED <<blockno, valid, dirty, refcnt, data, mru, B!idevars, B!history, mine>>
  BY <1>2 DEF B!Brelse
<1>5. bpanicked' = FALSE
  BY <1>3, <1>4
<1>6. /\ bpc' \in [Proc -> B!PCs] /\ bpc'[p] = "brelse"
      /\ \A q \in Proc : q # p => bpc'[q] = bpc[q]
  BY <1>3, <1>4, GotoIs DEF B!PCs
<1>7. /\ holder' \in [Buf -> Proc \cup {NoProc}] /\ holder'[b] = NoProc
      /\ \A x \in Buf : x # b => holder'[x] = holder[x]
  BY <1>3, <1>4 DEF B!TypeOK
<1>8. B!TypeOK'
  BY <1>3, <1>4, <1>5, <1>6, <1>7 DEF B!TypeOK, B!idevars, B!history
<1>9. B!OneBufferPerBlock' /\ RefcntExact' /\ ListComplete' /\ Sent' /\ Coherent'
  BY <1>4, CacheUnchanged, DataUnchanged
<1>10. Users'
  <2>1. \A q \in Proc : bpc'[q] = "out" <=> mine[q] = NoBuf
    BY <1>1, <1>6 DEF Ind, Users
  <2>2. ASSUME NEW x \in Buf, NEW q \in Proc
        PROVE  holder'[x] = q <=> mine[q] = x /\ bpc'[q] \in Busy \cup {"in"}
    <3>1. holder[x] = q <=> mine[q] = x /\ bpc[q] \in Busy \cup {"in"}
      BY DEF Ind, Users
    <3> QED
      BY <1>1, <1>2, <1>3, <1>6, <1>7, <3>1 DEF Busy
  <2> QED
    BY <1>4, <2>1, <2>2 DEF Ind, Users
<1>11. Flags'
  BY <1>4, <1>6 DEF Ind, Flags, B!history
<1>12. QueueWellFormed'
  <2> SUFFICES ASSUME NEW x \in Buf, x \in ToSet(idequeue)
               PROVE  /\ x \notin valid \ dirty
                      /\ holder'[x] # NoProc /\ mine[holder'[x]] = x
                      /\ bpc'[holder'[x]] \in {"sleeping", "woken"}
    BY <1>4 DEF Ind, QueueWellFormed, B!idevars
  <2>1. /\ x \notin valid \ dirty
        /\ holder[x] # NoProc /\ mine[holder[x]] = x
        /\ bpc[holder[x]] \in {"sleeping", "woken"}
    BY DEF Ind, QueueWellFormed
  <2>2. x # b /\ holder[x] # p /\ holder[x] \in Proc
    BY <1>1, <1>3, <2>1 DEF B!TypeOK
  <2> QED
    BY <1>6, <1>7, <2>1, <2>2
<1>13. RequestPending' /\ Woken'
  BY <1>4, <1>6 DEF Ind, RequestPending, Woken, B!idevars
<1> QED
  BY <1>5, <1>8, <1>9, <1>10, <1>11, <1>12, <1>13 DEF Ind

(* A step of p between two places at both of which it holds the lock of its
   buffer, such as those of iderw(). *)
LEMMA MoveInd ==
    ASSUME Ind, NEW p \in Proc, NEW place \in B!PCs,
           UNCHANGED <<blockno, valid, dirty, refcnt, holder, data, mru, B!idevars,
                       B!history, mine, bpanicked>>,
           bpc[p] \in {"sleeping", "woken"}, B!Goto(p, place),
           \/ place = "in" /\ mine[p] \in valid \ dirty
           \/ place \in {"sleeping", "woken"} /\ mine[p] \in ToSet(idequeue)
    PROVE  Ind'
<1> USE BcacheConstants
<1>1. /\ bpc' \in [Proc -> B!PCs] /\ bpc'[p] = place
      /\ \A q \in Proc : q # p => bpc'[q] = bpc[q]
  BY GotoIs DEF Ind
<1>2. place \in {"in", "sleeping", "woken"}
  OBVIOUS
<1>3. B!TypeOK'
  BY <1>1 DEF Ind, B!TypeOK, B!idevars, B!history
<1>4. B!OneBufferPerBlock' /\ RefcntExact' /\ ListComplete' /\ Sent' /\ Coherent'
  BY CacheUnchanged, DataUnchanged
<1>5. Users'
  BY <1>1, <1>2 DEF Ind, Users, Busy
<1>6. Flags'
  BY <1>1, <1>2 DEF Ind, Flags, B!history
<1>7. QueueWellFormed'
  <2> SUFFICES ASSUME NEW x \in Buf, x \in ToSet(idequeue)
               PROVE  /\ x \notin valid \ dirty
                      /\ holder[x] # NoProc /\ mine[holder[x]] = x
                      /\ bpc'[holder[x]] \in {"sleeping", "woken"}
    BY DEF Ind, QueueWellFormed, B!idevars
  <2>1. /\ x \notin valid \ dirty
        /\ holder[x] # NoProc /\ mine[holder[x]] = x
        /\ bpc[holder[x]] \in {"sleeping", "woken"} /\ holder[x] \in Proc
    BY DEF Ind, QueueWellFormed, B!TypeOK
  <2> QED
    BY <1>1, <1>2, <2>1
<1>8. RequestPending' /\ Woken'
  BY <1>1, <1>2 DEF Ind, RequestPending, Woken, B!idevars
<1> QED
  BY <1>3, <1>4, <1>5, <1>6, <1>7, <1>8 DEF Ind

LEMMA KillInd ==
    ASSUME Ind, NEW p \in Proc, B!Kill(p)
    PROVE  Ind'
<1>1. mine[p] \in ToSet(idequeue)
  BY DEF Ind, RequestPending, B!Kill
<1>2. /\ bpc[p] = "sleeping" /\ B!Goto(p, "woken")
      /\ UNCHANGED <<blockno, valid, dirty, refcnt, holder, data, mru, B!idevars,
                     B!history, mine, bpanicked>>
  BY DEF B!Kill, B!cachevars
<1> QED
  BY <1>1, <1>2, MoveInd DEF B!PCs

LEMMA IderwDoneInd ==
    ASSUME Ind, NEW p \in Proc, B!IderwDone(p)
    PROVE  Ind'
<1>1. /\ bpc[p] = "woken"
      /\ UNCHANGED <<blockno, valid, dirty, refcnt, holder, data, mru, B!idevars,
                     B!history, mine, bpanicked>>
  BY DEF B!IderwDone, B!cachevars
<1>2. CASE mine[p] \in valid \ dirty
  <2>1. B!Goto(p, "in")
    BY <1>2 DEF B!IderwDone
  <2> QED
    BY <1>1, <1>2, <2>1, MoveInd DEF B!PCs
<1>3. CASE mine[p] \notin valid \ dirty
  <2>1. B!Goto(p, "sleeping")
    BY <1>3 DEF B!IderwDone
  <2>2. mine[p] \in ToSet(idequeue)
    BY <1>1, <1>3 DEF Ind, Woken
  <2> QED
    BY <1>1, <2>1, <2>2, MoveInd DEF B!PCs
<1> QED
  BY <1>2, <1>3

(* The holder of a buffer stores v in it and marks it dirty. *)
LEMMA StoreInd ==
    ASSUME Ind, NEW p \in Proc, NEW v \in Val, NEW place \in {"in", "iderw"},
           bpc[p] = "in", B!Goto(p, place),
           data' = [data EXCEPT ![mine[p]] = v],
           latest' = [latest EXCEPT ![blockno[mine[p]]] = v],
           failed' = failed \ {mine[p]}, dirty' = dirty \cup {mine[p]},
           UNCHANGED <<blockno, valid, refcnt, holder, mru, B!idevars, mine, bpanicked>>
    PROVE  Ind'
<1> USE BcacheConstants
<1>1. PICK b \in Buf : b = mine[p] /\ blockno[b] \in Block
  BY MineIs
<1>2. /\ B!TypeOK /\ holder[b] = p /\ b \in valid
      /\ \A q \in Proc : q # p /\ mine[q] = b => bpc[q] \notin Busy \cup {"in"}
  BY <1>1 DEF Ind, Users, Flags
<1>3. /\ bpc' \in [Proc -> B!PCs] /\ bpc'[p] = place
      /\ \A q \in Proc : q # p => bpc'[q] = bpc[q]
  BY <1>2, GotoIs DEF B!PCs
<1>4. /\ data' \in [Buf -> Val] /\ data'[b] = v /\ \A x \in Buf : x # b => data'[x] = data[x]
      /\ latest' \in [Block -> Val] /\ latest'[blockno[b]] = v
      /\ \A k \in Block : k # blockno[b] => latest'[k] = latest[k]
      /\ failed' = failed \ {b} /\ dirty' = dirty \cup {b}
  BY <1>1, <1>2 DEF B!TypeOK
<1>5. B!TypeOK'
  BY <1>2, <1>3, <1>4 DEF B!TypeOK, B!idevars
<1>6. B!OneBufferPerBlock' /\ RefcntExact' /\ ListComplete'
  BY CacheUnchanged
<1>7. Users'
  <2>1. \A q \in Proc : bpc'[q] = "out" <=> mine[q] = NoBuf
    BY <1>3 DEF Ind, Users
  <2>2. \A x \in Buf, q \in Proc : holder[x] = q <=> mine[q] = x /\ bpc'[q] \in Busy \cup {"in"}
    BY <1>3 DEF Ind, Users, Busy
  <2> QED
    BY <2>1, <2>2 DEF Ind, Users
<1>8. Flags'
  BY <1>1, <1>2, <1>3, <1>4 DEF Ind, Flags
<1>9. b \notin ToSet(idequeue)
  BY <1>2 DEF Ind, QueueWellFormed
<1>10. QueueWellFormed'
  <2> SUFFICES ASSUME NEW x \in Buf, x \in ToSet(idequeue)
               PROVE  /\ x \notin valid \ dirty'
                      /\ holder[x] # NoProc /\ mine[holder[x]] = x
                      /\ bpc'[holder[x]] \in {"sleeping", "woken"}
    BY DEF Ind, QueueWellFormed, B!idevars
  <2>1. /\ x \notin valid \ dirty
        /\ holder[x] # NoProc /\ mine[holder[x]] = x
        /\ bpc[holder[x]] \in {"sleeping", "woken"} /\ holder[x] \in Proc
    BY DEF Ind, QueueWellFormed, B!TypeOK
  <2> QED
    BY <1>3, <1>4, <2>1
<1>11. RequestPending'
  BY <1>3 DEF Ind, RequestPending, B!idevars
<1>12. Woken'
  <2> SUFFICES ASSUME NEW q \in Proc, bpc'[q] = "woken"
               PROVE  mine[q] \in valid \ dirty' \/ mine[q] \in ToSet(idequeue)
    BY DEF Woken, B!idevars
  <2>1. q # p /\ bpc[q] = "woken"
    BY <1>3
  <2>2. mine[q] # b
    BY <1>2, <2>1 DEF Busy
  <2> QED
    BY <1>4, <2>1, <2>2 DEF Ind, Woken
<1>13. Sent'
  <2>1. idequeue # << >> => Head(idequeue) \in ToSet(idequeue) /\ Head(idequeue) \in Buf
    BY TailIs DEF Ind, B!TypeOK, QueueWellFormed
  <2> QED
    BY <1>4, <1>9, <2>1 DEF Ind, Sent, B!idevars
<1>14. Coherent'
  <2>1. ASSUME NEW x \in valid, x \notin failed' PROVE data'[x] = latest'[blockno[x]]
    <3>1. CASE x = b
      BY <1>4, <3>1
    <3>2. CASE x # b
      <4>1. x \in Buf /\ x \notin failed /\ blockno[x] \in Block
        BY <1>2, <1>4, <2>1, <3>2 DEF Ind, Flags, B!TypeOK
      <4>2. blockno[x] # blockno[b]
        BY <3>2, <4>1 DEF Ind, B!OneBufferPerBlock
      <4> QED
        BY <1>4, <2>1, <3>2, <4>1, <4>2 DEF Ind, Coherent
    <3> QED
      BY <3>1, <3>2
  <2>2. \A k \in Block : disk[k] = latest'[k] \/ \E x \in dirty' : blockno[x] = k
    BY <1>1, <1>4 DEF Ind, Coherent
  <2> QED
    BY <2>1, <2>2 DEF Coherent, B!idevars
<1> QED
  BY <1>5, <1>6, <1>7, <1>8, <1>10, <1>11, <1>12, <1>13, <1>14 DEF Ind

LEMMA LogWriteInd ==
    ASSUME Ind, NEW p \in Proc, NEW v \in Val, B!LogWrite(p, v)
    PROVE  Ind'
<1>1. B!Goto(p, "in")
  BY DEF B!LogWrite, B!Goto, Ind, B!TypeOK
<1> QED
  BY <1>1, StoreInd DEF B!LogWrite, B!cachevars

LEMMA BwriteInd ==
    ASSUME Ind, NEW p \in Proc, NEW v \in Val, B!Bwrite(p, v)
    PROVE  Ind'
BY StoreInd DEF B!Bwrite, B!cachevars

LEMMA IderwInd ==
    ASSUME Ind, NEW p \in Proc, B!Iderw(p)
    PROVE  Ind' /\ (~bpanicked)'
<1> USE BcacheConstants
<1>1. bpc[p] = "iderw"
  BY DEF B!Iderw
<1>2. PICK b \in Buf : b = mine[p] /\ blockno[b] \in Block
  BY <1>1, MineIs
<1>3. B!TypeOK /\ holder[b] = p /\ b \notin valid \ dirty
  BY <1>1, <1>2 DEF Ind, Users, Flags, Busy
<1>4. /\ bpanicked' = (holder[b] # p \/ b \in valid \ dirty)
      /\ idequeue' = Append(idequeue, b)
      /\ IF idequeue = << >> THEN B!Idestart(b) ELSE UNCHANGED ctlr
      /\ B!Goto(p, "sleeping")
      /\ UNCHANGED <<blockno, valid, dirty, refcnt, holder, data, mru, disk, B!history, mine>>
  BY <1>2 DEF B!Iderw, B!cachevars
<1>5. bpanicked' = FALSE
  <2>1. ~(holder[b] # p \/ b \in valid \ dirty)
    BY <1>3
  <2> QED
    BY <1>4, <2>1
<1>6. /\ bpc' \in [Proc -> B!PCs] /\ bpc'[p] = "sleeping"
      /\ \A q \in Proc : q # p => bpc'[q] = bpc[q]
  BY <1>3, <1>4, GotoIs DEF B!PCs
<1>7. b \notin ToSet(idequeue) /\ idequeue \in Seq(Buf) /\ IsInjective(idequeue)
  BY <1>1, <1>3 DEF Ind, QueueWellFormed, B!TypeOK
<1>8. /\ idequeue' \in Seq(Buf) /\ idequeue' # << >> /\ IsInjective(idequeue')
      /\ ToSet(idequeue') = ToSet(idequeue) \cup {b}
      /\ Head(idequeue') = IF idequeue = << >> THEN b ELSE Head(idequeue)
  BY <1>4, <1>7, AppendIs
<1>9. ctlr' \in Val /\ (idequeue # << >> => ctlr' = ctlr)
      /\ (idequeue = << >> /\ b \in dirty => ctlr' = data[b])
  BY <1>3, <1>4 DEF B!Idestart, B!TypeOK
<1>10. B!TypeOK'
  BY <1>3, <1>4, <1>5, <1>6, <1>8, <1>9 DEF B!TypeOK, B!history
<1>11. B!OneBufferPerBlock' /\ RefcntExact' /\ ListComplete'
  BY <1>4, CacheUnchanged
<1>12. Users'
  <2>1. \A q \in Proc : bpc'[q] = "out" <=> mine[q] = NoBuf
    BY <1>1, <1>6 DEF Ind, Users
  <2>2. \A x \in Buf, q \in Proc : holder[x] = q <=> mine[q] = x /\ bpc'[q] \in Busy \cup {"in"}
    BY <1>1, <1>6 DEF Ind, Users, Busy
  <2> QED
    BY <1>4, <2>1, <2>2 DEF Ind, Users
<1>13. Flags'
  BY <1>4, <1>6 DEF Ind, Flags, B!history
<1>14. QueueWellFormed'
  <2> SUFFICES ASSUME NEW x \in Buf, x \in ToSet(idequeue) \cup {b}
               PROVE  /\ x \notin valid \ dirty
                      /\ holder[x] # NoProc /\ mine[holder[x]] = x
                      /\ bpc'[holder[x]] \in {"sleeping", "woken"}
    BY <1>4, <1>8 DEF QueueWellFormed
  <2>1. CASE x = b
    BY <1>2, <1>3, <1>6, <2>1
  <2>2. CASE x # b
    <3>1. /\ x \notin valid \ dirty
          /\ holder[x] # NoProc /\ mine[holder[x]] = x
          /\ bpc[holder[x]] \in {"sleeping", "woken"} /\ holder[x] \in Proc
      BY <2>2 DEF Ind, QueueWellFormed, B!TypeOK
    <3> QED
      BY <1>6, <3>1
  <2> QED
    BY <2>1, <2>2
<1>15. RequestPending' /\ Woken'
  BY <1>2, <1>4, <1>6, <1>8 DEF Ind, RequestPending, Woken
<1>16. Sent'
  BY <1>4, <1>8, <1>9 DEF Ind, Sent
<1>17. Coherent'
  BY <1>4 DEF Ind, Coherent, B!history
<1> QED
  BY <1>5, <1>10, <1>11, <1>12, <1>13, <1>14, <1>15, <1>16, <1>17 DEF Ind

(* The reference counts, when one process takes or drops a buffer. *)
LEMMA UsersFinite ==
    ASSUME NEW b
    PROVE  /\ IsFiniteSet({q \in Proc : mine[q] = b})
           /\ Cardinality({q \in Proc : mine[q] = b}) \in Nat
BY BcacheConstants, FS_Subset, FS_CardinalityType

LEMMA BrelseListInd ==
    ASSUME Ind, NEW p \in Proc, B!BrelseList(p)
    PROVE  Ind'
<1> USE BcacheConstants
<1>1. bpc[p] = "brelse"
  BY DEF B!BrelseList
<1>2. PICK b \in Buf : b = mine[p] /\ blockno[b] \in Block
  BY <1>1, MineIs
<1>3. /\ refcnt' = [refcnt EXCEPT ![b] = refcnt[b] - 1]
      /\ mru' = IF refcnt[b] = 1 THEN B!MoveToHead(b) ELSE mru
      /\ mine' = [mine EXCEPT ![p] = NoBuf]
      /\ B!Goto(p, "out")
      /\ UNCHANGED <<blockno, valid, dirty, holder, data, B!idevars, B!history, bpanicked>>
  BY <1>2 DEF B!BrelseList
<1>4. B!TypeOK
  BY DEF Ind
<1>5. /\ bpc' \in [Proc -> B!PCs] /\ bpc'[p] = "out"
      /\ \A q \in Proc : q # p => bpc'[q] = bpc[q]
  BY <1>3, <1>4, GotoIs DEF B!PCs
<1>6. /\ mine' \in [Proc -> Buf \cup {NoBuf}] /\ mine'[p] = NoBuf
      /\ \A q \in Proc : q # p => mine'[q] = mine[q]
  BY <1>3, <1>4 DEF B!TypeOK
<1>7. \A x \in Buf : {q \in Proc : mine'[q] = x} =
                        IF x = b THEN {q \in Proc : mine[q] = b} \ {p}
                                 ELSE {q \in Proc : mine[q] = x}
  BY <1>2, <1>6
<1>8. /\ Cardinality({q \in Proc : mine[q] = b} \ {p}) = refcnt[b] - 1
      /\ Cardinality({q \in Proc : mine[q] = b} \ {p}) \in Nat
  <2> DEFINE U == {q \in Proc : mine[q] = b}
  <2>1. refcnt[b] = Cardinality(U) /\ p \in U /\ IsFiniteSet(U)
    BY <1>2, UsersFinite DEF Ind, RefcntExact
  <2> HIDE DEF U
  <2>2. IsFiniteSet(U \ {p}) /\ Cardinality(U \ {p}) = Cardinality(U) - 1
    BY <2>1, FS_RemoveElement
  <2>3. Cardinality(U \ {p}) \in Nat
    BY <2>2, FS_CardinalityType
  <2> QED
    BY <2>1, <2>2, <2>3 DEF U
<1>9. /\ refcnt' \in [Buf -> Nat] /\ refcnt'[b] = refcnt[b] - 1
      /\ \A x \in Buf : x # b => refcnt'[x] = refcnt[x]
  BY <1>3, <1>4, <1>8 DEF B!TypeOK
<1>10. RefcntExact'
  <2> SUFFICES ASSUME NEW x \in Buf
               PROVE  refcnt'[x] = Cardinality({q \in Proc : mine'[q] = x})
    BY DEF RefcntExact
  <2>1. CASE x = b
    BY <1>7, <1>8, <1>9, <2>1
  <2>2. CASE x # b
    BY <1>7, <1>9, <2>2 DEF Ind, RefcntExact
  <2> QED
    BY <2>1, <2>2
<1>11. mru' \in Seq(Buf) /\ ListComplete'
  <2>1. CASE refcnt[b] = 1
    BY <1>3, <1>4, <2>1, MoveToHeadIs DEF Ind, ListComplete
  <2>2. CASE refcnt[b] # 1
    <3>1. mru' = mru
      BY <1>3, <2>2
    <3> QED
      BY <1>4, <3>1 DEF Ind, ListComplete, B!TypeOK
  <2> QED
    BY <2>1, <2>2
<1>12. B!TypeOK'
  BY <1>3, <1>4, <1>5, <1>6, <1>9, <1>11 DEF B!TypeOK, B!idevars, B!history
<1>13. B!OneBufferPerBlock' /\ Sent' /\ Coherent'
  BY <1>3, DataUnchanged DEF Ind, B!OneBufferPerBlock
<1>14. Users'
  <2>1. \A q \in Proc : bpc'[q] = "out" <=> mine'[q] = NoBuf
    BY <1>5, <1>6 DEF Ind, Users
  <2>2. \A q \in Proc : mine'[q] # NoBuf => blockno[mine'[q]] \in Block
    BY <1>6 DEF Ind, Users
  <2>3. \A x \in Buf, q \in Proc : holder[x] = q <=> mine'[q] = x /\ bpc'[q] \in Busy \cup {"in"}
    BY <1>1, <1>5, <1>6 DEF Ind, Users, Busy
  <2> QED
    BY <1>3, <2>1, <2>2, <2>3 DEF Users
<1>15. Flags'
  BY <1>3, <1>5, <1>6 DEF Ind, Flags, B!history
<1>16. QueueWellFormed'
  <2> SUFFICES ASSUME NEW x \in Buf, x \in ToSet(idequeue)
               PROVE  /\ x \notin valid \ dirty
                      /\ holder[x] # NoProc /\ mine'[holder[x]] = x
                      /\ bpc'[holder[x]] \in {"sleeping", "woken"}
    BY <1>3 DEF Ind, QueueWellFormed, B!idevars
  <2>1. /\ x \notin valid \ dirty
        /\ holder[x] # NoProc /\ mine[holder[x]] = x
        /\ bpc[holder[x]] \in {"sleeping", "woken"} /\ holder[x] \in Proc
    BY DEF Ind, QueueWellFormed, B!TypeOK
  <2> QED
    BY <1>1, <1>5, <1>6, <2>1
<1>17. RequestPending' /\ Woken'
  BY <1>3, <1>5, <1>6 DEF Ind, RequestPending, Woken, B!idevars
<1> QED
  BY <1>10, <1>11, <1>12, <1>13, <1>14, <1>15, <1>16, <1>17 DEF Ind

(* bget() takes buffer b for p: it adds a reference, and the users that it had
   stay. *)
LEMMA TakeRefs ==
    ASSUME Ind, NEW p \in Proc, NEW b \in Buf, mine[p] = NoBuf,
           mine' = [mine EXCEPT ![p] = b],
           refcnt' = [refcnt EXCEPT ![b] = refcnt[b] + 1]
    PROVE  /\ mine' \in [Proc -> Buf \cup {NoBuf}] /\ mine'[p] = b
           /\ \A q \in Proc : q # p => mine'[q] = mine[q]
           /\ refcnt' \in [Buf -> Nat] /\ RefcntExact'
<1> USE BcacheConstants
<1>1. /\ mine' \in [Proc -> Buf \cup {NoBuf}] /\ mine'[p] = b
      /\ \A q \in Proc : q # p => mine'[q] = mine[q]
  BY DEF Ind, B!TypeOK
<1>2. /\ refcnt' \in [Buf -> Nat] /\ refcnt'[b] = refcnt[b] + 1
      /\ \A x \in Buf : x # b => refcnt'[x] = refcnt[x]
  BY DEF Ind, B!TypeOK
<1>3. RefcntExact'
  <2> SUFFICES ASSUME NEW x \in Buf
               PROVE  refcnt'[x] = Cardinality({q \in Proc : mine'[q] = x})
    BY DEF RefcntExact
  <2> DEFINE U == {q \in Proc : mine[q] = x}
  <2>1. refcnt[x] = Cardinality(U) /\ p \notin U /\ IsFiniteSet(U)
    BY UsersFinite DEF Ind, RefcntExact
  <2>2. {q \in Proc : mine'[q] = x} = IF x = b THEN U \cup {p} ELSE U
    BY <1>1
  <2> HIDE DEF U
  <2>3. Cardinality(U \cup {p}) = Cardinality(U) + 1
    BY <2>1, FS_AddElement
  <2> QED
    BY <1>2, <2>1, <2>2, <2>3
<1> QED
  BY <1>1, <1>2, <1>3

(* A buffer without references is used by nobody. *)
LEMMA NoUsers ==
    ASSUME Ind, NEW b \in Buf, refcnt[b] = 0
    PROVE  /\ \A q \in Proc : mine[q] # b
           /\ \A q \in Proc : holder[b] # q
           /\ b \notin ToSet(idequeue)
<1> DEFINE U == {q \in Proc : mine[q] = b}
<1>1. IsFiniteSet(U) /\ Cardinality(U) = 0
  BY UsersFinite DEF Ind, RefcntExact
<1>2. U = {}
  <2> HIDE DEF U
  <2> QED
    BY <1>1, FS_EmptySet
<1>3. \A q \in Proc : mine[q] # b
  BY <1>2
<1>4. \A q \in Proc : holder[b] # q
  BY <1>3 DEF Ind, Users
<1>5. b \notin ToSet(idequeue)
  BY <1>4 DEF Ind, QueueWellFormed, B!TypeOK
<1> QED
  BY <1>3, <1>4, <1>5

(* The block is cached: bget() takes its buffer. *)
LEMMA BgetHitInd ==
    ASSUME Ind, NEW p \in Proc, NEW k \in Block, NEW b \in B!Cached(k), bpc[p] = "out",
           refcnt' = [refcnt EXCEPT ![b] = refcnt[b] + 1],
           mine' = [mine EXCEPT ![p] = b], B!Goto(p, "acquiresleep"),
           UNCHANGED <<blockno, valid, dirty, failed, bpanicked, holder, data, mru,
                       B!idevars, latest>>
    PROVE  Ind'
<1> USE BcacheConstants
<1>1. B!TypeOK /\ b \in Buf /\ blockno[b] = k /\ mine[p] = NoBuf
  BY DEF Ind, Users, B!Cached
<1>2. /\ mine' \in [Proc -> Buf \cup {NoBuf}] /\ mine'[p] = b
      /\ \A q \in Proc : q # p => mine'[q] = mine[q]
      /\ refcnt' \in [Buf -> Nat] /\ RefcntExact'
  BY <1>1, TakeRefs
<1>3. /\ bpc' \in [Proc -> B!PCs] /\ bpc'[p] = "acquiresleep"
      /\ \A q \in Proc : q # p => bpc'[q] = bpc[q]
  BY <1>1, GotoIs DEF B!PCs
<1>4. B!TypeOK'
  BY <1>1, <1>2, <1>3 DEF B!TypeOK, B!idevars
<1>5. B!OneBufferPerBlock' /\ ListComplete' /\ Sent' /\ Coherent'
  BY DataUnchanged DEF Ind, B!OneBufferPerBlock, ListComplete, B!history
<1>6. Users'
  <2>1. \A q \in Proc : bpc'[q] = "out" <=> mine'[q] = NoBuf
    BY <1>1, <1>2, <1>3 DEF Ind, Users
  <2>2. \A q \in Proc : mine'[q] # NoBuf => blockno[mine'[q]] \in Block
    BY <1>1, <1>2 DEF Ind, Users
  <2>3. \A x \in Buf, q \in Proc : holder[x] = q <=> mine'[q] = x /\ bpc'[q] \in Busy \cup {"in"}
    BY <1>1, <1>2, <1>3 DEF Ind, Users, Busy
  <2> QED
    BY <2>1, <2>2, <2>3 DEF Users
<1>7. Flags'
  BY <1>2, <1>3 DEF Ind, Flags
<1>8. QueueWellFormed'
  <2> SUFFICES ASSUME NEW x \in Buf, x \in ToSet(idequeue)
               PROVE  /\ x \notin valid \ dirty
                      /\ holder[x] # NoProc /\ mine'[holder[x]] = x
                      /\ bpc'[holder[x]] \in {"sleeping", "woken"}
    BY DEF Ind, QueueWellFormed, B!idevars
  <2>1. /\ x \notin valid \ dirty
        /\ holder[x] # NoProc /\ mine[holder[x]] = x
        /\ bpc[holder[x]] \in {"sleeping", "woken"} /\ holder[x] \in Proc
    BY DEF Ind, QueueWellFormed, B!TypeOK
  <2> QED
    BY <1>2, <1>3, <2>1
<1>9. RequestPending' /\ Woken'
  BY <1>2, <1>3 DEF Ind, RequestPending, Woken, B!idevars
<1> QED
  BY <1>2, <1>4, <1>5, <1>6, <1>7, <1>8, <1>9 DEF Ind

(* It is not: bget() recycles an unused, clean buffer. *)
LEMMA BgetRecycleInd ==
    ASSUME Ind, NEW p \in Proc, NEW k \in Block, NEW b \in B!Recyclable, bpc[p] = "out",
           B!Cached(k) = {},
           blockno' = [blockno EXCEPT ![b] = k], valid' = valid \ {b},
           dirty' = dirty \ {b}, failed' = failed \ {b},
           refcnt' = [refcnt EXCEPT ![b] = 1],
           mine' = [mine EXCEPT ![p] = b], B!Goto(p, "acquiresleep"),
           UNCHANGED <<bpanicked, holder, data, mru, B!idevars, latest>>
    PROVE  Ind'
<1> USE BcacheConstants
<1>1. /\ B!TypeOK /\ b \in Buf /\ refcnt[b] = 0 /\ b \notin dirty /\ mine[p] = NoBuf
      /\ \A x \in Buf : blockno[x] # k
  BY DEF Ind, Users, B!Recyclable, B!Cached
<1>2. /\ \A q \in Proc : mine[q] # b
      /\ \A q \in Proc : holder[b] # q
      /\ b \notin ToSet(idequeue)
  BY <1>1, NoUsers
<1>3. refcnt' = [refcnt EXCEPT ![b] = refcnt[b] + 1]
  BY <1>1
<1>4. /\ mine' \in [Proc -> Buf \cup {NoBuf}] /\ mine'[p] = b
      /\ \A q \in Proc : q # p => mine'[q] = mine[q]
      /\ refcnt' \in [Buf -> Nat] /\ RefcntExact'
  BY <1>1, <1>3, TakeRefs
<1>5. /\ bpc' \in [Proc -> B!PCs] /\ bpc'[p] = "acquiresleep"
      /\ \A q \in Proc : q # p => bpc'[q] = bpc[q]
  BY <1>1, GotoIs DEF B!PCs
<1>6. /\ blockno' \in [Buf -> Block \cup {NoBlock}] /\ blockno'[b] = k
      /\ \A x \in Buf : x # b => blockno'[x] = blockno[x]
      /\ dirty' = dirty
  BY <1>1 DEF B!TypeOK
<1>7. B!TypeOK'
  BY <1>1, <1>4, <1>5, <1>6 DEF B!TypeOK, B!idevars
<1>8. B!OneBufferPerBlock'
  <2> SUFFICES ASSUME NEW x \in Buf, NEW y \in Buf, blockno'[x] = blockno'[y],
                      blockno'[x] # NoBlock
               PROVE  x = y
    BY DEF B!OneBufferPerBlock
  <2> QED
    BY <1>1, <1>6 DEF Ind, B!OneBufferPerBlock
<1>9. ListComplete'
  BY DEF Ind, ListComplete
<1>10. Users'
  <2>1. \A q \in Proc : bpc'[q] = "out" <=> mine'[q] = NoBuf
    BY <1>1, <1>4, <1>5 DEF Ind, Users
  <2>2. \A q \in Proc : mine'[q] # NoBuf => blockno'[mine'[q]] \in Block
    BY <1>1, <1>4, <1>6 DEF Ind, Users
  <2>3. \A x \in Buf, q \in Proc : holder[x] = q <=> mine'[q] = x /\ bpc'[q] \in Busy \cup {"in"}
    BY <1>1, <1>2, <1>4, <1>5 DEF Ind, Users, Busy
  <2> QED
    BY <2>1, <2>2, <2>3 DEF Users
<1>11. Flags'
  <2>1. \A q \in Proc : q # p => mine[q] # b
    BY <1>2
  <2>2. valid' \subseteq valid /\ valid \subseteq Buf /\ failed' \subseteq failed
    BY <1>1 DEF B!TypeOK
  <2>3. \A x \in valid' : x # b /\ x \in valid
    OBVIOUS
  <2> QED
    BY <1>1, <1>4, <1>5, <1>6, <2>1, <2>2, <2>3 DEF Ind, Flags
<1>12. QueueWellFormed'
  <2> SUFFICES ASSUME NEW x \in Buf, x \in ToSet(idequeue)
               PROVE  /\ x \notin valid' \ dirty'
                      /\ holder[x] # NoProc /\ mine'[holder[x]] = x
                      /\ bpc'[holder[x]] \in {"sleeping", "woken"}
    BY DEF Ind, QueueWellFormed, B!idevars
  <2>1. /\ x \notin valid \ dirty
        /\ holder[x] # NoProc /\ mine[holder[x]] = x
        /\ bpc[holder[x]] \in {"sleeping", "woken"} /\ holder[x] \in Proc
    BY DEF Ind, QueueWellFormed, B!TypeOK
  <2> QED
    BY <1>4, <1>5, <1>6, <2>1
<1>13. RequestPending' /\ Woken'
  BY <1>2, <1>4, <1>5, <1>6 DEF Ind, RequestPending, Woken, B!idevars
<1>14. Sent'
  BY <1>6 DEF Ind, Sent, B!idevars
<1>15. Coherent'
  <2>1. \A x \in dirty : x \in Buf /\ x # b
    BY <1>1 DEF B!TypeOK
  <2>2. \A x \in valid : x \in Buf
    BY <1>1 DEF B!TypeOK
  <2>3. \A x \in valid' \ failed' : data[x] = latest[blockno'[x]]
    BY <1>6, <2>2 DEF Ind, Coherent
  <2>4. \A j \in Block : disk[j] = latest[j] \/ \E x \in dirty : blockno'[x] = j
    BY <1>6, <2>1 DEF Ind, Coherent
  <2> QED
    BY <1>6, <2>3, <2>4 DEF Coherent, B!idevars
<1> QED
  BY <1>4, <1>7, <1>8, <1>9, <1>10, <1>11, <1>12, <1>13, <1>14, <1>15 DEF Ind

(* There is no buffer: bget() panics, which changes nothing else. *)
LEMMA PanicInd ==
    ASSUME Ind, bpanicked' \in BOOLEAN,
           UNCHANGED <<blockno, valid, dirty, refcnt, holder, data, mru, B!idevars,
                       B!history, bpc, mine>>
    PROVE  Ind'
<1>1. B!TypeOK'
  BY DEF Ind, B!TypeOK, B!idevars, B!history
<1>2. B!OneBufferPerBlock' /\ RefcntExact' /\ ListComplete' /\ Sent' /\ Coherent'
  BY CacheUnchanged, DataUnchanged
<1>3. Users' /\ Flags' /\ RequestPending' /\ Woken'
  BY DEF Ind, Users, Flags, RequestPending, Woken, B!idevars, B!history
<1>4. QueueWellFormed'
  BY DEF Ind, QueueWellFormed, B!idevars
<1> QED
  BY <1>1, <1>2, <1>3, <1>4 DEF Ind

LEMMA BgetInd ==
    ASSUME Ind, NEW p \in Proc, NEW k \in Block, B!Bget(p, k)
    PROVE  Ind'
<1>1. /\ bpc[p] = "out" /\ B!TypeOK /\ ListComplete
      /\ UNCHANGED <<holder, data, mru, B!idevars, latest>>
  BY DEF B!Bget, Ind
<1>2. ASSUME NEW b \in B!Cached(k),
             refcnt' = [refcnt EXCEPT ![b] = refcnt[b] + 1],
             mine' = [mine EXCEPT ![p] = b], B!Goto(p, "acquiresleep"),
             UNCHANGED <<blockno, valid, dirty, failed, bpanicked>>
      PROVE  Ind'
  BY <1>1, <1>2, BgetHitInd
<1>3. ASSUME B!Cached(k) = {}, B!Recyclable # {},
             NEW b, b = B!LeastRecent(B!Recyclable),
             blockno' = [blockno EXCEPT ![b] = k], valid' = valid \ {b},
             dirty' = dirty \ {b}, failed' = failed \ {b},
             refcnt' = [refcnt EXCEPT ![b] = 1],
             mine' = [mine EXCEPT ![p] = b], B!Goto(p, "acquiresleep"),
             UNCHANGED bpanicked
      PROVE  Ind'
  <2>1. B!Recyclable \subseteq Buf
    BY DEF B!Recyclable
  <2>2. b \in B!Recyclable
    BY <1>1, <1>3, <2>1, LeastRecentIn
  <2> QED
    BY <1>1, <1>3, <2>2, BgetRecycleInd
<1>4. ASSUME bpanicked' = TRUE,
             UNCHANGED <<blockno, valid, dirty, failed, refcnt, mine, bpc>>
      PROVE  Ind'
  BY <1>1, <1>4, PanicInd DEF B!history
<1> QED
  BY <1>2, <1>3, <1>4 DEF B!Bget

LEMMA IdeintrInd ==
    ASSUME Ind, B!Ideintr
    PROVE  Ind'
<1> USE BcacheConstants
<1>1. B!TypeOK /\ idequeue # << >> /\ idequeue \in Seq(Buf) /\ IsInjective(idequeue)
  BY DEF Ind, B!Ideintr, QueueWellFormed, B!TypeOK
<1>2. PICK b \in Buf : b = Head(idequeue) /\ b \in ToSet(idequeue)
  BY <1>1, TailIs
<1>3. /\ idequeue' = Tail(idequeue) /\ idequeue' \in Seq(Buf) /\ IsInjective(idequeue')
      /\ ToSet(idequeue') = ToSet(idequeue) \ {b}
      /\ idequeue' # << >> => Head(idequeue') \in ToSet(idequeue')
  BY <1>1, <1>2, TailIs DEF B!Ideintr
<1>4. PICK h \in Proc : /\ holder[b] = h /\ mine[h] = b /\ bpc[h] \in {"sleeping", "woken"}
                        /\ b \notin valid \ dirty
  BY <1>1, <1>2 DEF Ind, QueueWellFormed, B!TypeOK
<1>5. PICK k \in Block : k = blockno[b]
  BY <1>2, <1>4 DEF Ind, Users
<1>6. /\ valid' = valid \cup {b} /\ dirty' = dirty \ {b}
      /\ bpc' = [q \in Proc |-> IF bpc[q] = "sleeping" /\ mine[q] = b THEN "woken" ELSE bpc[q]]
      /\ UNCHANGED <<blockno, refcnt, holder, mru, latest, mine, bpanicked>>
  BY <1>2 DEF B!Ideintr, B!Wakeup, B!cachevars
<1>7. \/ b \in dirty /\ disk' = [disk EXCEPT ![k] = ctlr] /\ UNCHANGED <<data, failed>>
      \/ /\ b \notin dirty /\ data' = [data EXCEPT ![b] = disk[k]]
         /\ failed' = failed \ {b} /\ UNCHANGED disk
      \/ b \notin dirty /\ failed' = failed \cup {b} /\ UNCHANGED <<data, disk>>
  BY <1>2, <1>5 DEF B!Ideintr
<1>8. /\ ctlr' \in Val
      /\ idequeue' # << >> /\ Head(idequeue') \in dirty => ctlr' = data[Head(idequeue')]
  <2>1. IF idequeue' # << >> THEN B!Idestart(Head(idequeue')) ELSE UNCHANGED ctlr
    BY <1>3 DEF B!Ideintr
  <2>2. idequeue' # << >> => Head(idequeue') \in Buf
    BY <1>3, TailIs
  <2> QED
    BY <1>1, <2>1, <2>2 DEF B!Idestart, B!TypeOK
<1>9. /\ data' \in [Buf -> Val] /\ disk' \in [Block -> Val] /\ failed' \in SUBSET Buf
      /\ \A x \in Buf : x # b => data'[x] = data[x] /\ (x \in failed' <=> x \in failed)
      /\ \A j \in Block : j # k => disk'[j] = disk[j]
  BY <1>1, <1>7 DEF B!TypeOK
<1>10. /\ bpc' \in [Proc -> B!PCs]
       /\ \A q \in Proc : bpc'[q] = IF bpc[q] = "sleeping" /\ mine[q] = b
                                   THEN "woken" ELSE bpc[q]
  BY <1>1, <1>6 DEF B!TypeOK, B!PCs
<1>11. B!TypeOK'
  BY <1>1, <1>3, <1>6, <1>8, <1>9, <1>10 DEF B!TypeOK
<1>12. B!OneBufferPerBlock' /\ RefcntExact' /\ ListComplete'
  BY <1>6, CacheUnchanged
<1>13. Users'
  <2>1. \A q \in Proc : /\ bpc'[q] = "out" <=> bpc[q] = "out"
                        /\ bpc'[q] \in Busy \cup {"in"} <=> bpc[q] \in Busy \cup {"in"}
    BY <1>10 DEF Busy
  <2> QED
    BY <1>6, <2>1 DEF Ind, Users
<1>14. Flags'
  <2>1. dirty' \subseteq valid' /\ dirty' \cap failed' = {}
    <3>1. dirty \subseteq Buf
      BY <1>1 DEF B!TypeOK
    <3> QED
      BY <1>6, <1>9, <3>1 DEF Ind, Flags
  <2>2. \A x \in valid' : blockno[x] \in Block
    BY <1>5, <1>6 DEF Ind, Flags
  <2>3. ASSUME NEW q \in Proc, bpc'[q] = "in" PROVE mine[q] \in valid'
    BY <1>6, <1>10, <2>3 DEF Ind, Flags
  <2>4. ASSUME NEW q \in Proc, bpc'[q] = "iderw" PROVE mine[q] \notin valid' \ dirty'
    <3>1. bpc[q] = "iderw"
      BY <1>10, <2>4
    <3>2. mine[q] # b
      BY <1>4, <3>1 DEF Ind, Users, Busy
    <3> QED
      BY <1>6, <3>1, <3>2 DEF Ind, Flags
  <2> QED
    BY <1>6, <2>1, <2>2, <2>3, <2>4 DEF Flags
<1>15. QueueWellFormed'
  <2> SUFFICES ASSUME NEW x \in Buf, x \in ToSet(idequeue) \ {b}
               PROVE  /\ x \notin valid' \ dirty'
                      /\ holder[x] # NoProc /\ mine[holder[x]] = x
                      /\ bpc'[holder[x]] \in {"sleeping", "woken"}
    BY <1>3, <1>6 DEF QueueWellFormed
  <2>1. /\ x \notin valid \ dirty
        /\ holder[x] # NoProc /\ mine[holder[x]] = x
        /\ bpc[holder[x]] \in {"sleeping", "woken"} /\ holder[x] \in Proc
    BY DEF Ind, QueueWellFormed, B!TypeOK
  <2> QED
    BY <1>6, <1>10, <2>1
<1>16. RequestPending'
  <2> SUFFICES ASSUME NEW q \in Proc, bpc'[q] = "sleeping"
               PROVE  mine[q] \in ToSet(idequeue) \ {b}
    BY <1>3, <1>6 DEF RequestPending
  <2>1. bpc[q] = "sleeping" /\ mine[q] # b
    BY <1>10
  <2> QED
    BY <2>1 DEF Ind, RequestPending
<1>17. Woken'
  <2> SUFFICES ASSUME NEW q \in Proc, bpc'[q] = "woken"
               PROVE  mine[q] \in valid' \ dirty' \/ mine[q] \in ToSet(idequeue) \ {b}
    BY <1>3, <1>6 DEF Woken
  <2>1. CASE mine[q] = b
    BY <1>6, <2>1
  <2>2. CASE mine[q] # b
    <3>1. bpc[q] = "woken"
      BY <1>10, <2>2
    <3> QED
      BY <1>6, <2>2, <3>1 DEF Ind, Woken
  <2> QED
    BY <2>1, <2>2
<1>18. Sent'
  <2> SUFFICES ASSUME idequeue' # << >>, Head(idequeue') \in dirty'
               PROVE  ctlr' = data'[Head(idequeue')]
    BY DEF Sent
  <2>1. Head(idequeue') # b /\ Head(idequeue') \in Buf /\ Head(idequeue') \in dirty
    BY <1>1, <1>6 DEF B!TypeOK
  <2> QED
    BY <1>8, <1>9, <2>1
<1>19. Coherent'
  <2>1. \A x \in Buf : x # b /\ blockno[x] \in Block => blockno[x] # k
    BY <1>5 DEF Ind, B!OneBufferPerBlock
  <2>2. b \in dirty => ctlr = latest[k] /\ data[b] = latest[k]
    <3>1. b \in dirty => ctlr = data[b]
      BY <1>1, <1>2 DEF Ind, Sent
    <3>2. b \in dirty => b \in valid \ failed
      BY DEF Ind, Flags
    <3> QED
      BY <1>5, <3>1, <3>2 DEF Ind, Coherent
  <2>3. b \notin dirty => disk[k] = latest[k]
    <3>1. \A x \in dirty : x \in Buf /\ blockno[x] \in Block
      BY <1>1 DEF Ind, Flags, B!TypeOK
    <3> QED
      BY <2>1, <3>1 DEF Ind, Coherent
  <2>4. disk'[k] = latest[k]
    BY <1>1, <1>7, <2>2, <2>3 DEF B!TypeOK
  <2>5. b \notin failed' => data'[b] = latest[k]
    BY <1>1, <1>7, <2>2, <2>3 DEF B!TypeOK
  <2>6. ASSUME NEW x \in valid', x \notin failed' PROVE data'[x] = latest[blockno[x]]
    <3>1. CASE x = b
      BY <1>5, <2>5, <2>6, <3>1
    <3>2. CASE x # b
      <4>1. x \in Buf /\ x \in valid /\ x \notin failed
        BY <1>1, <1>6, <1>9, <2>6, <3>2 DEF B!TypeOK
      <4> QED
        BY <1>9, <3>2, <4>1 DEF Ind, Coherent
    <3> QED
      BY <3>1, <3>2
  <2>7. ASSUME NEW j \in Block
        PROVE  disk'[j] = latest[j] \/ \E x \in dirty' : blockno[x] = j
    <3>1. CASE j = k
      BY <2>4, <3>1
    <3>2. CASE j # k
      BY <1>5, <1>6, <1>9, <3>2 DEF Ind, Coherent
    <3> QED
      BY <3>1, <3>2
  <2> QED
    BY <1>6, <2>6, <2>7 DEF Coherent
<1> QED
  BY <1>11, <1>12, <1>13, <1>14, <1>15, <1>16, <1>17, <1>18, <1>19 DEF Ind

-----------------------------------------------------------------------------
LEMMA InitInd == B!Init => Ind
<1> USE BcacheConstants
<1> SUFFICES ASSUME B!Init PROVE Ind
  OBVIOUS
<1>1. PICK v \in Val : data = [b \in Buf |-> v]
  BY DEF B!Init
<1>2. mru \in Seq(Buf) /\ IsInjective(mru) /\ ToSet(mru) = Buf
  BY SetToSeqIs, SameOperators DEF B!Init
<1>3. B!TypeOK
  <2>1. idequeue \in Seq(Buf) /\ ctlr \in Val /\ bpanicked \in BOOLEAN
    <3>1. idequeue = << >> /\ ctlr \in Val /\ bpanicked = FALSE
      BY DEF B!Init
    <3>2. << >> \in Seq(Buf)
      OBVIOUS
    <3>3. bpanicked \in BOOLEAN
      BY <3>1
    <3> QED
      BY <3>1, <3>2, <3>3
  <2>2. /\ blockno \in [Buf -> Block \cup {NoBlock}] /\ refcnt \in [Buf -> Nat]
        /\ holder \in [Buf -> Proc \cup {NoProc}] /\ data \in [Buf -> Val]
        /\ valid \in SUBSET Buf /\ dirty \in SUBSET Buf /\ failed \in SUBSET Buf
    BY <1>1 DEF B!Init
  <2>3. disk \in [Block -> Val] /\ latest \in [Block -> Val]
    BY DEF B!Init
  <2>4. bpc \in [Proc -> B!PCs] /\ mine \in [Proc -> Buf \cup {NoBuf}]
    BY DEF B!Init, B!PCs
  <2> QED
    BY <1>2, <2>1, <2>2, <2>3, <2>4 DEF B!TypeOK
<1>4. B!OneBufferPerBlock /\ ListComplete
  BY <1>2 DEF B!Init, B!OneBufferPerBlock, ListComplete
<1>5. RefcntExact
  <2>1. \A b \in Buf : {p \in Proc : mine[p] = b} = {} /\ refcnt[b] = 0
    BY DEF B!Init
  <2> QED
    BY <2>1, FS_EmptySet DEF RefcntExact
<1>6. Users
  BY DEF B!Init, Users, Busy
<1>7. Flags /\ RequestPending /\ Woken /\ Sent /\ Coherent
  BY DEF B!Init, Flags, RequestPending, Woken, Sent, Coherent
<1>8. QueueWellFormed
  <2>1. IsInjective(<< >>) /\ ToSet(<< >>) = {}
    BY DEF IsInjective, ToSet
  <2> QED
    BY <2>1 DEF B!Init, QueueWellFormed
<1> QED
  BY <1>3, <1>4, <1>5, <1>6, <1>7, <1>8 DEF Ind

LEMMA NextInd == Ind /\ [B!Next]_(B!vars) => Ind'
<1> SUFFICES ASSUME Ind, [B!Next]_(B!vars) PROVE Ind'
  OBVIOUS
<1>1. ASSUME NEW p \in Proc, B!Step(p) \/ B!Kill(p) PROVE Ind'
  BY <1>1, AcquiresleepInd, IderwInd, IderwDoneInd, BrelseListInd, BrelseInd, KillInd
     DEF B!Step
<1>2. ASSUME NEW p \in Proc, NEW k \in Block, B!Bget(p, k) PROVE Ind'
  BY <1>2, BgetInd
<1>3. ASSUME NEW p \in Proc, NEW v \in Val, B!LogWrite(p, v) \/ B!Bwrite(p, v) PROVE Ind'
  BY <1>3, LogWriteInd, BwriteInd
<1>4. CASE B!Ideintr
  BY <1>4, IdeintrInd
<1>5. CASE UNCHANGED B!vars
  <2>1. bpanicked' \in BOOLEAN
    BY <1>5 DEF B!vars, Ind, B!TypeOK
  <2> QED
    BY <1>5, <2>1, PanicInd DEF B!vars, B!idevars, B!history
<1> QED
  BY <1>1, <1>2, <1>3, <1>4, <1>5 DEF B!Next

LEMMA BcacheSteps ==
    /\ MCInit => B!Init
    /\ [MCNext]_all => [B!Next]_(B!vars)
BY DEF MCInit, MCNext, Halted, all, bcachevars, B!vars

LEMMA IndAlways == MCSpec => []Ind
<1>1. MCInit => Ind
  BY BcacheSteps, InitInd
<1>2. Ind /\ [MCNext]_all => Ind'
  BY BcacheSteps, NextInd
<1> QED
  BY <1>1, <1>2, PTL DEF MCSpec

(* A buffer is in the disk queue exactly while somebody waits for it, and there
   once: iderw() never waits for an interrupt that does not come, and ideintr()
   never completes a request twice, whatever kill() wakes early. *)
THEOREM DiskQueueCorrect == MCSpec => []QueueInv
<1>1. Ind => QueueInv
  BY SameInvariants DEF Ind, QueueInv, B!QueueInv
<1> QED
  BY <1>1, IndAlways, PTL

(* Whoever holds a locked buffer reads what was last written to its block,
   through any number of evictions, write-backs and re-reads. *)
THEOREM CacheCoherent == MCSpec => []ReadsLatest
<1>1. Ind => ReadsLatest
  BY DEF Ind, ReadsLatest, B!ReadsLatest, Flags, Coherent
<1> QED
  BY <1>1, IndAlways, PTL

-----------------------------------------------------------------------------
(* Why bget() does not run out of buffers.  Those that it may not recycle are in
   use, by a process each, or pinned by the log. *)
LEMMA BufferFree ==
    ASSUME EnoughBuffers, Ind, Cardinality(Pinned) <= MaxPinned,
           NEW p \in Proc, bpc[p] = "out"
    PROVE  B!Recyclable # {}
<1> USE BcacheConstants
<1> SUFFICES ASSUME B!Recyclable = {} PROVE FALSE
  OBVIOUS
<1> DEFINE Used == {b \in Buf : refcnt[b] # 0}
           user == [b \in Used |-> CHOOSE q \in Proc : mine[q] = b]
           Rest == Proc \ {p}
<1>1. B!TypeOK /\ mine[p] = NoBuf
  BY DEF Ind, Users
<1>2. /\ IsFiniteSet(Used) /\ Cardinality(Used) \in Nat
      /\ IsFiniteSet(Pinned) /\ Cardinality(Pinned) \in Nat
  <2>1. Used \subseteq Buf /\ Pinned \subseteq Buf
    BY <1>1 DEF Pinned, B!TypeOK
  <2> HIDE DEF Used
  <2> QED
    BY <2>1, FS_Subset, FS_CardinalityType
<1>3. ASSUME NEW b \in Used PROVE \E q \in Rest : mine[q] = b
  <2> DEFINE U == {q \in Proc : mine[q] = b}
  <2>1. Cardinality(U) # 0
    BY DEF Ind, RefcntExact
  <2>2. U # {}
    <3> HIDE DEF U
    <3> QED
      BY <2>1, FS_EmptySet
  <2> QED
    BY <1>1, <2>2
<1>4. \A b \in Used : user[b] \in Rest /\ mine[user[b]] = b
  <2> SUFFICES ASSUME NEW b \in Used PROVE user[b] \in Rest /\ mine[user[b]] = b
    OBVIOUS
  <2>1. \E q \in Proc : mine[q] = b
    BY <1>3
  <2>2. user[b] \in Proc /\ mine[user[b]] = b
    BY <2>1
  <2> QED
    BY <1>1, <2>2
<1>5. user \in Injection(Used, Rest)
  <2>1. user \in [Used -> Rest]
    <3>1. user = [b \in Used |-> user[b]] /\ DOMAIN user = Used
      OBVIOUS
    <3> HIDE DEF user, Used, Rest
    <3> QED
      BY <1>4, <3>1
  <2> HIDE DEF user, Used, Rest
  <2> QED
    BY <1>4, <2>1 DEF Injection, IsInjective
<1>6. IsFiniteSet(Rest) /\ Cardinality(Rest) = Cardinality(Proc) - 1
  BY FS_RemoveElement
<1>7. Cardinality(Used) <= Cardinality(Rest)
  <2> HIDE DEF user, Used, Rest
  <2> QED
    BY <1>5, <1>6, FS_Injection
<1>8. Buf \subseteq Used \cup Pinned
  <2> SUFFICES ASSUME NEW b \in Buf, refcnt[b] = 0 PROVE b \in Pinned
    OBVIOUS
  <2>1. b \in dirty
    BY DEF B!Recyclable
  <2>2. \A q \in Proc : holder[b] # q
    BY NoUsers
  <2> QED
    BY <2>1, <2>2 DEF Pinned
<1>9. Cardinality(Buf) <= Cardinality(Used) + Cardinality(Pinned)
  <2> HIDE DEF Used
  <2>1. /\ IsFiniteSet(Used \cup Pinned)
        /\ Cardinality(Used \cup Pinned) =
              Cardinality(Used) + Cardinality(Pinned) - Cardinality(Used \cap Pinned)
    BY <1>2, FS_Union
  <2>2. Cardinality(Used \cap Pinned) \in Nat
    BY <1>2, FS_Intersection, FS_CardinalityType
  <2>3. Cardinality(Buf) <= Cardinality(Used \cup Pinned)
    BY <1>8, <2>1, FS_Subset
  <2>4. Cardinality(Buf) \in Nat /\ Cardinality(Used \cup Pinned) \in Nat
    BY <2>1, FS_CardinalityType
  <2> QED
    BY <1>2, <2>1, <2>2, <2>3, <2>4
<1>10. Cardinality(Proc) \in Nat /\ Cardinality(Buf) \in Nat
  BY FS_CardinalityType
<1> HIDE DEF Used, Rest
<1> QED
  BY <1>2, <1>6, <1>7, <1>9, <1>10 DEF EnoughBuffers

(* Pinned grows by log_write() alone. *)
LEMMA PinnedShrinks ==
    ASSUME Ind, Pinned' \subseteq Pinned, Cardinality(Pinned) <= MaxPinned
    PROVE  Cardinality(Pinned') <= MaxPinned
<1> USE BcacheConstants
<1>1. IsFiniteSet(Pinned)
  <2>1. Pinned \subseteq Buf
    BY DEF Ind, B!TypeOK, Pinned
  <2> QED
    BY <2>1, FS_Subset
<1>2. /\ Cardinality(Pinned') <= Cardinality(Pinned) /\ Cardinality(Pinned') \in Nat
      /\ Cardinality(Pinned) \in Nat
  BY <1>1, FS_Subset, FS_CardinalityType
<1> QED
  BY <1>2

LEMMA InitRoom == B!Init => Room
<1> SUFFICES ASSUME B!Init PROVE Room
  OBVIOUS
<1>1. Pinned = {}
  BY DEF B!Init, Pinned
<1> QED
  BY <1>1, FS_EmptySet, BcacheConstants DEF B!Init, Room

LEMMA NextRoom == ASSUME EnoughBuffers PROVE Ind /\ Room /\ [B!Next]_(B!vars) => Room'
<1> USE BcacheConstants
<1> SUFFICES ASSUME Ind, Room, [B!Next]_(B!vars) PROVE Room'
  OBVIOUS
<1>0. B!TypeOK /\ bpanicked = FALSE /\ Cardinality(Pinned) <= MaxPinned
  BY DEF Ind, Room, B!TypeOK
<1>1. ASSUME NEW p \in Proc, B!Acquiresleep(p) PROVE Room'
  <2>1. PICK b \in Buf : b = mine[p]
    BY <1>1, MineIs DEF B!Acquiresleep
  <2>2. /\ bpc[p] = "acquiresleep" /\ holder[b] = NoProc
        /\ b \in dirty => bpc'[p] = "in"
        /\ holder' = [holder EXCEPT ![b] = p]
        /\ UNCHANGED <<dirty, bpanicked>>
        /\ \A q \in Proc : q # p => bpc'[q] = bpc[q]
    BY <1>0, <1>1, <2>1 DEF B!Acquiresleep, B!Goto, B!TypeOK, Ind, Flags
  <2>3. \A x \in Buf : x # b => holder[x] # p
    BY <2>1, <2>2 DEF Ind, Users
  <2>4. Pinned' \subseteq Pinned
    <3> SUFFICES ASSUME NEW x \in Pinned', NEW q \in Proc, holder[x] = q
                 PROVE  bpc[q] \notin Busy
      BY <2>2 DEF Pinned
    <3>1. x \in Buf /\ x # b
      BY <1>0, <2>2 DEF Pinned, B!TypeOK
    <3>2. holder'[x] = q /\ q # p
      BY <1>0, <2>2, <2>3, <3>1 DEF B!TypeOK
    <3> QED
      BY <2>2, <3>1, <3>2 DEF Pinned
  <2> QED
    BY <1>0, <2>2, <2>4, PinnedShrinks DEF Room
<1>2. ASSUME NEW p \in Proc, B!Brelse(p) PROVE Room'
  <2>1. PICK b \in Buf : b = mine[p]
    BY <1>2, MineIs DEF B!Brelse
  <2>2. /\ bpc[p] = "in" /\ holder[b] = p
        /\ holder' = [holder EXCEPT ![b] = NoProc] /\ UNCHANGED dirty
        /\ \A q \in Proc : q # p => bpc'[q] = bpc[q]
    BY <1>0, <1>2, <2>1 DEF B!Brelse, B!Goto, B!TypeOK, Ind, Users
  <2>3. Pinned' \subseteq Pinned
    <3> SUFFICES ASSUME NEW x \in Pinned', NEW q \in Proc, holder[x] = q
                 PROVE  bpc[q] \notin Busy
      BY <2>2 DEF Pinned
    <3>1. CASE q = p
      BY <2>2, <3>1 DEF Busy
    <3>2. CASE q # p
      <4>1. x \in Buf /\ x # b /\ holder'[x] = q
        BY <1>0, <2>2, <3>2 DEF Pinned, B!TypeOK
      <4> QED
        BY <2>2, <3>2, <4>1 DEF Pinned
    <3> QED
      BY <3>1, <3>2
  <2>4. ~bpanicked'
    BY <1>2, BrelseInd
  <2> QED
    BY <1>0, <2>3, <2>4, PinnedShrinks DEF Room
<1>3. ASSUME NEW p \in Proc, B!Iderw(p) PROVE Room'
  <2>1. /\ bpc[p] = "iderw" /\ UNCHANGED <<dirty, holder>> /\ bpc'[p] = "sleeping"
        /\ \A q \in Proc : q # p => bpc'[q] = bpc[q]
    BY <1>0, <1>3 DEF B!Iderw, B!Goto, B!TypeOK, B!cachevars
  <2>2. Pinned' \subseteq Pinned
    BY <2>1 DEF Pinned, Busy
  <2>3. ~bpanicked'
    BY <1>3, IderwInd
  <2> QED
    BY <1>0, <2>2, <2>3, PinnedShrinks DEF Room
<1>4. ASSUME NEW p \in Proc, B!IderwDone(p) PROVE Room'
  <2>1. /\ bpc[p] = "woken" /\ UNCHANGED <<dirty, holder, bpanicked>>
        /\ bpc'[p] = IF mine[p] \in valid \ dirty THEN "in" ELSE "sleeping"
        /\ \A q \in Proc : q # p => bpc'[q] = bpc[q]
    BY <1>0, <1>4 DEF B!IderwDone, B!Goto, B!TypeOK, B!cachevars
  <2>2. \A x \in dirty : x \in Buf /\ (holder[x] = p => mine[p] = x)
    BY <1>0 DEF B!TypeOK, Ind, Users
  <2>3. Pinned' \subseteq Pinned
    BY <2>1, <2>2 DEF Pinned, Busy
  <2> QED
    BY <1>0, <2>1, <2>3, PinnedShrinks DEF Room
<1>5. ASSUME NEW p \in Proc, B!Kill(p) PROVE Room'
  <2>1. /\ bpc[p] = "sleeping" /\ UNCHANGED <<dirty, holder, bpanicked>> /\ bpc'[p] = "woken"
        /\ \A q \in Proc : q # p => bpc'[q] = bpc[q]
    BY <1>0, <1>5 DEF B!Kill, B!Goto, B!TypeOK, B!cachevars
  <2>2. Pinned' \subseteq Pinned
    BY <2>1 DEF Pinned, Busy
  <2> QED
    BY <1>0, <2>1, <2>2, PinnedShrinks DEF Room
<1>6. ASSUME NEW p \in Proc, B!BrelseList(p) PROVE Room'
  <2>1. /\ bpc[p] = "brelse" /\ UNCHANGED <<dirty, holder, bpanicked>>
        /\ \A q \in Proc : q # p => bpc'[q] = bpc[q]
    BY <1>0, <1>6 DEF B!BrelseList, B!Goto, B!TypeOK
  <2>2. Pinned' \subseteq Pinned
    BY <2>1 DEF Pinned, Busy
  <2> QED
    BY <1>0, <2>1, <2>2, PinnedShrinks DEF Room
<1>7. ASSUME NEW p \in Proc, NEW k \in Block, B!Bget(p, k) PROVE Room'
  <2>1. bpc[p] = "out" /\ UNCHANGED holder
    BY <1>7 DEF B!Bget
  <2>2. B!Recyclable # {}
    BY <1>0, <2>1, BufferFree
  <2>3. /\ dirty' \subseteq dirty /\ UNCHANGED bpanicked
        /\ \A q \in Proc : q # p => bpc'[q] = bpc[q]
    BY <1>0, <1>7, <2>2 DEF B!Bget, B!Goto, B!TypeOK
  <2>4. Pinned' \subseteq Pinned
    BY <2>1, <2>3 DEF Pinned, Busy
  <2> QED
    BY <1>0, <2>3, <2>4, PinnedShrinks DEF Room
<1>8. ASSUME NEW p \in Proc, NEW v \in Val, B!LogWrite(p, v) PROVE Room'
  <2>1. PICK b \in Buf : b = mine[p]
    BY <1>8, MineIs DEF B!LogWrite
  <2>2. /\ b \in dirty \/ Cardinality(dirty) < MaxPinned
        /\ dirty' = dirty \cup {b} /\ UNCHANGED <<bpc, holder, bpanicked>>
    BY <1>8, <2>1, SameOperators DEF B!LogWrite, B!cachevars
  <2>3. CASE b \in dirty
    <3>1. Pinned' \subseteq Pinned
      BY <2>2, <2>3 DEF Pinned
    <3> QED
      BY <1>0, <2>2, <3>1, PinnedShrinks DEF Room
  <2>4. CASE Cardinality(dirty) < MaxPinned
    <3>1. IsFiniteSet(dirty)
      BY <1>0, FS_Subset DEF B!TypeOK
    <3>2. /\ IsFiniteSet(dirty \cup {b})
          /\ Cardinality(dirty \cup {b}) <= Cardinality(dirty) + 1
          /\ Cardinality(dirty) \in Nat
      <4> DEFINE D == dirty \cup {b}
      <4>1. Cardinality(dirty) \in Nat
        BY <3>1, FS_CardinalityType
      <4>2. /\ IsFiniteSet(D)
            /\ Cardinality(D) = Cardinality(dirty) \/ Cardinality(D) = Cardinality(dirty) + 1
        BY <3>1, FS_AddElement
      <4>3. Cardinality(D) <= Cardinality(dirty) + 1
        <5> HIDE DEF D
        <5> QED
          BY <4>1, <4>2
      <4> QED
        BY <4>1, <4>2, <4>3
    <3>3. Pinned' \subseteq dirty \cup {b}
      BY <2>2 DEF Pinned
    <3>4. IsFiniteSet(Pinned') /\ Cardinality(Pinned') <= Cardinality(dirty \cup {b})
      BY <3>2, <3>3, FS_Subset
    <3>5. Cardinality(Pinned') \in Nat /\ Cardinality(dirty \cup {b}) \in Nat
      BY <3>2, <3>4, FS_CardinalityType
    <3>6. Cardinality(Pinned') <= MaxPinned
      BY <2>4, <3>2, <3>4, <3>5
    <3> QED
      BY <1>0, <2>2, <3>6 DEF Room
  <2> QED
    BY <2>2, <2>3, <2>4
<1>9. ASSUME NEW p \in Proc, NEW v \in Val, B!Bwrite(p, v) PROVE Room'
  <2>1. PICK b \in Buf : b = mine[p]
    BY <1>9, MineIs DEF B!Bwrite
  <2>2. /\ bpc[p] = "in" /\ dirty' = dirty \cup {b} /\ UNCHANGED <<holder, bpanicked>>
        /\ bpc'[p] = "iderw" /\ \A q \in Proc : q # p => bpc'[q] = bpc[q]
    BY <1>0, <1>9, <2>1 DEF B!Bwrite, B!Goto, B!TypeOK, B!cachevars
  <2>3. holder[b] = p
    BY <2>1, <2>2 DEF Ind, Users
  <2>4. Pinned' \subseteq Pinned
    BY <2>2, <2>3 DEF Pinned, Busy
  <2> QED
    BY <1>0, <2>2, <2>4, PinnedShrinks DEF Room
<1>10. CASE B!Ideintr
  <2>1. /\ dirty' \subseteq dirty /\ UNCHANGED <<holder, bpanicked>>
        /\ \A q \in Proc : bpc'[q] = bpc[q] \/ (bpc[q] = "sleeping" /\ bpc'[q] = "woken")
    BY <1>10 DEF B!Ideintr, B!Wakeup, B!cachevars
  <2>2. Pinned' \subseteq Pinned
    BY <2>1 DEF Pinned, Busy
  <2> QED
    BY <1>0, <2>1, <2>2, PinnedShrinks DEF Room
<1>11. CASE UNCHANGED B!vars
  BY <1>0, <1>11 DEF B!vars, Room, Pinned
<1> QED
  BY <1>1, <1>2, <1>3, <1>4, <1>5, <1>6, <1>7, <1>8, <1>9, <1>10, <1>11 DEF B!Next, B!Step

(* With a buffer for each process and for each block that the log keeps, the
   cache is consistent for ever: bget() caches a block in one buffer, refcnt counts
   its users exactly, brelse() loses no buffer from the list, and neither bget(),
   brelse() nor iderw() panics. *)
THEOREM CacheCorrect == ASSUME EnoughBuffers PROVE MCSpec => []BufferInv
<1>1. Ind /\ Room => BufferInv
  BY SameInvariants DEF Ind, Room, BufferInv, B!BufferInv, B!NoCachePanic
<1>2. MCInit => Ind /\ Room
  BY BcacheSteps, InitInd, InitRoom
<1>3. Ind /\ Room /\ [MCNext]_all => (Ind /\ Room)'
  BY BcacheSteps, NextInd, NextRoom
<1> QED
  BY <1>1, <1>2, <1>3, PTL DEF MCSpec
=============================================================================
