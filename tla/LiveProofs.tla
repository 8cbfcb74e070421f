----------------------------- MODULE LiveProofs ------------------------------
(***************************************************************************)
(* Proofs about two of the components of MCLive.  The pipe: for every      *)
(* number of readers and writers, every size of the ring and every width   *)
(* of the counters that is a multiple of it.  Sleep locks: for any set of  *)
(* processes.                                                              *)
(***************************************************************************)
EXTENDS MCLive, Remainders, SequenceTheorems, TLAPS

(***************************************************************************)
(* Pipe                                                                    *)
(***************************************************************************)

Inside == {"wloop", "wsleep", "rtest", "rsleep", "rcopy"}

(* p->lock is held by the process that is between acquire and release. *)
LockHolder ==
    /\ \A p \in Proc : pc[p] \in Inside <=> lock = p
    /\ \A p \in Proc : i[p] <= n[p]

Roles ==
    /\ \A p \in Writer : pc[p] \in {"out", "wacquire", "wloop", "wsleep", "wasleep"}
    /\ \A p \in Reader :
          pc[p] \in {"out", "racquire", "rtest", "rsleep", "rasleep", "rcopy"}

(* Nobody is in a call on an end that has been closed. *)
Ends ==
    /\ ~writeopen => \A p \in Writer : pc[p] = "out"
    /\ ~readopen => \A p \in Reader : pc[p] = "out"
    /\ freed <=> ~readopen /\ ~writeopen

(* The counters are never more than PIPESIZE apart. *)
Fill == Used <= PIPESIZE

(* Who may sleep, also while p->lock is held: what a process in the copying
   loop has changed it will announce before it releases the lock. *)
Sleepers ==
    /\ \A p \in Reader : pc[p] = "rsleep" => Empty /\ writeopen
    /\ \A p \in Writer : pc[p] = "wsleep" => Full /\ readopen
    /\ \A p \in Reader : pc[p] = "rasleep" =>
          writeopen /\ (Empty \/ missed \/ \E q \in Writer : pc[q] = "wloop")
    /\ \A p \in Writer : pc[p] = "wasleep" =>
          readopen /\ (Full \/ \E q \in Reader : pc[q] = "rcopy")

Ind == TypeOK /\ LockHolder /\ Roles /\ Ends /\ Fill /\ Sleepers

-----------------------------------------------------------------------------
(* Arithmetic of the counters. *)

(* A counter that wraps around stays in step with the ring. *)
LEMMA RingShift ==
    ASSUME NEW x \in Nat PROVE (x + UintMod) % PIPESIZE = x % PIPESIZE
<1> DEFINE k == UintMod \div PIPESIZE
<1>1. UintMod = PIPESIZE * k /\ k \in Nat
  BY PipeAssumption, ModParts
<1> HIDE DEF k
<1>2. (x + PIPESIZE * k) % PIPESIZE = x % PIPESIZE
  BY <1>1, ModShift, PipeAssumption
<1> QED BY <1>1, <1>2

(* Incrementing an unsigned counter. *)
LEMMA Incremented ==
    ASSUME NEW x \in 0 .. UintMod - 1
    PROVE  /\ (x + 1) % UintMod \in 0 .. UintMod - 1
           /\ (x + 1) % UintMod = IF x = UintMod - 1 THEN 0 ELSE x + 1
<1> USE PipeAssumption
<1>1. CASE x = UintMod - 1
  BY <1>1, ModOnce
<1>2. CASE x # UintMod - 1
  BY <1>2, ModSmall
<1> QED BY <1>1, <1>2

(* How far apart two counters are. *)
Apart(rd, wr) == (wr + UintMod - rd) % UintMod

LEMMA ApartIs ==
    ASSUME NEW rd \in 0 .. UintMod - 1, NEW wr \in 0 .. UintMod - 1
    PROVE  Apart(rd, wr) = IF rd <= wr THEN wr - rd ELSE wr + UintMod - rd
<1> USE PipeAssumption
<1>1. CASE rd <= wr
  <2> DEFINE x == wr + UintMod - rd
  <2>1. x \in Nat /\ UintMod <= x /\ x < 2 * UintMod /\ x - UintMod = wr - rd
    BY <1>1
  <2> HIDE DEF x
  <2>2. x % UintMod = x - UintMod
    <3>1. UintMod \in Nat \ {0}
      OBVIOUS
    <3> QED BY ONLY <2>1, <3>1, ModOnce
  <2> QED BY <1>1, <2>1, <2>2 DEF Apart, x
<1>2. CASE rd > wr
  BY <1>2, ModSmall DEF Apart
<1> QED BY <1>1, <1>2

(* Full and Empty, tested with == in pipe.c, mean what they should. *)
LEMMA UsedFacts ==
    ASSUME TypeOK
    PROVE  /\ Used = IF nread <= nwrite THEN nwrite - nread ELSE nwrite + UintMod - nread
           /\ Used \in 0 .. UintMod - 1
           /\ Full <=> Used = PIPESIZE
           /\ Empty <=> Used = 0
<1> USE PipeAssumption
<1>0. nread \in 0 .. UintMod - 1 /\ nwrite \in 0 .. UintMod - 1
  BY DEF TypeOK
<1>1. Used = IF nread <= nwrite THEN nwrite - nread ELSE nwrite + UintMod - nread
  BY <1>0, ApartIs DEF Used, Apart
<1>2. Used \in 0 .. UintMod - 1
  BY <1>0, <1>1
<1>3. (nread + PIPESIZE) % UintMod =
          IF nread + PIPESIZE < UintMod THEN nread + PIPESIZE
                                        ELSE nread + PIPESIZE - UintMod
  <2>1. CASE nread + PIPESIZE < UintMod
    BY <1>0, <2>1, ModSmall
  <2>2. CASE nread + PIPESIZE >= UintMod
    BY <1>0, <2>2, ModOnce
  <2> QED BY <1>0, <2>1, <2>2
<1>4. Full <=> Used = PIPESIZE
  BY <1>0, <1>1, <1>3 DEF Full
<1>5. Empty <=> Used = 0
  BY <1>0, <1>1 DEF Empty
<1> QED BY <1>1, <1>2, <1>4, <1>5

(* The counters index the ring. *)
LEMMA Slot ==
    ASSUME TypeOK
    PROVE  nwrite % PIPESIZE \in 0 .. PIPESIZE - 1 /\ nread % PIPESIZE \in 0 .. PIPESIZE - 1
<1>1. nwrite \in Nat /\ nread \in Nat /\ PIPESIZE \in Nat \ {0}
  BY PipeAssumption DEF TypeOK
<1> QED BY ONLY <1>1, ModRange

LEMMA StoreCounts ==
    ASSUME TypeOK, Used < PIPESIZE, nwrite' = (nwrite + 1) % UintMod, nread' = nread
    PROVE  nwrite' \in 0 .. UintMod - 1 /\ Used' = Used + 1
<1> USE PipeAssumption
<1>0. nread \in 0 .. UintMod - 1 /\ nwrite \in 0 .. UintMod - 1
  BY DEF TypeOK
<1>1. /\ nwrite' \in 0 .. UintMod - 1
      /\ nwrite' = IF nwrite = UintMod - 1 THEN 0 ELSE nwrite + 1
  BY <1>0, Incremented
<1>2. Used' = IF nread <= nwrite' THEN nwrite' - nread ELSE nwrite' + UintMod - nread
  BY <1>0, <1>1, ApartIs DEF Used, Apart
<1> QED BY <1>0, <1>1, <1>2, UsedFacts

LEMMA FetchCounts ==
    ASSUME TypeOK, Used # 0, nread' = (nread + 1) % UintMod, nwrite' = nwrite
    PROVE  nread' \in 0 .. UintMod - 1 /\ Used' = Used - 1
<1> USE PipeAssumption
<1>0. nread \in 0 .. UintMod - 1 /\ nwrite \in 0 .. UintMod - 1
  BY DEF TypeOK
<1>1. /\ nread' \in 0 .. UintMod - 1
      /\ nread' = IF nread = UintMod - 1 THEN 0 ELSE nread + 1
  BY <1>0, Incremented
<1>2. Used' = IF nread' <= nwrite THEN nwrite - nread' ELSE nwrite + UintMod - nread'
  BY <1>0, <1>1, ApartIs DEF Used, Apart
<1> QED BY <1>0, <1>1, <1>2, UsedFacts

-----------------------------------------------------------------------------
(* The inductive invariant. *)

LEMMA InitInd == Init => Ind
<1> SUFFICES ASSUME Init PROVE Ind
  OBVIOUS
<1> USE PipeAssumption DEF Init
<1>1. TypeOK
  <2>1. data \in [0 .. PIPESIZE - 1 -> Byte] /\ last \in Byte
    OBVIOUS
  <2>2. /\ nread \in 0 .. UintMod - 1 /\ nwrite \in 0 .. UintMod - 1
        /\ i \in [Proc -> 0 .. MaxN] /\ n \in [Proc -> 0 .. MaxN]
    OBVIOUS
  <2>3. /\ lock \in Proc \cup {NoProc}
        /\ pc \in [Proc -> PCs]
    BY DEF PCs
  <2>4. /\ readopen \in BOOLEAN /\ writeopen \in BOOLEAN /\ freed \in BOOLEAN
        /\ killed \in [Proc -> BOOLEAN] /\ missed \in BOOLEAN
    OBVIOUS
  <2> QED BY <2>1, <2>2, <2>3, <2>4 DEF TypeOK
<1>2. LockHolder
  BY DEF LockHolder, Inside, Proc
<1>3. Roles /\ Ends
  BY DEF Roles, Ends, Proc
<1>4. Fill
  BY <1>1, UsedFacts DEF Fill
<1>5. Sleepers
  BY DEF Sleepers, Proc
<1> QED BY <1>1, <1>2, <1>3, <1>4, <1>5 DEF Ind

LEMMA CallInd ==
    ASSUME NEW p \in Proc, NEW k \in 1 .. MaxN, Ind, Call(p, k) PROVE Ind'
<1>1. /\ pc[p] = "out"
      /\ \/ p \in Writer /\ writeopen /\ pc' = [pc EXCEPT ![p] = "wacquire"]
         \/ p \in Reader /\ readopen /\ pc' = [pc EXCEPT ![p] = "racquire"]
      /\ n' = [n EXCEPT ![p] = k]
      /\ i' = [i EXCEPT ![p] = 0]
      /\ UNCHANGED <<data, nread, nwrite, readopen, writeopen, freed, lock, killed,
                     last, missed>>
  BY DEF Call, pipe, Goto
<1>2. TypeOK'
  <2>1. pc' \in [Proc -> PCs]
    BY <1>1 DEF Ind, TypeOK, PCs
  <2>2. i' \in [Proc -> 0 .. MaxN] /\ n' \in [Proc -> 0 .. MaxN]
    BY <1>1, PipeAssumption DEF Ind, TypeOK
  <2> QED BY <1>1, <2>1, <2>2 DEF Ind, TypeOK
<1>3. LockHolder'
  BY <1>1 DEF Ind, LockHolder, Inside, TypeOK
<1>4. Roles'
  BY <1>1, PipeAssumption, ZenonT(60) DEF Ind, Roles, TypeOK, Proc
<1>5. Ends'
  BY <1>1, PipeAssumption DEF Ind, Ends, TypeOK, Proc
<1>6. Fill'
  BY <1>1 DEF Ind, Fill, Used
<1>7. Sleepers'
  BY <1>1, SMTT(30) DEF Ind, Sleepers, TypeOK, Proc, Full, Empty
<1> QED BY <1>2, <1>3, <1>4, <1>5, <1>6, <1>7 DEF Ind

(* The two kinds of process are distinct. *)
LEMMA Kinds ==
    /\ Reader \subseteq Proc /\ Writer \subseteq Proc /\ NoProc \notin Proc
    /\ \A p \in Proc : p \in Reader <=> p \notin Writer
  BY PipeAssumption DEF Proc

LEMMA AcquireInd == ASSUME NEW p \in Proc, Ind, Acquire(p) PROVE Ind'
<1>1. /\ pc[p] \in {"wacquire", "racquire"}
      /\ lock = NoProc /\ lock' = p
      /\ pc' = [pc EXCEPT ![p] = IF p \in Writer THEN "wloop" ELSE "rtest"]
      /\ UNCHANGED <<data, nread, nwrite, readopen, writeopen, freed, i, n, killed,
                     last, missed>>
  BY DEF Acquire, pipe, Goto
<1>2. TypeOK'
  BY <1>1 DEF Ind, TypeOK, PCs
<1>3. LockHolder'
  BY <1>1, Kinds DEF Ind, LockHolder, Inside, TypeOK
<1>4. Roles'
  BY <1>1, Kinds DEF Ind, Roles, TypeOK
<1>5. Ends'
  BY <1>1, Kinds DEF Ind, Ends, TypeOK
<1>6. Fill'
  BY <1>1 DEF Ind, Fill, Used
<1>7. Sleepers'
  BY <1>1, Kinds DEF Ind, Sleepers, TypeOK, Full, Empty
<1> QED BY <1>2, <1>3, <1>4, <1>5, <1>6, <1>7 DEF Ind

LEMMA WriteByteInd ==
    ASSUME NEW p \in Proc, NEW b \in Byte, Ind, WriteByte(p, b) PROVE Ind'
<1>1. /\ pc[p] = "wloop" /\ i[p] < n[p] /\ ~Full
      /\ data' = [data EXCEPT ![nwrite % PIPESIZE] = b]
      /\ nwrite' = (nwrite + 1) % UintMod
      /\ i' = [i EXCEPT ![p] = i[p] + 1]
      /\ UNCHANGED <<nread, readopen, writeopen, freed, lock, pc, n, killed, last,
                     missed>>
  BY DEF WriteByte
<1>2. Used < PIPESIZE
  BY <1>1, UsedFacts, PipeAssumption DEF Ind, Fill
<1>3. nwrite' \in 0 .. UintMod - 1 /\ Used' = Used + 1
  BY <1>1, <1>2, StoreCounts DEF Ind
<1>4. p \in Writer /\ lock = p
  BY <1>1, Kinds DEF Ind, Roles, LockHolder, Inside
<1>5. TypeOK'
  <2>1. i' \in [Proc -> 0 .. MaxN]
    BY <1>1, PipeAssumption DEF Ind, TypeOK
  <2>2. data' \in [0 .. PIPESIZE - 1 -> Byte]
    <3>1. nwrite % PIPESIZE \in 0 .. PIPESIZE - 1
      BY Slot DEF Ind
    <3> QED BY <1>1, <3>1 DEF Ind, TypeOK
  <2> QED BY <1>1, <1>3, <2>1, <2>2 DEF Ind, TypeOK
<1>6. LockHolder'
  BY <1>1, PipeAssumption DEF Ind, LockHolder, TypeOK
<1>7. Roles' /\ Ends'
  BY <1>1 DEF Ind, Roles, Ends
<1>8. Fill'
  BY <1>2, <1>3, UsedFacts, PipeAssumption DEF Ind, Fill
<1>9. Sleepers'
  <2>1. \A q \in Proc : pc[q] \in Inside => q = p
    BY <1>4 DEF Ind, LockHolder
  <2>2. \A q \in Reader : pc[q] # "rcopy" /\ pc[q] # "rsleep"
    BY <1>4, <2>1, Kinds DEF Inside
  <2>3. \A q \in Writer : pc[q] # "wasleep" /\ pc[q] # "wsleep"
    BY <1>1, <2>1, <2>2, Kinds DEF Ind, Sleepers, Inside
  <2> QED BY <1>1, <1>4, <2>2, <2>3 DEF Ind, Sleepers
<1> QED BY <1>5, <1>6, <1>7, <1>8, <1>9 DEF Ind

LEMMA WriteFullInd == ASSUME NEW p \in Proc, Ind, WriteFull(p) PROVE Ind'
<1>1. /\ pc[p] = "wloop" /\ i[p] < n[p] /\ Full
      /\ UNCHANGED <<data, nread, nwrite, readopen, writeopen, freed, killed, last>>
  BY DEF WriteFull, pipe
<1>2. p \in Writer /\ lock = p /\ writeopen
  BY <1>1, Kinds DEF Ind, Roles, LockHolder, Inside, Ends
<1>3. \A q \in Proc : pc[q] \in Inside => q = p
  BY <1>2 DEF Ind, LockHolder
<1>4. Fill' /\ (Full' <=> Full) /\ (Empty' <=> Empty)
  BY <1>1 DEF Ind, Fill, Used, Full, Empty
<1>5. CASE ~readopen \/ killed[p]
  <2>1. /\ lock' = NoProc /\ pc' = [pc EXCEPT ![p] = "out"]
        /\ i' = [i EXCEPT ![p] = 0] /\ n' = [n EXCEPT ![p] = 0]
        /\ missed' = (missed \/ \E q \in Reader : pc[q] = "rasleep")
    BY <1>5 DEF WriteFull, Return, Goto
  <2>2. TypeOK'
    <3>1. pc' \in [Proc -> PCs]
      BY <2>1 DEF Ind, TypeOK, PCs
    <3>2. i' \in [Proc -> 0 .. MaxN] /\ n' \in [Proc -> 0 .. MaxN]
      BY <2>1, PipeAssumption DEF Ind, TypeOK
    <3>3. missed' \in BOOLEAN /\ lock' \in Proc \cup {NoProc}
      BY <2>1
    <3> QED BY <1>1, <3>1, <3>2, <3>3 DEF Ind, TypeOK
  <2>3. LockHolder'
    BY <1>2, <1>3, <2>1, Kinds DEF Ind, LockHolder, Inside, TypeOK
  <2>4. Roles'
    BY <1>2, <2>1, Kinds DEF Ind, Roles, TypeOK
  <2>5. Ends'
    BY <1>1, <1>2, <2>1, Kinds DEF Ind, Ends, TypeOK
  <2>6. Sleepers'
    <3>1. \A q \in Writer : pc'[q] # "wsleep" /\ (pc'[q] = "wasleep" => pc[q] = "wasleep")
      BY <1>3, <2>1, Kinds DEF Inside, Ind, TypeOK
    <3>2. \A q \in Reader : pc'[q] = pc[q]
      BY <1>2, <2>1, Kinds DEF Ind, TypeOK
    <3> QED BY <1>1, <1>4, <2>1, <3>1, <3>2 DEF Ind, Sleepers
  <2> QED BY <1>4, <2>2, <2>3, <2>4, <2>5, <2>6 DEF Ind
<1>6. CASE ~(~readopen \/ killed[p])
  <2>1. /\ pc' = WakeReaders([pc EXCEPT ![p] = "wsleep"])
        /\ missed' = FALSE /\ readopen
        /\ UNCHANGED <<lock, i, n>>
    BY <1>6 DEF WriteFull
  <2>2. /\ pc'[p] = "wsleep"
        /\ \A q \in Proc : q # p =>
              pc'[q] = IF pc[q] = "rasleep" THEN "racquire" ELSE pc[q]
    BY <2>1 DEF WakeReaders, Ind, TypeOK
  <2>3. TypeOK'
    <3>1. pc' \in [Proc -> PCs]
      BY <2>1 DEF Ind, TypeOK, PCs, WakeReaders
    <3>2. missed' \in BOOLEAN
      BY <2>1
    <3> QED BY <1>1, <2>1, <3>1, <3>2 DEF Ind, TypeOK
  <2>4. LockHolder'
    BY <1>2, <2>1, <2>2, Kinds DEF Ind, LockHolder, Inside
  <2>5. Roles'
    BY <1>2, <2>2, Kinds DEF Ind, Roles
  <2>6. Ends'
    BY <1>1, <1>2, <2>1, <2>2, Kinds DEF Ind, Ends
  <2>7. Sleepers'
    <3>1. \A q \in Reader : pc'[q] # "rasleep" /\ pc'[q] # "rsleep"
      BY <1>2, <1>3, <2>2, Kinds DEF Inside
    <3>2. \A q \in Reader : pc[q] # "rcopy"
      BY <1>2, <1>3, Kinds DEF Inside
    <3>3. \A q \in Writer : pc'[q] = "wasleep" => pc[q] = "wasleep"
      BY <2>2, Kinds
    <3> QED BY <1>1, <1>4, <2>1, <3>1, <3>2, <3>3 DEF Ind, Sleepers
  <2> QED BY <1>4, <2>3, <2>4, <2>5, <2>6, <2>7 DEF Ind
<1> QED BY <1>5, <1>6

LEMMA WriteDoneInd == ASSUME NEW p \in Proc, Ind, WriteDone(p) PROVE Ind'
<1>1. /\ pc[p] = "wloop" /\ lock' = NoProc /\ missed' = FALSE
      /\ i' = [i EXCEPT ![p] = 0] /\ n' = [n EXCEPT ![p] = 0]
      /\ pc' = WakeReaders([pc EXCEPT ![p] = "out"])
      /\ UNCHANGED <<data, nread, nwrite, readopen, writeopen, freed, killed, last>>
  BY DEF WriteDone, Return, pipe
<1>2. p \in Writer /\ lock = p /\ writeopen
  BY <1>1, Kinds DEF Ind, Roles, LockHolder, Inside, Ends
<1>3. \A q \in Proc : pc[q] \in Inside => q = p
  BY <1>2 DEF Ind, LockHolder
<1>4. Fill' /\ (Full' <=> Full) /\ (Empty' <=> Empty)
  BY <1>1 DEF Ind, Fill, Used, Full, Empty
<1>5. /\ pc'[p] = "out"
      /\ \A q \in Proc : q # p =>
            pc'[q] = IF pc[q] = "rasleep" THEN "racquire" ELSE pc[q]
  BY <1>1 DEF WakeReaders, Ind, TypeOK
<1>6. TypeOK'
  <2>1. pc' \in [Proc -> PCs]
    BY <1>1 DEF Ind, TypeOK, PCs, WakeReaders
  <2>2. i' \in [Proc -> 0 .. MaxN] /\ n' \in [Proc -> 0 .. MaxN]
    BY <1>1, PipeAssumption DEF Ind, TypeOK
  <2>3. missed' \in BOOLEAN /\ lock' \in Proc \cup {NoProc}
    BY <1>1
  <2> QED BY <1>1, <2>1, <2>2, <2>3 DEF Ind, TypeOK
<1>7. LockHolder'
  <2>1. \A q \in Proc : pc'[q] \notin Inside /\ lock' # q
    BY <1>1, <1>3, <1>5, Kinds DEF Inside
  <2>2. \A q \in Proc : i'[q] <= n'[q]
    BY <1>1 DEF Ind, LockHolder, TypeOK
  <2> QED BY <2>1, <2>2 DEF LockHolder
<1>8. Roles'
  BY <1>2, <1>5, Kinds DEF Ind, Roles
<1>9. Ends'
  BY <1>1, <1>2, <1>5, Kinds DEF Ind, Ends
<1>10. Sleepers'
  <2>1. \A q \in Reader : pc'[q] # "rasleep" /\ pc'[q] # "rsleep"
    BY <1>2, <1>3, <1>5, Kinds DEF Inside
  <2>2. \A q \in Reader : pc[q] # "rcopy"
    BY <1>2, <1>3, Kinds DEF Inside
  <2>3. \A q \in Writer : pc'[q] # "wsleep" /\ (pc'[q] = "wasleep" => pc[q] = "wasleep")
    BY <1>3, <1>5, Kinds DEF Inside
  <2> QED BY <1>1, <1>4, <2>1, <2>2, <2>3 DEF Ind, Sleepers
<1> QED BY <1>4, <1>6, <1>7, <1>8, <1>9, <1>10 DEF Ind

LEMMA SleepInd == ASSUME NEW p \in Proc, Ind, Sleep(p) PROVE Ind'
<1>1. /\ pc[p] \in {"wsleep", "rsleep"} /\ lock' = NoProc
      /\ pc' = [pc EXCEPT ![p] = IF p \in Writer THEN "wasleep" ELSE "rasleep"]
      /\ UNCHANGED <<data, nread, nwrite, readopen, writeopen, freed, i, n, killed,
                     last, missed>>
  BY DEF Sleep, pipe, Goto
<1>2. /\ p \in Writer => pc[p] = "wsleep"
      /\ p \notin Writer => pc[p] = "rsleep"
  BY <1>1, Kinds DEF Ind, Roles
<1>3. \A q \in Proc : pc[q] \in Inside => q = p
  BY <1>1 DEF Ind, LockHolder, Inside
<1>4. Fill' /\ (Full' <=> Full) /\ (Empty' <=> Empty)
  BY <1>1 DEF Ind, Fill, Used, Full, Empty
<1>5. /\ pc'[p] = IF p \in Writer THEN "wasleep" ELSE "rasleep"
      /\ \A q \in Proc : q # p => pc'[q] = pc[q]
  BY <1>1 DEF Ind, TypeOK
<1>6. TypeOK'
  BY <1>1 DEF Ind, TypeOK, PCs
<1>7. LockHolder'
  BY <1>1, <1>3, <1>5, Kinds DEF Ind, LockHolder, Inside
<1>8. Roles'
  BY <1>5, Kinds DEF Ind, Roles
<1>9. Ends'
  BY <1>1, <1>5, Kinds DEF Ind, Ends
<1>10. Sleepers'
  <2>1. \A q \in Reader : pc[q] # "rcopy"
    BY <1>1, <1>3, Kinds DEF Inside
  <2>2. \A q \in Writer : pc[q] # "wloop"
    BY <1>1, <1>3, Kinds DEF Inside
  <2>3. \A q \in Reader : /\ pc'[q] # "rsleep"
                          /\ pc'[q] = "rasleep" => pc[q] = "rasleep" \/ pc[q] = "rsleep"
    BY <1>2, <1>3, <1>5, Kinds DEF Inside
  <2>4. \A q \in Writer : /\ pc'[q] # "wsleep"
                          /\ pc'[q] = "wasleep" => pc[q] = "wasleep" \/ pc[q] = "wsleep"
    BY <1>2, <1>3, <1>5, Kinds DEF Inside
  <2> QED BY <1>1, <1>4, <2>1, <2>2, <2>3, <2>4 DEF Ind, Sleepers
<1> QED BY <1>4, <1>6, <1>7, <1>8, <1>9, <1>10 DEF Ind

LEMMA ReadTestInd == ASSUME NEW p \in Proc, Ind, ReadTest(p) PROVE Ind'
<1>1. /\ pc[p] = "rtest"
      /\ \/ lock' = NoProc /\ pc' = [pc EXCEPT ![p] = "out"]
                /\ i' = [i EXCEPT ![p] = 0] /\ n' = [n EXCEPT ![p] = 0]
         \/ Empty /\ writeopen /\ pc' = [pc EXCEPT ![p] = "rsleep"]
                /\ UNCHANGED <<lock, i, n>>
         \/ pc' = [pc EXCEPT ![p] = "rcopy"] /\ UNCHANGED <<lock, i, n>>
      /\ UNCHANGED <<data, nread, nwrite, readopen, writeopen, freed, killed, last,
                     missed>>
  BY DEF ReadTest, pipe, Goto, Return
<1>2. p \in Reader /\ lock = p /\ readopen
  BY <1>1, Kinds DEF Ind, Roles, LockHolder, Inside, Ends
<1>3. \A q \in Proc : pc[q] \in Inside => q = p
  BY <1>2 DEF Ind, LockHolder
<1>4. Fill' /\ (Full' <=> Full) /\ (Empty' <=> Empty)
  BY <1>1 DEF Ind, Fill, Used, Full, Empty
<1>5. /\ pc'[p] \in {"out", "rsleep", "rcopy"}
      /\ pc'[p] = "rsleep" => Empty /\ writeopen
      /\ pc'[p] = "out" <=> lock' = NoProc
      /\ \A q \in Proc : q # p => pc'[q] = pc[q]
      /\ lock' \in {p, NoProc}
  BY <1>1, <1>2, Kinds DEF Ind, TypeOK
<1>6. TypeOK'
  <2>1. pc' \in [Proc -> PCs]
    BY <1>1 DEF Ind, TypeOK, PCs
  <2>2. i' \in [Proc -> 0 .. MaxN] /\ n' \in [Proc -> 0 .. MaxN]
    BY <1>1, PipeAssumption DEF Ind, TypeOK
  <2> QED BY <1>1, <1>5, <2>1, <2>2 DEF Ind, TypeOK
<1>7. LockHolder'
  <2>1. \A q \in Proc : pc'[q] \in Inside <=> lock' = q
    BY <1>2, <1>3, <1>5, Kinds DEF Inside
  <2>2. \A q \in Proc : i'[q] <= n'[q]
    <3>1. \A q \in Proc : \/ i'[q] = 0 /\ n'[q] = 0
                          \/ i'[q] = i[q] /\ n'[q] = n[q]
      BY <1>1 DEF Ind, TypeOK
    <3> QED BY <3>1 DEF Ind, LockHolder
  <2> QED BY <2>1, <2>2 DEF LockHolder
<1>8. Roles'
  BY <1>2, <1>5, Kinds DEF Ind, Roles
<1>9. Ends'
  BY <1>1, <1>2, <1>5, Kinds DEF Ind, Ends
<1>10. Sleepers'
  <2>1. \A q \in Reader : pc[q] # "rcopy"
    BY <1>1, <1>3, Kinds DEF Inside
  <2>2. \A q \in Writer : pc[q] # "wloop" /\ pc'[q] = pc[q]
    BY <1>2, <1>3, <1>5, Kinds DEF Inside
  <2>3. \A q \in Reader : /\ pc'[q] = "rsleep" => Empty /\ writeopen
                          /\ pc'[q] = "rasleep" => pc[q] = "rasleep"
    BY <1>3, <1>5, Kinds DEF Inside
  <2> QED BY <1>1, <1>4, <2>1, <2>2, <2>3 DEF Ind, Sleepers
<1> QED BY <1>4, <1>6, <1>7, <1>8, <1>9, <1>10 DEF Ind

LEMMA ReadByteInd == ASSUME NEW p \in Proc, Ind, ReadByte(p) PROVE Ind'
<1>1. /\ pc[p] = "rcopy" /\ i[p] < n[p] /\ ~Empty
      /\ last' = data[nread % PIPESIZE]
      /\ nread' = (nread + 1) % UintMod
      /\ i' = [i EXCEPT ![p] = i[p] + 1]
      /\ UNCHANGED <<data, nwrite, readopen, writeopen, freed, lock, pc, n, killed,
                     missed>>
  BY DEF ReadByte
<1>2. Used # 0
  BY <1>1, UsedFacts DEF Ind
<1>3. nread' \in 0 .. UintMod - 1 /\ Used' = Used - 1
  BY <1>1, <1>2, FetchCounts DEF Ind
<1>4. p \in Reader /\ lock = p
  BY <1>1, Kinds DEF Ind, Roles, LockHolder, Inside
<1>5. TypeOK'
  <2>1. i' \in [Proc -> 0 .. MaxN]
    BY <1>1, PipeAssumption DEF Ind, TypeOK
  <2>2. last' \in Byte
    <3>1. nread % PIPESIZE \in 0 .. PIPESIZE - 1
      BY Slot DEF Ind
    <3> QED BY <1>1, <3>1 DEF Ind, TypeOK
  <2> QED BY <1>1, <1>3, <2>1, <2>2 DEF Ind, TypeOK
<1>6. LockHolder'
  BY <1>1, PipeAssumption DEF Ind, LockHolder, TypeOK
<1>7. Roles' /\ Ends'
  BY <1>1 DEF Ind, Roles, Ends
<1>8. Fill'
  BY <1>2, <1>3, UsedFacts, PipeAssumption DEF Ind, Fill
<1>9. Sleepers'
  <2>1. \A q \in Proc : pc[q] \in Inside => q = p
    BY <1>4 DEF Ind, LockHolder
  <2>2. \A q \in Writer : pc[q] # "wloop" /\ pc[q] # "wsleep"
    BY <1>4, <2>1, Kinds DEF Inside
  <2>3. \A q \in Reader : pc[q] # "rsleep"
    BY <1>1, <2>1, Kinds DEF Inside
  <2>4. \A q \in Reader : pc[q] = "rasleep" => writeopen /\ missed
    BY <1>1, <2>2 DEF Ind, Sleepers
  <2>5. \A q \in Writer : pc[q] = "wasleep" => readopen
    BY DEF Ind, Sleepers
  <2> QED BY <1>1, <1>4, <2>2, <2>3, <2>4, <2>5 DEF Sleepers
<1> QED BY <1>5, <1>6, <1>7, <1>8, <1>9 DEF Ind

LEMMA ReadDoneInd == ASSUME NEW p \in Proc, Ind, ReadDone(p) PROVE Ind'
<1>1. /\ pc[p] = "rcopy" /\ lock' = NoProc
      /\ i' = [i EXCEPT ![p] = 0] /\ n' = [n EXCEPT ![p] = 0]
      /\ pc' = WakeWriters([pc EXCEPT ![p] = "out"])
      /\ UNCHANGED <<data, nread, nwrite, readopen, writeopen, freed, killed, last,
                     missed>>
  BY DEF ReadDone, Return, pipe
<1>2. p \in Reader /\ lock = p /\ readopen
  BY <1>1, Kinds DEF Ind, Roles, LockHolder, Inside, Ends
<1>3. \A q \in Proc : pc[q] \in Inside => q = p
  BY <1>2 DEF Ind, LockHolder
<1>4. Fill' /\ (Full' <=> Full) /\ (Empty' <=> Empty)
  BY <1>1 DEF Ind, Fill, Used, Full, Empty
<1>5. /\ pc'[p] = "out"
      /\ \A q \in Proc : q # p =>
            pc'[q] = IF pc[q] = "wasleep" THEN "wacquire" ELSE pc[q]
  BY <1>1 DEF WakeWriters, Ind, TypeOK
<1>6. TypeOK'
  <2>1. pc' \in [Proc -> PCs]
    BY <1>1 DEF Ind, TypeOK, PCs, WakeWriters
  <2>2. i' \in [Proc -> 0 .. MaxN] /\ n' \in [Proc -> 0 .. MaxN]
    BY <1>1, PipeAssumption DEF Ind, TypeOK
  <2>3. lock' \in Proc \cup {NoProc}
    BY <1>1
  <2> QED BY <1>1, <2>1, <2>2, <2>3 DEF Ind, TypeOK
<1>7. LockHolder'
  <2>1. \A q \in Proc : pc'[q] \notin Inside /\ lock' # q
    BY <1>1, <1>3, <1>5, Kinds DEF Inside
  <2>2. \A q \in Proc : i'[q] <= n'[q]
    BY <1>1 DEF Ind, LockHolder, TypeOK
  <2> QED BY <2>1, <2>2 DEF LockHolder
<1>8. Roles'
  BY <1>2, <1>5, Kinds DEF Ind, Roles
<1>9. Ends'
  BY <1>1, <1>2, <1>5, Kinds DEF Ind, Ends
<1>10. Sleepers'
  <2>1. \A q \in Writer : /\ pc'[q] # "wasleep" /\ pc'[q] # "wsleep"
                          /\ pc[q] # "wloop"
    BY <1>2, <1>3, <1>5, Kinds DEF Inside
  <2>2. \A q \in Reader : pc'[q] # "rsleep" /\ (pc'[q] = "rasleep" => pc[q] = "rasleep")
    BY <1>3, <1>5, Kinds DEF Inside
  <2> QED BY <1>1, <1>4, <2>1, <2>2 DEF Ind, Sleepers
<1> QED BY <1>4, <1>6, <1>7, <1>8, <1>9, <1>10 DEF Ind

LEMMA CloseWriteInd == ASSUME Ind, CloseWrite PROVE Ind'
<1>1. /\ writeopen /\ lock = NoProc
      /\ \A p \in Writer : pc[p] = "out"
      /\ writeopen' = FALSE /\ missed' = FALSE
      /\ pc' = WakeReaders(pc)
      /\ freed' = ~readopen
      /\ UNCHANGED <<data, nread, nwrite, readopen, lock, i, n, killed, last>>
  BY DEF CloseWrite
<1>2. \A p \in Proc : pc[p] \notin Inside
  BY <1>1, Kinds DEF Ind, LockHolder
<1>3. \A p \in Proc : pc'[p] = IF pc[p] = "rasleep" THEN "racquire" ELSE pc[p]
  BY <1>1 DEF WakeReaders
<1>4. TypeOK'
  <2>1. pc' \in [Proc -> PCs]
    BY <1>1 DEF Ind, TypeOK, PCs, WakeReaders
  <2>2. writeopen' \in BOOLEAN /\ freed' \in BOOLEAN /\ missed' \in BOOLEAN
    BY <1>1 DEF Ind, TypeOK
  <2> QED BY <1>1, <2>1, <2>2 DEF Ind, TypeOK
<1>5. LockHolder'
  BY <1>1, <1>2, <1>3, Kinds DEF Ind, LockHolder, Inside
<1>6. Roles'
  BY <1>3, Kinds DEF Ind, Roles
<1>7. Ends'
  BY <1>1, <1>3, Kinds DEF Ind, Ends
<1>8. Fill'
  BY <1>1 DEF Ind, Fill, Used
<1>9. Sleepers'
  BY <1>1, <1>2, <1>3, Kinds DEF Sleepers, Inside
<1> QED BY <1>4, <1>5, <1>6, <1>7, <1>8, <1>9 DEF Ind

LEMMA CloseReadInd == ASSUME Ind, CloseRead PROVE Ind'
<1>1. /\ readopen /\ lock = NoProc
      /\ \A p \in Reader : pc[p] = "out"
      /\ readopen' = FALSE
      /\ pc' = WakeWriters(pc)
      /\ freed' = ~writeopen
      /\ UNCHANGED <<data, nread, nwrite, writeopen, lock, i, n, killed, last, missed>>
  BY DEF CloseRead
<1>2. \A p \in Proc : pc[p] \notin Inside
  BY <1>1, Kinds DEF Ind, LockHolder
<1>3. \A p \in Proc : pc'[p] = IF pc[p] = "wasleep" THEN "wacquire" ELSE pc[p]
  BY <1>1 DEF WakeWriters
<1>4. TypeOK'
  <2>1. pc' \in [Proc -> PCs]
    BY <1>1 DEF Ind, TypeOK, PCs, WakeWriters
  <2>2. readopen' \in BOOLEAN /\ freed' \in BOOLEAN
    BY <1>1 DEF Ind, TypeOK
  <2> QED BY <1>1, <2>1, <2>2 DEF Ind, TypeOK
<1>5. LockHolder'
  BY <1>1, <1>2, <1>3, Kinds DEF Ind, LockHolder, Inside
<1>6. Roles'
  BY <1>3, Kinds DEF Ind, Roles
<1>7. Ends'
  BY <1>1, <1>3, Kinds DEF Ind, Ends
<1>8. Fill'
  BY <1>1 DEF Ind, Fill, Used
<1>9. Sleepers'
  BY <1>1, <1>2, <1>3, Kinds DEF Sleepers, Inside
<1> QED BY <1>4, <1>5, <1>6, <1>7, <1>8, <1>9 DEF Ind

LEMMA PipeallocInd == ASSUME Ind, Pipealloc PROVE Ind'
<1>1. /\ freed /\ readopen' = TRUE /\ writeopen' = TRUE /\ freed' = FALSE
      /\ nread' = 0 /\ nwrite' = 0
      /\ UNCHANGED <<data, lock, pc, i, n, killed, last, missed>>
  BY DEF Pipealloc
<1>2. \A p \in Proc : pc[p] = "out"
  BY <1>1 DEF Ind, Ends, Proc
<1>3. TypeOK'
  <2>1. readopen' \in BOOLEAN /\ writeopen' \in BOOLEAN /\ freed' \in BOOLEAN
    BY <1>1
  <2> QED BY <1>1, <2>1, PipeAssumption DEF Ind, TypeOK
<1>4. LockHolder' /\ Roles' /\ Ends'
  BY <1>1 DEF Ind, LockHolder, Roles, Ends
<1>5. Fill'
  <2>1. Used' = 0
    BY <1>1, PipeAssumption, ApartIs DEF Used, Apart
  <2> QED BY <2>1, PipeAssumption DEF Fill
<1>6. Sleepers'
  BY <1>1, <1>2, Kinds DEF Sleepers
<1> QED BY <1>3, <1>4, <1>5, <1>6 DEF Ind

LEMMA KillInd == ASSUME NEW p \in Proc, Ind, Kill(p) PROVE Ind'
<1>1. /\ killed' = [killed EXCEPT ![p] = TRUE]
      /\ \/ pc[p] = "rasleep" /\ pc' = [pc EXCEPT ![p] = "racquire"]
         \/ pc[p] = "wasleep" /\ pc' = [pc EXCEPT ![p] = "wacquire"]
         \/ pc' = [pc EXCEPT ![p] = pc[p]]
      /\ UNCHANGED <<data, nread, nwrite, readopen, writeopen, freed, lock, i, n,
                     last, missed>>
  BY DEF Kill, pipe
<1>2. TypeOK'
  <2>1. pc' \in [Proc -> PCs]
    BY <1>1 DEF Ind, TypeOK, PCs
  <2>2. killed' \in [Proc -> BOOLEAN]
    BY <1>1 DEF Ind, TypeOK
  <2> QED BY <1>1, <2>1, <2>2 DEF Ind, TypeOK
<1>3. \A q \in Proc : \/ pc'[q] = pc[q]
                      \/ pc[q] = "rasleep" /\ pc'[q] = "racquire"
                      \/ pc[q] = "wasleep" /\ pc'[q] = "wacquire"
  BY <1>1 DEF Ind, TypeOK
<1>4. LockHolder'
  BY <1>1, <1>3 DEF Ind, LockHolder, Inside
<1>5. Roles'
  BY <1>3, Kinds DEF Ind, Roles
<1>6. Ends'
  BY <1>1, <1>3, Kinds DEF Ind, Ends
<1>7. Fill'
  BY <1>1 DEF Ind, Fill, Used
<1>8. Sleepers'
  BY <1>1, <1>3, Kinds DEF Ind, Sleepers, Full, Empty
<1> QED BY <1>2, <1>4, <1>5, <1>6, <1>7, <1>8 DEF Ind

LEMMA NextInd == Ind /\ [Next]_vars => Ind'
<1> SUFFICES ASSUME Ind, [Next]_vars PROVE Ind'
  OBVIOUS
<1>1. ASSUME NEW p \in Proc, Step(p) PROVE Ind'
  BY <1>1, AcquireInd, WriteFullInd, WriteDoneInd, SleepInd, ReadTestInd,
     ReadByteInd, ReadDoneInd, WriteByteInd DEF Step
<1>2. ASSUME NEW p \in Proc, Kill(p) PROVE Ind'
  BY <1>2, KillInd
<1>3. ASSUME NEW p \in Proc, NEW k \in 1 .. MaxN, Call(p, k) PROVE Ind'
  BY <1>3, CallInd
<1>4. CASE CloseWrite \/ CloseRead \/ Pipealloc
  BY <1>4, CloseWriteInd, CloseReadInd, PipeallocInd
<1>5. ASSUME UNCHANGED <<data, nread, nwrite, readopen, writeopen, lock, freed, pc,
                         i, n, last, missed>>,
             killed' \in [Proc -> BOOLEAN]
      PROVE  Ind'
  <2>1. TypeOK'
    BY <1>5 DEF Ind, TypeOK
  <2>2. LockHolder' /\ Roles' /\ Ends' /\ Fill'
    BY <1>5 DEF Ind, LockHolder, Roles, Ends, Fill, Used
  <2>3. Sleepers'
    BY <1>5 DEF Ind, Sleepers, Full, Empty
  <2> QED BY <2>1, <2>2, <2>3 DEF Ind
<1>6. ASSUME NEW p \in Proc, Exit(p) PROVE Ind'
  <2>1. killed' \in [Proc -> BOOLEAN]
    BY <1>6 DEF Exit, Ind, TypeOK
  <2> QED BY <1>5, <1>6, <2>1 DEF Exit, pipe
<1>7. CASE UNCHANGED vars
  <2>1. killed' \in [Proc -> BOOLEAN]
    BY <1>7 DEF vars, Ind, TypeOK
  <2> QED BY <1>5, <1>7, <2>1 DEF vars
<1> QED BY <1>1, <1>2, <1>3, <1>4, <1>6, <1>7 DEF Next

-----------------------------------------------------------------------------

(* What p->lock protects, for any number of readers and writers: when it is
   free, nobody sleeps who could go on, but for the readers that a killed
   writer did not wake; and nobody is left in a pipe whose page is free. *)
THEOREM PipeCorrect == Spec => []PipeInv
<1>1. Ind => PipeInv
  <2> SUFFICES ASSUME Ind PROVE PipeInv
    OBVIOUS
  <2>1. SleepersMustWait
    <3> SUFFICES ASSUME lock = NoProc
                 PROVE  /\ \A p \in Reader :
                              pc[p] = "rasleep" => (Empty \/ missed) /\ writeopen
                        /\ \A p \in Writer : pc[p] = "wasleep" => Full /\ readopen
      BY DEF SleepersMustWait
    <3>1. \A p \in Proc : pc[p] \notin Inside
      BY Kinds DEF Ind, LockHolder
    <3> QED BY <3>1, Kinds DEF Ind, Sleepers, Inside
  <2>2. NoUseAfterFree
    <3> SUFFICES ASSUME freed PROVE lock = NoProc /\ \A p \in Proc : pc[p] = "out"
      BY DEF NoUseAfterFree
    <3>1. \A p \in Proc : pc[p] = "out"
      BY DEF Ind, Ends, Proc
    <3> QED BY <3>1 DEF Ind, LockHolder, Inside, TypeOK
  <2> QED BY <2>1, <2>2 DEF PipeInv, Ind
<1> QED BY <1>1, InitInd, NextInd, PTL DEF Spec

-----------------------------------------------------------------------------
(* The refinement of ByteChannel. *)

(* The bytes in the ring, oldest first. *)
Ring == [j \in 1 .. Used |-> data[(nread + j - 1) % PIPESIZE]]

Queue == IF freed THEN << >> ELSE Ring

LEMMA SameInterval ==
    ASSUME NEW a \in Nat, NEW b \in Nat, 1 .. a = 1 .. b PROVE a = b
<1>1. a = 0 \/ a \in 1 .. b
  OBVIOUS
<1>2. b = 0 \/ b \in 1 .. a
  OBVIOUS
<1> QED BY <1>1, <1>2

RingIsSeq == Ring \in Seq(Byte) /\ Len(Ring) = Used

LEMMA RingTyped == TypeOK => RingIsSeq
<1> SUFFICES ASSUME TypeOK PROVE RingIsSeq
  OBVIOUS
<1>1. Used \in Nat /\ nread \in Nat /\ PIPESIZE \in Nat \ {0}
  BY UsedFacts, PipeAssumption DEF TypeOK
<1>2. ASSUME NEW j \in 1 .. Used PROVE data[(nread + j - 1) % PIPESIZE] \in Byte
  <2>1. nread + j - 1 \in Nat
    BY <1>1
  <2>2. (nread + j - 1) % PIPESIZE \in 0 .. PIPESIZE - 1
    BY ONLY <1>1, <2>1, ModRange
  <2> QED BY <2>2 DEF TypeOK
<1>3. Ring \in [1 .. Used -> Byte]
  BY <1>2 DEF Ring
<1>4. Ring \in Seq(Byte)
  BY ONLY <1>1, <1>3, SMTT(30)
<1>5. Len(Ring) = Used
  <2>1. Len(Ring) \in Nat /\ DOMAIN Ring = 1 .. Len(Ring)
    BY <1>4, LenProperties
  <2>2. DOMAIN Ring = 1 .. Used
    BY DEF Ring
  <2> QED BY ONLY <1>1, <2>1, <2>2, SameInterval, ZenonT(60)
<1> QED BY <1>4, <1>5 DEF RingIsSeq

LEMMA RingTypedNext == (TypeOK => RingIsSeq)'
  BY RingTyped, PTL

LEMMA SameRing ==
    ASSUME UNCHANGED <<data, nread, nwrite, freed>> PROVE Queue' = Queue
  BY DEF Queue, Ring, Used

(* pipewrite stores a byte behind all the others. *)
LEMMA WriteBytePuts ==
    ASSUME NEW p \in Proc, NEW b \in Byte, Ind, WriteByte(p, b)
    PROVE  Channel!Put(b)
<1>1. /\ pc[p] = "wloop" /\ ~Full
      /\ data' = [data EXCEPT ![nwrite % PIPESIZE] = b]
      /\ nwrite' = (nwrite + 1) % UintMod
      /\ UNCHANGED <<nread, freed, last>>
  BY DEF WriteByte
<1>2. Used < PIPESIZE /\ Used \in Nat
  BY <1>1, UsedFacts, PipeAssumption DEF Ind, Fill
<1>3. Used' = Used + 1
  BY <1>1, <1>2, StoreCounts DEF Ind
<1>4. ~freed
  <2>1. p \in Writer
    BY <1>1, Kinds DEF Ind, Roles
  <2> QED BY <1>1, <2>1 DEF Ind, Ends
<1>5. RingIsSeq /\ RingIsSeq'
  BY WriteByteInd, RingTyped, RingTypedNext DEF Ind
<1>6. nread \in Nat /\ nwrite \in Nat /\ PIPESIZE \in Nat \ {0}
  BY PipeAssumption DEF Ind, TypeOK
<1>7. (nread + Used) % PIPESIZE = nwrite % PIPESIZE
  <2>1. nread + Used = nwrite \/ nread + Used = nwrite + UintMod
    BY <1>6, UsedFacts, PipeAssumption DEF Ind
  <2> QED BY <2>1, <1>6, RingShift
<1>8. ASSUME NEW j \in 1 .. Used
      PROVE  (nread + j - 1) % PIPESIZE # nwrite % PIPESIZE
  <2> DEFINE x == nread + j - 1
             d == Used - j + 1
  <2>1. x \in Nat /\ d \in 1 .. PIPESIZE - 1 /\ x + d = nread + Used
    BY <1>2, <1>6
  <2> HIDE DEF d
  <2>2. (x + d) % PIPESIZE # x % PIPESIZE
    <3> HIDE DEF x
    <3> QED BY ONLY <1>6, <2>1, ModApart
  <2> QED BY <1>7, <2>1, <2>2
<1>9. \A j \in 1 .. Used : Ring'[j] = Ring[j]
  <2> SUFFICES ASSUME NEW j \in 1 .. Used PROVE Ring'[j] = Ring[j]
    OBVIOUS
  <2>1. /\ Ring[j] = data[(nread + j - 1) % PIPESIZE]
        /\ Ring'[j] = data'[(nread + j - 1) % PIPESIZE]
    BY <1>1, <1>2, <1>3 DEF Ring
  <2>2. (nread + j - 1) % PIPESIZE \in 0 .. PIPESIZE - 1
    <3>1. nread + j - 1 \in Nat
      BY <1>6
    <3> QED BY ONLY <1>6, <3>1, ModRange
  <2> QED BY <1>1, <1>8, <2>1, <2>2 DEF Ind, TypeOK
<1>10. Ring'[Used + 1] = b
  <2>1. Ring'[Used + 1] = data'[(nread + Used) % PIPESIZE]
    <3>1. Used + 1 \in 1 .. Used' /\ nread + (Used + 1) - 1 = nread + Used
      BY <1>2, <1>3, <1>6
    <3> QED BY <1>1, <3>1 DEF Ring
  <2>2. nwrite % PIPESIZE \in 0 .. PIPESIZE - 1
    BY Slot DEF Ind
  <2> QED BY <1>1, <1>7, <2>1, <2>2 DEF Ind, TypeOK
<1>11. Ring' = Append(Ring, b)
  <2>1. /\ Append(Ring, b) \in Seq(Byte) /\ Len(Append(Ring, b)) = Used + 1
        /\ \A j \in 1 .. Used : Append(Ring, b)[j] = Ring[j]
        /\ Append(Ring, b)[Used + 1] = b
    BY <1>2, <1>5 DEF RingIsSeq
  <2>2. Ring' \in Seq(Byte) /\ Len(Ring') = Used + 1
    BY <1>3, <1>5 DEF RingIsSeq
  <2>3. \A j \in 1 .. Used + 1 : Ring'[j] = Append(Ring, b)[j]
    BY <1>2, <1>9, <1>10, <2>1
  <2> QED BY <2>1, <2>2, <2>3, SeqEqual
<1>12. Len(Ring) < PIPESIZE
  BY <1>2, <1>5 DEF RingIsSeq
<1> QED BY <1>1, <1>4, <1>11, <1>12 DEF Channel!Put, Ring

(* piperead takes the oldest byte. *)
LEMMA ReadByteGets ==
    ASSUME NEW p \in Proc, Ind, ReadByte(p) PROVE Channel!Get
<1>1. /\ pc[p] = "rcopy" /\ ~Empty
      /\ last' = data[nread % PIPESIZE]
      /\ nread' = (nread + 1) % UintMod
      /\ UNCHANGED <<data, nwrite, freed>>
  BY DEF ReadByte
<1>2. Used # 0 /\ Used \in Nat
  BY <1>1, UsedFacts, PipeAssumption DEF Ind
<1>3. Used' = Used - 1
  BY <1>1, <1>2, FetchCounts DEF Ind
<1>4. ~freed
  <2>1. p \in Reader
    BY <1>1, Kinds DEF Ind, Roles
  <2> QED BY <1>1, <2>1 DEF Ind, Ends
<1>5. RingIsSeq /\ RingIsSeq'
  BY ReadByteInd, RingTyped, RingTypedNext DEF Ind
<1>6. nread \in 0 .. UintMod - 1 /\ PIPESIZE \in Nat \ {0} /\ UintMod \in Nat
  BY PipeAssumption DEF Ind, TypeOK
<1>7. Ring # << >> /\ Head(Ring) = last'
  <2>1. Len(Ring) = Used /\ Ring \in Seq(Byte)
    BY <1>5 DEF RingIsSeq
  <2>2. Ring[1] = data[nread % PIPESIZE]
    <3>1. 1 \in 1 .. Used /\ nread + 1 - 1 = nread
      BY <1>2, <1>6
    <3> QED BY <3>1 DEF Ring
  <2>3. Ring # << >>
    BY <1>2, <2>1
  <2> QED BY <1>1, <2>1, <2>2, <2>3
<1>8. ASSUME NEW j \in 1 .. Used' PROVE Ring'[j] = Ring[j + 1]
  <2>1. /\ Ring'[j] = data[(nread' + j - 1) % PIPESIZE]
        /\ Ring[j + 1] = data[(nread + (j + 1) - 1) % PIPESIZE]
    BY <1>1, <1>2, <1>3 DEF Ring
  <2>2. (nread' + j - 1) % PIPESIZE = (nread + (j + 1) - 1) % PIPESIZE
    <3>1. nread' = IF nread = UintMod - 1 THEN 0 ELSE nread + 1
      BY <1>1, <1>6, Incremented
    <3>2. CASE nread # UintMod - 1
      <4>1. nread' + j - 1 = nread + (j + 1) - 1
        BY <1>6, <3>1, <3>2
      <4> QED BY <4>1
    <3>3. CASE nread = UintMod - 1
      <4>1. j - 1 \in Nat /\ nread' + j - 1 = j - 1
            /\ nread + (j + 1) - 1 = (j - 1) + UintMod
        BY <1>6, <3>1, <3>3
      <4> QED BY <4>1, RingShift
    <3> QED BY <3>2, <3>3
  <2> QED BY <2>1, <2>2
<1>9. Ring' = Tail(Ring)
  <2>1. /\ Tail(Ring) \in Seq(Byte) /\ Len(Tail(Ring)) = Used - 1
        /\ \A j \in 1 .. Len(Tail(Ring)) : Tail(Ring)[j] = Ring[j + 1]
    BY <1>5, <1>7, HeadTailProperties DEF RingIsSeq
  <2>2. Ring' \in Seq(Byte) /\ Len(Ring') = Used - 1
    BY <1>3, <1>5 DEF RingIsSeq
  <2>3. \A j \in 1 .. Len(Ring') : Ring'[j] = Tail(Ring)[j]
    BY <1>3, <1>8, <2>1, <2>2
  <2> QED BY <2>1, <2>2, <2>3, SeqEqual
<1> QED BY <1>1, <1>4, <1>7, <1>9 DEF Channel!Get, Ring

LEMMA NextRefines == Ind /\ [Next]_vars => [Channel!CNext]_(Channel!cvars)
<1> SUFFICES ASSUME Ind, [Next]_vars PROVE [Channel!CNext]_(Channel!cvars)
  OBVIOUS
<1>1. ASSUME UNCHANGED <<data, nread, nwrite, freed, last>>
      PROVE  UNCHANGED Channel!cvars
  BY <1>1, SameRing DEF Channel!cvars, Queue, Ring
<1>2. ASSUME NEW p \in Proc, NEW b \in Byte, WriteByte(p, b) PROVE Channel!CNext
  BY <1>2, WriteBytePuts DEF Channel!CNext
<1>3. ASSUME NEW p \in Proc, ReadByte(p) PROVE Channel!CNext
  BY <1>3, ReadByteGets DEF Channel!CNext
<1>4. CASE CloseWrite \/ CloseRead
  <2>1. /\ freed' \in BOOLEAN /\ UNCHANGED <<data, nread, nwrite, last>>
    BY <1>4 DEF CloseWrite, CloseRead, Ind, TypeOK
  <2>2. CASE freed'
    <3>1. ~freed
      BY <1>4 DEF CloseWrite, CloseRead, Ind, Ends
    <3>2. Channel!Discard
      BY <2>1, <2>2, <3>1 DEF Channel!Discard
    <3> QED BY <3>2 DEF Channel!CNext
  <2>3. CASE ~freed'
    <3>1. ~freed
      BY <1>4 DEF CloseWrite, CloseRead, Ind, Ends
    <3>2. freed' = freed
      BY <2>1, <2>3, <3>1 DEF Ind, TypeOK
    <3> QED BY <1>1, <2>1, <3>2
  <2> QED BY <2>2, <2>3
<1>5. CASE Pipealloc
  <2>1. freed /\ freed' = FALSE /\ nread' = 0 /\ nwrite' = 0 /\ last' = last
    BY <1>5 DEF Pipealloc
  <2>2. Ring' = << >>
    <3>1. Ring' \in Seq(Byte) /\ Len(Ring') = Used'
      BY <1>5, PipeallocInd, RingTypedNext DEF RingIsSeq, Ind
    <3>2. Used' = 0
      BY <2>1, PipeAssumption, ApartIs DEF Used, Apart
    <3> QED BY <3>1, <3>2, EmptySeq
  <2>3. Channel!Reopen
    BY <2>1, <2>2 DEF Channel!Reopen, Ring
  <2> QED BY <2>3 DEF Channel!CNext
<1>6. ASSUME NEW p \in Proc, Step(p) PROVE [Channel!CNext]_(Channel!cvars)
  BY <1>1, <1>2, <1>3, <1>6
     DEF Step, Acquire, WriteFull, WriteDone, Sleep, ReadTest, ReadDone, pipe
<1>7. ASSUME NEW p \in Proc,
             Kill(p) \/ Exit(p) \/ \E k \in 1 .. MaxN : Call(p, k)
      PROVE  UNCHANGED Channel!cvars
  BY <1>1, <1>7 DEF Kill, Exit, Call, pipe
<1>8. CASE UNCHANGED vars
  BY <1>1, <1>8 DEF vars
<1> QED BY <1>4, <1>5, <1>6, <1>7, <1>8 DEF Next

(* The pipe is a first-in first-out channel of PIPESIZE bytes: whatever the
   readers, the writers and the kills, and also when nread and nwrite wrap
   around, each byte written is read once, in order, or lost at the last
   close. *)
THEOREM PipeIsChannel == Spec => FirstInFirstOut
<1>1. Init => Channel!CInit
  <2> SUFFICES ASSUME Init PROVE Channel!CInit
    OBVIOUS
  <2>1. TypeOK /\ ~freed /\ nread = 0 /\ nwrite = 0 /\ last \in Byte
    BY InitInd DEF Init, Ind
  <2>2. Used = 0
    BY <2>1, UsedFacts
  <2>3. Ring = << >>
    BY <2>1, <2>2, RingTyped, EmptySeq DEF RingIsSeq
  <2> QED BY <2>1, <2>3 DEF Channel!CInit, Ring
<1> QED BY <1>1, InitInd, NextInd, NextRefines, PTL
        DEF Spec, FirstInFirstOut, Channel!CSpec

-----------------------------------------------------------------------------
(***************************************************************************)
(* Sleep locks                                                             *)
(***************************************************************************)

SpinPCs == {"test", "sleep_ptable", "sleep_release", "unlock_acquiresleep",
            "clear", "wakeup", "unlock_releasesleep"}

(* The spin locks are held exactly where the code says, lk->pid and lk->locked
   name the holder, and the test of lk->locked stays true until ptable.lock is
   held. *)
LockInd ==
    /\ S!TypeOK
    /\ \A p \in Caller : slpc[p] \in SpinPCs <=> spin = p
    /\ \A p \in Caller : slpc[p] \in {"sleep_release", "sleep_sched"} <=> ptable = p
    /\ \A p \in Caller : p \in S!Holders <=> holder = p
    /\ locked <=> holder # NoProc
    /\ \A p \in Caller : state[p] = "SLEEPING" => slpc[p] = "asleep"
    /\ \A p \in Caller : slpc[p] \in {"sleep_ptable", "sleep_release"} => locked
    /\ S!NoLostWakeup

LEMMA LockInitInd == S!Init => LockInd
BY SleepLockConstants DEF S!SleepLockAssumption, S!Init, LockInd, S!TypeOK, S!PCs, SpinPCs, S!Holders, S!NoLostWakeup

LEMMA LockStepInd == ASSUME LockInd, NEW p \in Caller, S!Step(p) \/ S!Kill(p) PROVE LockInd'
<1> USE SleepLockConstants
<1> USE DEF S!SleepLockAssumption, LockInd, S!TypeOK, S!PCs, SpinPCs, S!Holders, S!NoLostWakeup, S!Goto
<1>1. CASE S!AcquireSpin(p)
  BY <1>1 DEF S!AcquireSpin
<1>2. CASE S!Test(p)
  <2>1. CASE locked
    BY <1>2, <2>1 DEF S!Test
  <2>2. CASE ~locked
    <3>1. /\ slpc[p] = "test" /\ slpc' = [slpc EXCEPT ![p] = "unlock_acquiresleep"]
          /\ locked' = TRUE /\ holder' = p /\ UNCHANGED <<spin, ptable, state>>
      BY <1>2, <2>2 DEF S!Test
    <3>2. S!TypeOK' /\ locked' /\ holder' # NoProc
      BY <3>1
    <3>3. /\ \A q \in Caller : (slpc[q] \in SpinPCs <=> spin = q)'
          /\ \A q \in Caller : (slpc[q] \in {"sleep_release", "sleep_sched"} <=> ptable = q)'
      BY <3>1
    <3>4. \A q \in Caller : q \in S!Holders' <=> holder' = q
      BY <3>1, <2>2
    <3>5. \A q \in Caller : (state[q] = "SLEEPING" => slpc[q] = "asleep")'
      BY <3>1
    <3>6. S!NoLostWakeup'
      BY <3>2
    <3> QED BY <3>2, <3>3, <3>4, <3>5, <3>6
  <2> QED BY <2>1, <2>2
<1>3. CASE S!UnlockAcquiresleep(p)
  BY <1>3 DEF S!UnlockAcquiresleep
<1>4. CASE S!SleepPtable(p)
  BY <1>4 DEF S!SleepPtable
<1>5. CASE S!SleepRelease(p)
  BY <1>5 DEF S!SleepRelease
<1>6. CASE S!SleepSched(p)
  BY <1>6 DEF S!SleepSched
<1>7. CASE S!Resume(p)
  BY <1>7 DEF S!Resume
<1>8. CASE S!Releasesleep(p)
  BY <1>8 DEF S!Releasesleep
<1>9. CASE S!Clear(p)
  BY <1>9, ZenonT(60) DEF S!Clear
<1>10. CASE S!Wakeup(p)
  BY <1>10 DEF S!Wakeup
<1>11. CASE S!UnlockReleasesleep(p)
  BY <1>11 DEF S!UnlockReleasesleep
<1>12. CASE S!Kill(p)
  BY <1>12 DEF S!Kill
<1> QED BY <1>1, <1>2, <1>3, <1>4, <1>5, <1>6, <1>7, <1>8, <1>9, <1>10, <1>11,
           <1>12 DEF S!Step

LEMMA LockNextInd == LockInd /\ [S!Next]_(S!vars) => LockInd'
<1> SUFFICES ASSUME LockInd, [S!Next]_(S!vars) PROVE LockInd'
  OBVIOUS
<1>1. CASE S!Next
  BY <1>1, LockStepInd DEF S!Next
<1>2. CASE UNCHANGED S!vars
  BY <1>2 DEF S!vars, LockInd, S!TypeOK, S!Holders, S!NoLostWakeup
<1> QED BY <1>1, <1>2

LEMMA LockSteps ==
    /\ MCInit => S!Init
    /\ [MCNext]_all => [S!Next]_(S!vars)
BY DEF MCInit, MCNext, OnPipe, OnSleepLock, OnLog, OnProc, all, sleepvars, S!vars

LEMMA LockAlways == MCSpec => []LockInd
<1>1. MCInit => LockInd
  BY LockSteps, LockInitInd
<1>2. LockInd /\ [MCNext]_all => LockInd'
  BY LockSteps, LockNextInd
<1> QED BY <1>1, <1>2, PTL DEF MCSpec

(* acquiresleep gives the lock to one process at a time, and lk->pid names it. *)
THEOREM SleepLockExclusive == MCSpec => []ExclusiveHolder
<1>1. LockInd => ExclusiveHolder
  BY SleepLockConstants
     DEF LockInd, ExclusiveHolder, S!ExclusiveHolder, S!Holders, S!SleepLockAssumption
<1> QED BY <1>1, LockAlways, PTL

(* The order of locks in sleep() and wakeup() leaves no window in which the
   wakeup of a releasesleep can be missed. *)
THEOREM WakeupNeverLost == MCSpec => []NoLostWakeup
<1>1. LockInd => NoLostWakeup
  BY DEF LockInd, NoLostWakeup
<1> QED BY <1>1, LockAlways, PTL
=============================================================================
