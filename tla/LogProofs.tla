------------------------------ MODULE LogProofs ------------------------------
(***************************************************************************)
(* Proofs about Log, for every set of processes and blocks and every       *)
(* LOGSIZE, MAXOPBLOCKS, log geometry and number of blocks per call.       *)
(***************************************************************************)
EXTENDS Log, FiniteSetTheorems, TLAPS

CommitPhases == {"write_log", "write_head", "install_trans", "clear", "end_commit"}

(* Who may be where: outside the "run" phase no call is active, and the log
   is committing exactly during commit(), the phases of recovery excepted. *)
Control ==
    /\ outstanding = Cardinality(InOp)
    /\ phase # "run" => InOp = {}
    /\ committing => phase \in CommitPhases
    /\ phase = "read_head" => ~committing
    /\ \A p \in Proc : pc[p] \in {"log_write", "bwrite"}
                            => blk[p] \in Block /\ blk[p] \in wrote[p]
    /\ \A p \in Proc : /\ IsFiniteSet(wrote[p])
                       /\ Cardinality(wrote[p]) <= OpBlocks

(* The loops of write_log and install_trans stay inside the log. *)
Loops ==
    /\ phase \in {"write_log", "write_head", "install_trans"}
          => tail \in 1 .. Len(lh)
    /\ phase = "read_head" => tail = 1
    /\ phase = "write_head" => tail = 1
    /\ Len(hdr) <= LOGSIZE

Ind == TypeOK /\ Control /\ Loops /\ Reservation

-----------------------------------------------------------------------------

(* At most MAXOPBLOCKS slots belong to each of the processes in S. *)
LEMMA Slots ==
    ASSUME NEW S \in SUBSET Proc, NEW R \in SUBSET (S \X (1 .. MAXOPBLOCKS))
    PROVE  /\ IsFiniteSet(S) /\ Cardinality(S) \in Nat
           /\ IsFiniteSet(R) /\ Cardinality(R) \in Nat
           /\ Cardinality(R) <= Cardinality(S) * MAXOPBLOCKS
<1>1. IsFiniteSet(S)
  BY FS_Subset, LogAssumption
<1>2. IsFiniteSet(1 .. MAXOPBLOCKS) /\ Cardinality(1 .. MAXOPBLOCKS) = MAXOPBLOCKS
  BY FS_Interval, LogAssumption
<1>3. /\ IsFiniteSet(S \X (1 .. MAXOPBLOCKS))
      /\ Cardinality(S \X (1 .. MAXOPBLOCKS)) = Cardinality(S) * MAXOPBLOCKS
  BY <1>1, <1>2, FS_Product
<1>4. /\ IsFiniteSet(R)
      /\ Cardinality(R) <= Cardinality(S \X (1 .. MAXOPBLOCKS))
  BY <1>3, FS_Subset
<1>5. Cardinality(S) \in Nat /\ Cardinality(R) \in Nat
  BY <1>1, <1>4, FS_CardinalityType
<1> QED BY <1>1, <1>3, <1>4, <1>5

(* InOp and the reserved slots are finite, so their cardinalities add up. *)
LEMMA FiniteReserved ==
    /\ IsFiniteSet(InOp)
    /\ IsFiniteSet(Reserved)
    /\ Cardinality(InOp) \in Nat
    /\ Cardinality(Reserved) \in Nat
<1>1. InOp \in SUBSET Proc
  BY DEF InOp
<1>2. Reserved \in SUBSET (InOp \X (1 .. MAXOPBLOCKS))
  BY DEF Reserved
<1> QED BY <1>1, <1>2, Slots

(* A step that gives no call a new slot keeps within the reservation. *)
LEMMA NoNewSlot ==
    ASSUME Reserved' \in SUBSET Reserved
    PROVE  /\ Cardinality(Reserved') \in Nat
           /\ Cardinality(Reserved') <= Cardinality(Reserved)
<1>1. IsFiniteSet(Reserved)
  BY FiniteReserved
<1>2. IsFiniteSet(Reserved') /\ Cardinality(Reserved') <= Cardinality(Reserved)
  BY <1>1, FS_Subset
<1> QED BY <1>2, FS_CardinalityType

(* The initial state of the machine at boot. *)
LEMMA InitInd == Init => Ind
<1> SUFFICES ASSUME Init PROVE Ind
  OBVIOUS
<1> USE DEF Init
<1>1. TypeOK
  <2>1. logblk \in [1 .. LOGSIZE -> Val]
    OBVIOUS
  <2>2. /\ home \in [Block -> Val] /\ cache \in [Block -> Val]
        /\ hdr \in Seq(Block) /\ lh \in Seq(Block)
    OBVIOUS
  <2>3. /\ dirty \in SUBSET Block /\ outstanding \in Nat /\ tail \in Nat
        /\ phase \in Phases
    BY DEF Phases
  <2>4. /\ pc \in [Proc -> PCs]
        /\ blk \in [Proc -> Block \cup {NoBlock}]
        /\ wrote \in [Proc -> SUBSET Block]
    BY DEF PCs
  <2>5. committing \in BOOLEAN /\ panicked \in BOOLEAN
    OBVIOUS
  <2> QED BY <2>1, <2>2, <2>3, <2>4, <2>5 DEF TypeOK
<1>2. InOp = {} /\ Reserved = {}
  BY DEF InOp, Reserved
<1>3. Cardinality({}) = 0 /\ IsFiniteSet({})
  BY FS_EmptySet
<1>4. Control
  BY <1>2, <1>3, LogAssumption DEF Control, CommitPhases
<1>5. Loops
  BY LogAssumption DEF Loops
<1>6. Reservation
  BY <1>2, <1>3, LogAssumption DEF Reservation
<1> QED BY <1>1, <1>4, <1>5, <1>6 DEF Ind

(* Facts of every state that satisfies the invariant. *)
LEMMA IndFacts ==
    ASSUME Ind
    PROVE  /\ Len(lh) \in Nat /\ Len(hdr) \in Nat
           /\ Len(lh) <= LOGSIZE
           /\ committing => InOp = {}
           /\ \A p \in Proc : pc[p] \in {"fs", "log_write", "bwrite"} =>
                 /\ p \in InOp
                 /\ phase = "run" /\ ~committing /\ outstanding >= 1
<1>1. Len(lh) \in Nat /\ Len(hdr) \in Nat
  BY DEF Ind, TypeOK
<1>2. Len(lh) <= LOGSIZE
  BY <1>1, FiniteReserved, LogAssumption DEF Ind, Reservation
<1>3. committing => InOp = {}
  BY DEF Ind, Control, CommitPhases
<1>4. ASSUME NEW p \in Proc, pc[p] \in {"fs", "log_write", "bwrite"}
      PROVE  /\ p \in InOp
             /\ phase = "run" /\ ~committing /\ outstanding >= 1
  <2>1. p \in InOp
    BY <1>4 DEF InOp
  <2>2. phase = "run" /\ ~committing
    BY <2>1, <1>3 DEF Ind, Control
  <2>3. Cardinality(InOp) # 0
    BY <2>1, FiniteReserved, FS_EmptySet
  <2> QED BY <2>1, <2>2, <2>3, FiniteReserved DEF Ind, Control
<1> QED BY <1>1, <1>2, <1>3, <1>4

(* A step that changes neither the calls nor the in-memory log keeps every
   reserved slot. *)
LEMMA SameCalls ==
    ASSUME Ind, UNCHANGED <<pc, wrote, lh>>
    PROVE  InOp' = InOp /\ Reserved' = Reserved /\ Reservation'
<1>1. InOp' = InOp
  BY DEF InOp
<1>2. Reserved' = Reserved
  BY <1>1 DEF Reserved
<1> QED BY <1>1, <1>2 DEF Ind, Reservation

(* When no call is active, nothing is reserved. *)
LEMMA NoCalls ==
    ASSUME InOp' = {}, Len(lh') \in Nat, Len(lh') <= LOGSIZE
    PROVE  Reservation'
<1>1. Reserved' = {}
  BY DEF Reserved
<1> QED BY <1>1, FS_EmptySet DEF Reservation

LEMMA BeginOpInd == ASSUME NEW p \in Proc, Ind, BeginOp(p) PROVE Ind'
<1> USE LogAssumption
<1>0. Len(lh) \in Nat /\ Len(lh) <= LOGSIZE /\ outstanding \in Nat
  BY IndFacts DEF Ind, TypeOK
<1>1. CASE committing \/ MightOverflow
  <2>1. UNCHANGED <<home, logblk, hdr, cache, dirty, lh, outstanding, committing,
                    blk, wrote, phase, tail, panicked>>
        /\ pc' = [pc EXCEPT ![p] = "sleeping"]
    BY <1>1 DEF BeginOp, disk, buffers, log
  <2>2. TypeOK'
    BY <2>1 DEF Ind, TypeOK, PCs
  <2>3. InOp' = InOp
    BY <2>1 DEF InOp, BeginOp, Ind, TypeOK
  <2>4. Reserved' = Reserved
    BY <2>1, <2>3 DEF Reserved
  <2>5. Control'
    BY <2>1, <2>3 DEF Ind, TypeOK, Control
  <2>6. Loops'
    BY <2>1 DEF Ind, Loops
  <2>7. Reservation'
    BY <2>1, <2>4 DEF Ind, Reservation
  <2> QED BY <2>2, <2>5, <2>6, <2>7 DEF Ind
<1>2. CASE ~committing /\ ~MightOverflow
  <2>1. /\ UNCHANGED <<home, logblk, hdr, cache, dirty, lh, committing,
                       blk, phase, tail, panicked>>
        /\ outstanding' = outstanding + 1
        /\ pc' = [pc EXCEPT ![p] = "fs"]
        /\ wrote' = [wrote EXCEPT ![p] = {}]
        /\ phase = "run"
        /\ pc[p] \in {"user", "woken"}
    BY <1>2 DEF BeginOp, disk, buffers, log, Booted
  <2>2. TypeOK'
    BY <2>1 DEF Ind, TypeOK, PCs
  <2>3. p \notin InOp /\ InOp' = InOp \cup {p}
    BY <2>1 DEF InOp, Ind, TypeOK
  <2>4. Cardinality(InOp') = Cardinality(InOp) + 1
    BY <2>3, FiniteReserved, FS_AddElement
  <2>5. Control'
    <3>1. outstanding' = Cardinality(InOp')
      BY <2>1, <2>4 DEF Ind, Control
    <3>2. \A q \in Proc : pc'[q] \in {"log_write", "bwrite"}
                            => blk'[q] \in Block /\ blk'[q] \in wrote'[q]
      BY <2>1 DEF Ind, Control, TypeOK
    <3>3. \A q \in Proc : IsFiniteSet(wrote'[q]) /\ Cardinality(wrote'[q]) <= OpBlocks
      BY <2>1, FS_EmptySet DEF Ind, Control, TypeOK
    <3> QED BY <2>1, <1>2, <3>1, <3>2, <3>3 DEF Control
  <2>6. Loops'
    BY <2>1 DEF Ind, Loops
  <2>7. Reservation'
    <3>0. InOp' \in SUBSET Proc /\ Reserved' \in SUBSET (InOp' \X (1 .. MAXOPBLOCKS))
      BY DEF InOp, Reserved
    <3>1. Cardinality(Reserved') \in Nat
          /\ Cardinality(Reserved') <= Cardinality(InOp') * MAXOPBLOCKS
      BY <3>0, Slots
    <3>2. Cardinality(InOp') = outstanding + 1
      BY <2>4 DEF Ind, Control
    <3>3. Len(lh) + (outstanding + 1) * MAXOPBLOCKS <= LOGSIZE
      <4>1. (outstanding + 1) * MAXOPBLOCKS \in Nat
        BY <1>0
      <4> QED BY <1>2, <1>0, <4>1 DEF MightOverflow
    <3>4. Cardinality(Reserved') <= (outstanding + 1) * MAXOPBLOCKS
      BY <3>1, <3>2
    <3>5. (outstanding + 1) * MAXOPBLOCKS \in Nat
      BY <1>0
    <3> QED BY <3>1, <3>3, <3>4, <3>5, <1>0, <2>1 DEF Reservation
  <2> QED BY <2>2, <2>5, <2>6, <2>7 DEF Ind
<1> QED BY <1>1, <1>2

LEMMA KillInd == ASSUME NEW p \in Proc, Ind, Kill(p) PROVE Ind'
<1>1. UNCHANGED <<home, logblk, hdr, cache, dirty, lh, outstanding, committing,
                  blk, wrote, phase, tail, panicked>>
      /\ pc[p] = "sleeping" /\ pc' = [pc EXCEPT ![p] = "woken"]
  BY DEF Kill, disk, buffers, log
<1>2. TypeOK'
  BY <1>1 DEF Ind, TypeOK, PCs
<1>3. InOp' = InOp
  BY <1>1 DEF InOp, Ind, TypeOK
<1>4. Reserved' = Reserved
  BY <1>1, <1>3 DEF Reserved
<1>5. Control'
  BY <1>1, <1>3 DEF Ind, TypeOK, Control
<1>6. Loops'
  BY <1>1 DEF Ind, Loops
<1>7. Reservation'
  BY <1>1, <1>4 DEF Ind, Reservation
<1> QED BY <1>2, <1>5, <1>6, <1>7 DEF Ind

(* The blocks of a call that are in the log: at most all it has written. *)
LEMMA LoggedBound ==
    ASSUME NEW W, IsFiniteSet(W), NEW L
    PROVE  /\ IsFiniteSet(W \cap L) /\ Cardinality(W \cap L) \in Nat
           /\ Cardinality(W) \in Nat /\ Cardinality(W \cap L) <= Cardinality(W)
<1>1. W \cap L \in SUBSET W
  OBVIOUS
<1>2. IsFiniteSet(W \cap L) /\ Cardinality(W \cap L) <= Cardinality(W)
  BY <1>1, FS_Subset
<1> QED BY <1>2, FS_CardinalityType

(* A slot is given up, never gained, when a call has more of its blocks in
   the log than before. *)
LEMMA MoreLogged ==
    ASSUME NEW W, NEW V, NEW L, NEW M, IsFiniteSet(V), W \cap L \in SUBSET (V \cap M)
    PROVE  /\ Cardinality(W \cap L) \in Nat /\ Cardinality(V \cap M) \in Nat
           /\ Cardinality(W \cap L) <= Cardinality(V \cap M)
<1>1. IsFiniteSet(V \cap M) /\ Cardinality(V \cap M) \in Nat
  BY LoggedBound
<1>2. IsFiniteSet(W \cap L) /\ Cardinality(W \cap L) <= Cardinality(V \cap M)
  BY <1>1, FS_Subset
<1> QED BY <1>1, <1>2, FS_CardinalityType

LEMMA ModifyBlockInd ==
    ASSUME NEW p \in Proc, NEW b \in Block, NEW v \in Val, Ind, ModifyBlock(p, b, v)
    PROVE  Ind'
<1> USE LogAssumption
<1>1. /\ pc[p] = "fs"
      /\ b \in wrote[p] \/ Cardinality(wrote[p]) < OpBlocks
      /\ cache' = [cache EXCEPT ![b] = v]
      /\ blk' = [blk EXCEPT ![p] = b]
      /\ wrote' = [wrote EXCEPT ![p] = wrote[p] \cup {b}]
      /\ \/ pc' = pc /\ panicked' = TRUE
         \/ pc' = [pc EXCEPT ![p] = "log_write"] /\ panicked' = panicked
      /\ UNCHANGED <<home, logblk, hdr, dirty, lh, outstanding, committing,
                     phase, tail>>
  BY DEF ModifyBlock, disk, log
<1>2. TypeOK'
  <2>1. panicked' \in BOOLEAN
    BY <1>1 DEF Ind, TypeOK
  <2>2. pc' \in [Proc -> PCs]
    BY <1>1 DEF Ind, TypeOK, PCs
  <2>3. /\ cache' \in [Block -> Val]
        /\ blk' \in [Proc -> Block \cup {NoBlock}]
        /\ wrote' \in [Proc -> SUBSET Block]
    BY <1>1 DEF Ind, TypeOK
  <2> QED BY <1>1, <2>1, <2>2, <2>3 DEF Ind, TypeOK
<1>3. InOp' = InOp
  BY <1>1 DEF InOp, Ind, TypeOK
<1>4. \A q \in Proc : IsFiniteSet(wrote[q]) /\ Cardinality(wrote[q]) <= OpBlocks
  BY DEF Ind, Control
<1>5. IsFiniteSet(wrote[p] \cup {b}) /\ Cardinality(wrote[p] \cup {b}) <= OpBlocks
  <2>1. CASE b \in wrote[p]
    <3>1. wrote[p] \cup {b} = wrote[p]
      BY <2>1
    <3> QED BY <3>1, <1>4
  <2>2. CASE b \notin wrote[p]
    <3>1. /\ IsFiniteSet(wrote[p] \cup {b})
          /\ Cardinality(wrote[p] \cup {b}) = Cardinality(wrote[p]) + 1
      BY <2>2, <1>4, FS_AddElement
    <3>2. Cardinality(wrote[p]) \in Nat
      BY <1>4, FS_CardinalityType
    <3> QED BY <2>2, <3>1, <3>2, <1>1
  <2> QED BY <2>1, <2>2
<1>6. \A q \in Proc : /\ IsFiniteSet(wrote'[q])
                      /\ Cardinality(wrote'[q]) <= OpBlocks
                      /\ wrote[q] \subseteq wrote'[q]
  BY <1>1, <1>4, <1>5 DEF Ind, TypeOK
<1>7. Control'
  <2>1. \A q \in Proc : pc'[q] \in {"log_write", "bwrite"}
                            => blk'[q] \in Block /\ blk'[q] \in wrote'[q]
    BY <1>1 DEF Ind, Control, TypeOK
  <2> QED BY <1>1, <1>3, <1>6, <2>1 DEF Ind, Control
<1>8. Loops'
  BY <1>1 DEF Ind, Loops
<1>9. Reservation'
  <2>1. ASSUME NEW q \in Proc
        PROVE  /\ Cardinality(wrote[q] \cap Range(lh)) \in Nat
               /\ Cardinality(wrote'[q] \cap Range(lh)) \in Nat
               /\ Cardinality(wrote[q] \cap Range(lh))
                    <= Cardinality(wrote'[q] \cap Range(lh))
    BY <1>6, MoreLogged
  <2>2. Reserved' \in SUBSET Reserved
    <3> SUFFICES ASSUME NEW x \in InOp \X (1 .. MAXOPBLOCKS),
                        x[2] > Cardinality(wrote'[x[1]] \cap Range(lh))
                 PROVE  x[2] > Cardinality(wrote[x[1]] \cap Range(lh))
      BY <1>1, <1>3 DEF Reserved
    <3>1. x[1] \in Proc /\ x[2] \in Nat
      BY DEF InOp
    <3> QED BY <3>1, <2>1
  <2> QED BY <2>2, NoNewSlot, FiniteReserved, IndFacts, <1>1 DEF Ind, Reservation
<1> QED BY <1>2, <1>7, <1>8, <1>9 DEF Ind

(* The append of log_write uses up one slot of the caller, at least. *)
LEMMA LogWriteInd == ASSUME NEW p \in Proc, Ind, LogWrite(p) PROVE Ind'
<1> USE LogAssumption
<1>1. /\ pc[p] = "log_write"
      /\ lh' = IF blk[p] \in Range(lh) THEN lh ELSE Append(lh, blk[p])
      /\ dirty' = dirty \cup {blk[p]}
      /\ \/ /\ pc' = [pc EXCEPT ![p] = "fs"]
            /\ blk' = [blk EXCEPT ![p] = NoBlock]
         \/ /\ pc' = [pc EXCEPT ![p] = "bwrite"]
            /\ blk' = blk
      /\ UNCHANGED <<home, logblk, hdr, cache, outstanding, committing, wrote,
                     phase, tail, panicked>>
  BY DEF LogWrite, disk
<1>2. blk[p] \in Block /\ blk[p] \in wrote[p]
  BY <1>1 DEF Ind, Control
<1>3. TypeOK'
  <2>1. lh' \in Seq(Block)
    BY <1>1, <1>2 DEF Ind, TypeOK
  <2>2. pc' \in [Proc -> PCs]
    BY <1>1 DEF Ind, TypeOK, PCs
  <2>3. blk' \in [Proc -> Block \cup {NoBlock}] /\ dirty' \in SUBSET Block
    BY <1>1, <1>2 DEF Ind, TypeOK
  <2> QED BY <1>1, <2>1, <2>2, <2>3 DEF Ind, TypeOK
<1>4. p \in InOp /\ phase = "run" /\ Len(lh) \in Nat
  BY <1>1, IndFacts
<1>5. InOp' = InOp
  BY <1>1 DEF InOp, Ind, TypeOK
<1>6. Control'
  <2>1. \A q \in Proc : pc'[q] \in {"log_write", "bwrite"}
                            => blk'[q] \in Block /\ blk'[q] \in wrote'[q]
    BY <1>1, <1>2 DEF Ind, Control, TypeOK
  <2> QED BY <1>1, <1>5, <2>1 DEF Ind, Control
<1>7. Loops'
  BY <1>1, <1>4 DEF Ind, Loops
<1>8. \A q \in Proc : IsFiniteSet(wrote[q]) /\ Cardinality(wrote[q]) <= OpBlocks
  BY DEF Ind, Control
<1>9. Reservation'
  <2>1. CASE blk[p] \in Range(lh)
    <3>1. lh' = lh
      BY <2>1, <1>1
    <3>2. Reserved' = Reserved
      BY <3>1, <1>1, <1>5 DEF Reserved
    <3> QED BY <3>1, <3>2 DEF Ind, Reservation
  <2>2. CASE blk[p] \notin Range(lh)
    <3>1. lh' = Append(lh, blk[p]) /\ Len(lh') = Len(lh) + 1
      BY <2>2, <1>1, <1>2 DEF Ind, TypeOK
    <3>2. Range(lh') = Range(lh) \cup {blk[p]}
      <4>1. DOMAIN lh = 1 .. Len(lh) /\ DOMAIN lh' = 1 .. Len(lh) + 1
        BY <3>1, <1>2, <1>4 DEF Ind, TypeOK
      <4>2. \A i \in 1 .. Len(lh) : lh'[i] = lh[i]
        BY <3>1, <1>2 DEF Ind, TypeOK
      <4>3. lh'[Len(lh) + 1] = blk[p]
        BY <3>1, <1>2 DEF Ind, TypeOK
      <4> QED BY <4>1, <4>2, <4>3, <1>4 DEF Range
    <3>3. ASSUME NEW q \in Proc
          PROVE  /\ Cardinality(wrote[q] \cap Range(lh)) \in Nat
                 /\ Cardinality(wrote[q] \cap Range(lh')) \in Nat
                 /\ Cardinality(wrote[q] \cap Range(lh))
                      <= Cardinality(wrote[q] \cap Range(lh'))
      <4>1. wrote[q] \cap Range(lh) \in SUBSET (wrote[q] \cap Range(lh'))
        BY <3>2
      <4> QED BY <4>1, <1>8, MoreLogged
    <3> DEFINE k == Cardinality(wrote[p] \cap Range(lh))
               slot == <<p, k + 1>>
    <3>4. Cardinality(wrote[p] \cap Range(lh')) = k + 1
      <4>1. wrote[p] \cap Range(lh') = (wrote[p] \cap Range(lh)) \cup {blk[p]}
        BY <3>2, <1>2
      <4>2. IsFiniteSet(wrote[p] \cap Range(lh))
        BY <1>8, LoggedBound
      <4> QED BY <4>1, <4>2, <2>2, FS_AddElement
    <3>5. k \in Nat /\ k + 1 <= MAXOPBLOCKS
      <4>1. k \in Nat /\ k + 1 <= Cardinality(wrote[p]) /\ Cardinality(wrote[p]) \in Nat
        BY <3>4, <3>3, <1>8, LoggedBound
      <4> QED BY <4>1, <1>8
    <3>6. slot \in Reserved /\ slot \notin Reserved'
      <4>1. slot \in InOp \X (1 .. MAXOPBLOCKS) /\ slot[1] = p /\ slot[2] = k + 1
        BY <1>4, <3>5
      <4>2. k + 1 > k /\ ~(k + 1 > k + 1)
        BY <3>5
      <4>3. slot \in Reserved
        BY <4>1, <4>2 DEF Reserved
      <4>4. slot \notin Reserved'
        BY <4>1, <4>2, <3>4, <1>1 DEF Reserved
      <4> QED BY <4>3, <4>4
    <3>7. Reserved' \in SUBSET (Reserved \ {slot})
      <4> SUFFICES ASSUME NEW x \in InOp \X (1 .. MAXOPBLOCKS),
                          x[2] > Cardinality(wrote[x[1]] \cap Range(lh'))
                   PROVE  x[2] > Cardinality(wrote[x[1]] \cap Range(lh))
        BY <1>1, <1>5, <3>6 DEF Reserved
      <4>1. x[1] \in Proc /\ x[2] \in Nat
        BY DEF InOp
      <4> QED BY <4>1, <3>3
    <3>8. /\ IsFiniteSet(Reserved \ {slot})
          /\ Cardinality(Reserved \ {slot}) = Cardinality(Reserved) - 1
      BY <3>6, FiniteReserved, FS_RemoveElement
    <3>9. /\ Cardinality(Reserved') <= Cardinality(Reserved) - 1
          /\ IsFiniteSet(Reserved')
      <4>1. Cardinality(Reserved') <= Cardinality(Reserved \ {slot})
            /\ IsFiniteSet(Reserved')
        BY <3>7, <3>8, FS_Subset
      <4> QED BY <4>1, <3>8
    <3>10. Cardinality(Reserved') \in Nat
      BY <3>9, FS_CardinalityType
    <3> HIDE DEF slot, k
    <3> QED BY <3>1, <3>9, <3>10, <1>4, FiniteReserved DEF Ind, Reservation
  <2> QED BY <2>1, <2>2
<1> QED BY <1>3, <1>6, <1>7, <1>9 DEF Ind

(* A call that gives up its reservation. *)
LEMMA EndOpInd == ASSUME NEW p \in Proc, Ind, EndOp(p) PROVE Ind'
<1> USE LogAssumption
<1>1. /\ pc[p] = "fs" /\ outstanding' = outstanding - 1
      /\ panicked' = committing
      /\ UNCHANGED <<home, logblk, hdr, cache, dirty, lh, blk, wrote>>
  BY DEF EndOp, disk, buffers
<1>2. /\ p \in InOp /\ phase = "run" /\ ~committing /\ outstanding >= 1
      /\ Len(lh) \in Nat /\ Len(lh) <= LOGSIZE /\ outstanding \in Nat
  BY <1>1, IndFacts DEF Ind, TypeOK
<1>3. CASE outstanding = 1
  <2>1. /\ committing' = TRUE /\ pc' = [pc EXCEPT ![p] = "commit"]
        /\ phase' = IF lh = << >> THEN "end_commit" ELSE "write_log"
        /\ tail' = 1
    BY <1>2, <1>3 DEF EndOp
  <2>2. InOp' = InOp \ {p}
    BY <2>1, <1>2 DEF InOp, Ind, TypeOK
  <2>3. Cardinality(InOp') = 0 /\ InOp' = {}
    <3>1. IsFiniteSet(InOp') /\ Cardinality(InOp') = 0
      <4>1. Cardinality(InOp) = 1
        BY <1>3 DEF Ind, Control
      <4>2. /\ IsFiniteSet(InOp \ {p})
            /\ Cardinality(InOp \ {p}) = Cardinality(InOp) - 1
        BY <1>2, FiniteReserved, FS_RemoveElement
      <4> QED BY <4>1, <4>2, <2>2
    <3> QED BY <3>1, FS_EmptySet
  <2>4. TypeOK'
    <3>1. committing' \in BOOLEAN /\ panicked' \in BOOLEAN
      BY <1>1, <2>1 DEF Ind, TypeOK
    <3>2. phase' \in Phases /\ outstanding' \in Nat /\ tail' \in Nat
      BY <1>1, <1>2, <2>1 DEF Phases
    <3>3. pc' \in [Proc -> PCs]
      BY <2>1 DEF Ind, TypeOK, PCs
    <3> QED BY <3>1, <3>2, <3>3, <1>1 DEF Ind, TypeOK
  <2>5. Control'
    <3>1. \A q \in Proc : pc'[q] \in {"log_write", "bwrite"}
                            => blk'[q] \in Block /\ blk'[q] \in wrote'[q]
      BY <1>1, <2>1 DEF Ind, Control, TypeOK
    <3>2. outstanding' = Cardinality(InOp')
      BY <1>1, <1>3, <2>3
    <3>3. \A q \in Proc : IsFiniteSet(wrote'[q]) /\ Cardinality(wrote'[q]) <= OpBlocks
      BY <1>1 DEF Ind, Control
    <3> QED BY <2>1, <2>3, <3>1, <3>2, <3>3 DEF Control, CommitPhases
  <2>6. Loops'
    <3>1. lh # << >> => Len(lh) >= 1
      BY <1>2 DEF Ind, TypeOK
    <3> QED BY <1>1, <1>2, <2>1, <3>1 DEF Ind, Loops
  <2>7. Reservation'
    BY <2>3, <1>1, <1>2, NoCalls
  <2> QED BY <2>4, <2>5, <2>6, <2>7 DEF Ind
<1>4. CASE outstanding # 1
  <2>1. /\ pc' = Wakeup([pc EXCEPT ![p] = "user"])
        /\ UNCHANGED <<committing, phase, tail>>
    BY <1>2, <1>4 DEF EndOp
  <2>2. InOp' = InOp \ {p}
    BY <2>1 DEF InOp, Ind, TypeOK, Wakeup
  <2>3. Cardinality(InOp') = Cardinality(InOp) - 1
    BY <2>2, <1>2, FiniteReserved, FS_RemoveElement
  <2>4. TypeOK'
    <3>1. pc' \in [Proc -> PCs]
      BY <2>1 DEF Ind, TypeOK, PCs, Wakeup
    <3>2. panicked' \in BOOLEAN
      BY <1>1 DEF Ind, TypeOK
    <3>3. outstanding' \in Nat
      BY <1>1, <1>2
    <3> QED BY <1>1, <2>1, <3>1, <3>2, <3>3 DEF Ind, TypeOK
  <2>5. Control'
    <3>1. \A q \in Proc : pc'[q] \in {"log_write", "bwrite"}
                            => blk'[q] \in Block /\ blk'[q] \in wrote'[q]
      BY <1>1, <2>1 DEF Ind, Control, TypeOK, Wakeup
    <3>2. outstanding' = Cardinality(InOp')
      BY <1>1, <2>3 DEF Ind, Control
    <3> QED BY <1>1, <1>2, <2>1, <3>1, <3>2 DEF Ind, Control
  <2>6. Loops'
    BY <1>1, <2>1 DEF Ind, Loops
  <2>7. Reservation'
    <3>1. Reserved' \in SUBSET Reserved
      BY <1>1, <2>2 DEF Reserved
    <3> QED BY <3>1, NoNewSlot, FiniteReserved, <1>1, <1>2 DEF Ind, Reservation
  <2> QED BY <2>4, <2>5, <2>6, <2>7 DEF Ind
<1> QED BY <1>3, <1>4

LEMMA WriteiBwriteInd == ASSUME NEW p \in Proc, Ind, WriteiBwrite(p) PROVE Ind'
<1>1. /\ pc[p] = "bwrite"
      /\ home' = [home EXCEPT ![blk[p]] = cache[blk[p]]]
      /\ dirty' = dirty \ {blk[p]}
      /\ pc' = [pc EXCEPT ![p] = "fs"]
      /\ blk' = [blk EXCEPT ![p] = NoBlock]
      /\ UNCHANGED <<logblk, hdr, cache, lh, outstanding, committing, wrote,
                     phase, tail, panicked>>
  BY DEF WriteiBwrite, log
<1>2. blk[p] \in Block
  BY <1>1 DEF Ind, Control
<1>3. TypeOK'
  <2>1. pc' \in [Proc -> PCs]
    BY <1>1 DEF Ind, TypeOK, PCs
  <2>2. home' \in [Block -> Val] /\ dirty' \in SUBSET Block
        /\ blk' \in [Proc -> Block \cup {NoBlock}]
    BY <1>1, <1>2 DEF Ind, TypeOK
  <2> QED BY <1>1, <2>1, <2>2 DEF Ind, TypeOK
<1>4. InOp' = InOp
  BY <1>1 DEF InOp, Ind, TypeOK
<1>5. Control'
  <2>1. \A q \in Proc : pc'[q] \in {"log_write", "bwrite"}
                          => blk'[q] \in Block /\ blk'[q] \in wrote'[q]
    BY <1>1 DEF Ind, Control, TypeOK
  <2> QED BY <1>1, <1>4, <2>1 DEF Ind, Control
<1>6. Loops'
  BY <1>1 DEF Ind, Loops
<1>7. Reserved' = Reserved
  BY <1>1, <1>4 DEF Reserved
<1>8. Reservation'
  BY <1>1, <1>7 DEF Ind, Reservation
<1> QED BY <1>3, <1>5, <1>6, <1>8 DEF Ind

LEMMA EvictInd == ASSUME NEW b \in Block, Ind, Evict(b) PROVE Ind'
<1>1. /\ cache' = [cache EXCEPT ![b] = home[b]]
      /\ UNCHANGED <<home, logblk, hdr, dirty, lh, outstanding, committing,
                     pc, blk, wrote, phase, tail, panicked>>
  BY DEF Evict, disk, log, calls
<1>2. TypeOK'
  BY <1>1 DEF Ind, TypeOK
<1>3. InOp' = InOp /\ Reservation'
  BY <1>1, SameCalls
<1>4. Control' /\ Loops'
  BY <1>1, <1>3 DEF Ind, Control, Loops
<1> QED BY <1>2, <1>3, <1>4 DEF Ind

(* The steps of commit and recovery stay inside the log. *)
LEMMA CommitterInd == ASSUME Ind, Committer PROVE Ind'
<1> USE LogAssumption
<1>0. Len(lh) \in Nat /\ Len(hdr) \in Nat /\ Len(lh) <= LOGSIZE
  BY IndFacts
<1>1. CASE WriteLog
  <2>1. /\ phase = "write_log"
        /\ logblk' = [logblk EXCEPT ![tail] = cache[lh[tail]]]
        /\ \/ tail < Len(lh) /\ tail' = tail + 1 /\ phase' = phase
           \/ tail' = 1 /\ phase' = "write_head"
        /\ UNCHANGED <<home, hdr, cache, dirty, lh, outstanding, committing,
                       pc, blk, wrote, panicked>>
    BY <1>1 DEF WriteLog, buffers, log, calls
  <2>2. tail \in 1 .. Len(lh)
    BY <2>1 DEF Ind, Loops
  <2>3. TypeOK'
    <3>1. logblk' \in [1 .. LOGSIZE -> Val]
      BY <1>0, <2>1, <2>2 DEF Ind, TypeOK
    <3> QED BY <2>1, <2>2, <3>1 DEF Ind, TypeOK, Phases
  <2>4. InOp' = InOp /\ Reservation'
    BY <2>1, SameCalls
  <2>5. Control'
    BY <2>1, <2>4 DEF Ind, Control, CommitPhases
  <2>6. Loops'
    BY <1>0, <2>1, <2>2 DEF Ind, Loops
  <2> QED BY <2>3, <2>4, <2>5, <2>6 DEF Ind
<1>2. CASE WriteHead
  <2>1. /\ phase = "write_head" /\ hdr' = lh /\ phase' = "install_trans"
        /\ UNCHANGED <<home, logblk, cache, dirty, lh, outstanding, committing,
                       pc, blk, wrote, tail, panicked>>
    BY <1>2 DEF WriteHead, buffers, log, calls
  <2>2. TypeOK'
    BY <2>1 DEF Ind, TypeOK, Phases
  <2>3. InOp' = InOp /\ Reservation'
    BY <2>1, SameCalls
  <2>4. Control'
    BY <2>1, <2>3 DEF Ind, Control, CommitPhases
  <2>5. Loops'
    BY <1>0, <2>1 DEF Ind, Loops
  <2> QED BY <2>2, <2>3, <2>4, <2>5 DEF Ind
<1>3. CASE InstallTrans
  <2>1. /\ phase = "install_trans"
        /\ home' = [home EXCEPT ![lh[tail]] = logblk[tail]]
        /\ cache' = [cache EXCEPT ![lh[tail]] = logblk[tail]]
        /\ dirty' = dirty \ {lh[tail]}
        /\ \/ tail < Len(lh) /\ tail' = tail + 1 /\ phase' = phase
           \/ tail' = 1 /\ phase' = "clear"
        /\ UNCHANGED <<logblk, hdr, lh, outstanding, committing,
                       pc, blk, wrote, panicked>>
    BY <1>3 DEF InstallTrans, log, calls
  <2>2. tail \in 1 .. Len(lh)
    BY <2>1 DEF Ind, Loops
  <2>3. TypeOK'
    <3>1. lh[tail] \in Block /\ logblk[tail] \in Val
      BY <1>0, <2>2 DEF Ind, TypeOK
    <3>2. home' \in [Block -> Val] /\ cache' \in [Block -> Val]
      BY <2>1, <3>1 DEF Ind, TypeOK
    <3> QED BY <2>1, <2>2, <3>2 DEF Ind, TypeOK, Phases
  <2>4. InOp' = InOp /\ Reservation'
    BY <2>1, SameCalls
  <2>5. Control'
    BY <2>1, <2>4 DEF Ind, Control, CommitPhases
  <2>6. Loops'
    BY <1>0, <2>1, <2>2 DEF Ind, Loops
  <2> QED BY <2>3, <2>4, <2>5, <2>6 DEF Ind
<1>4. CASE ClearLog
  <2>1. /\ phase = "clear" /\ lh' = << >> /\ hdr' = << >>
        /\ phase' = IF committing THEN "end_commit" ELSE "run"
        /\ UNCHANGED <<home, logblk, cache, dirty, outstanding, committing,
                       pc, blk, wrote, tail, panicked>>
    BY <1>4 DEF ClearLog, buffers, calls
  <2>2. TypeOK'
    BY <2>1 DEF Ind, TypeOK, Phases
  <2>3. InOp' = InOp /\ InOp = {}
    BY <2>1 DEF InOp, Ind, Control
  <2>4. Reservation'
    BY <2>1, <2>3, NoCalls
  <2>5. Control'
    BY <2>1, <2>3 DEF Ind, Control, CommitPhases
  <2>6. Loops'
    BY <2>1 DEF Ind, Loops
  <2> QED BY <2>2, <2>4, <2>5, <2>6 DEF Ind
<1>5. CASE EndCommit
  <2>1. /\ phase = "end_commit" /\ committing' = FALSE /\ phase' = "run"
        /\ pc' = Wakeup([p \in Proc |-> IF pc[p] = "commit" THEN "user" ELSE pc[p]])
        /\ UNCHANGED <<home, logblk, hdr, cache, dirty, lh, outstanding,
                       blk, wrote, tail, panicked>>
    BY <1>5 DEF EndCommit, disk, buffers
  <2>2. TypeOK'
    <3>1. pc' \in [Proc -> PCs]
      BY <2>1 DEF Ind, TypeOK, PCs, Wakeup
    <3>2. committing' \in BOOLEAN
      BY <2>1
    <3> QED BY <2>1, <3>1, <3>2 DEF Ind, TypeOK, Phases
  <2>3. InOp' = InOp
    BY <2>1 DEF InOp, Ind, TypeOK, Wakeup
  <2>4. Reserved' = Reserved
    BY <2>1, <2>3 DEF Reserved
  <2>5. Control'
    <3>1. \A q \in Proc : pc'[q] \in {"log_write", "bwrite"}
                            => blk'[q] \in Block /\ blk'[q] \in wrote'[q]
      BY <2>1 DEF Ind, Control, TypeOK, Wakeup
    <3> QED BY <2>1, <2>3, <3>1 DEF Ind, Control
  <2>6. Loops'
    BY <2>1 DEF Ind, Loops
  <2>7. Reservation'
    BY <2>1, <2>4 DEF Ind, Reservation
  <2> QED BY <2>2, <2>5, <2>6, <2>7 DEF Ind
<1>6. CASE ReadHead
  <2>1. /\ phase = "read_head" /\ lh' = hdr
        /\ phase' = IF hdr = << >> THEN "clear" ELSE "install_trans"
        /\ UNCHANGED <<home, logblk, hdr, cache, dirty, outstanding, committing,
                       pc, blk, wrote, tail, panicked>>
    BY <1>6 DEF ReadHead, disk, buffers, calls
  <2>2. TypeOK'
    BY <2>1 DEF Ind, TypeOK, Phases
  <2>3. InOp' = InOp /\ InOp = {}
    BY <2>1 DEF InOp, Ind, Control
  <2>4. Reservation'
    BY <1>0, <2>1, <2>3, NoCalls DEF Ind, Loops
  <2>5. Control'
    BY <2>1, <2>3 DEF Ind, Control, CommitPhases
  <2>6. Loops'
    <3>1. hdr # << >> => Len(hdr) >= 1
      BY <1>0 DEF Ind, TypeOK
    <3> QED BY <1>0, <2>1, <3>1 DEF Ind, Loops
  <2> QED BY <2>2, <2>4, <2>5, <2>6 DEF Ind
<1> QED BY <1>1, <1>2, <1>3, <1>4, <1>5, <1>6 DEF Committer

LEMMA CrashInd == ASSUME Ind, Crash PROVE Ind'
<1> USE LogAssumption DEF Crash, disk
<1>1. TypeOK'
  <2>1. /\ pc' \in [Proc -> PCs]
        /\ blk' \in [Proc -> Block \cup {NoBlock}]
        /\ wrote' \in [Proc -> SUBSET Block]
    BY DEF PCs
  <2>2. lh' \in Seq(Block) /\ dirty' \in SUBSET Block /\ phase' \in Phases
    BY DEF Phases
  <2>3. committing' \in BOOLEAN /\ panicked' \in BOOLEAN
    OBVIOUS
  <2> QED BY <2>1, <2>2, <2>3 DEF Ind, TypeOK
<1>2. InOp' = {}
  BY DEF InOp
<1>3. Control'
  BY <1>2, FS_EmptySet DEF Control
<1>4. Loops'
  BY DEF Ind, Loops
<1>5. Reservation'
  BY <1>2, NoCalls
<1> QED BY <1>1, <1>3, <1>4, <1>5 DEF Ind

LEMMA NextInd == Ind /\ [Next]_vars => Ind'
<1> SUFFICES ASSUME Ind, [Next]_vars PROVE Ind'
  OBVIOUS
<1>1. CASE \E p \in Proc : Call(p)
  BY <1>1, BeginOpInd, KillInd, ModifyBlockInd, LogWriteInd, WriteiBwriteInd,
     EndOpInd DEF Call
<1>2. CASE \E b \in Block : Evict(b)
  BY <1>2, EvictInd
<1>3. CASE Committer
  BY <1>3, CommitterInd
<1>4. CASE Crash
  BY <1>4, CrashInd
<1>5. CASE UNCHANGED vars
  <2>1. UNCHANGED <<home, logblk, hdr, cache, dirty, lh, outstanding, committing,
                    pc, blk, wrote, phase, tail, panicked>>
    BY <1>5 DEF vars
  <2>2. InOp' = InOp /\ Reservation'
    BY <2>1, SameCalls
  <2>3. TypeOK' /\ Control' /\ Loops'
    BY <2>1, <2>2 DEF Ind, TypeOK, Control, Loops
  <2> QED BY <2>2, <2>3 DEF Ind
<1> QED BY <1>1, <1>2, <1>3, <1>4, <1>5 DEF Next

-----------------------------------------------------------------------------

(* Type correctness: in particular write_log and install_trans only touch log
   blocks 1 .. LOGSIZE, a logged block is a block, and end_op never takes
   log.outstanding below zero. *)
THEOREM TypeCorrect == Spec => []TypeOK
<1>1. Ind => TypeOK
  BY DEF Ind
<1> QED BY <1>1, InitInd, NextInd, PTL DEF Spec

(* What begin_op's test guarantees: the blocks in the log and the blocks still
   promised to the calls that run never exceed LOGSIZE. *)
THEOREM ReservationHolds == Spec => []Reservation
<1>1. Ind => Reservation
  BY DEF Ind
<1> QED BY <1>1, InitInd, NextInd, PTL DEF Spec

(* A call that logs at most MAXOPBLOCKS - 2 blocks always has two slots left. *)
LEMMA TwoSlotsLeft ==
    ASSUME Ind, NEW p \in Proc, p \in InOp, OpBlocks + 2 <= MAXOPBLOCKS
    PROVE  Len(lh) + 2 <= LOGSIZE
<1> USE LogAssumption
<1>1. /\ Cardinality(wrote[p] \cap Range(lh)) \in Nat
      /\ Cardinality(wrote[p] \cap Range(lh)) <= OpBlocks
  <2>1. IsFiniteSet(wrote[p]) /\ Cardinality(wrote[p]) <= OpBlocks
    BY DEF Ind, Control
  <2> QED BY <2>1, LoggedBound
<1> DEFINE m == <<p, MAXOPBLOCKS>>
           n == <<p, MAXOPBLOCKS - 1>>
<1>2. m \in Reserved /\ n \in Reserved /\ m # n
  <2>1. m \in InOp \X (1 .. MAXOPBLOCKS) /\ m[1] = p /\ m[2] = MAXOPBLOCKS
    OBVIOUS
  <2>2. n \in InOp \X (1 .. MAXOPBLOCKS) /\ n[1] = p /\ n[2] = MAXOPBLOCKS - 1
    OBVIOUS
  <2>3. m[2] # n[2]
    BY <2>1, <2>2
  <2>4. m # n
    BY <2>3
  <2>5. /\ m[2] > Cardinality(wrote[m[1]] \cap Range(lh))
        /\ n[2] > Cardinality(wrote[n[1]] \cap Range(lh))
    BY <1>1, <2>1, <2>2
  <2> HIDE DEF m, n
  <2>6. m \in Reserved
    BY <2>1, <2>5 DEF Reserved
  <2>7. n \in Reserved
    BY <2>2, <2>5 DEF Reserved
  <2> QED BY <2>4, <2>6, <2>7
<1> HIDE DEF m, n
<1>3. IsFiniteSet({m}) /\ Cardinality({m}) = 1
  BY FS_Singleton
<1>4. IsFiniteSet({m} \cup {n}) /\ Cardinality({m} \cup {n}) = 2
  <2>1. n \notin {m}
    BY <1>2
  <2>2. Cardinality({m} \cup {n}) = Cardinality({m}) + 1 /\ IsFiniteSet({m} \cup {n})
    BY <2>1, <1>3, FS_AddElement
  <2> QED BY <2>2, <1>3
<1>5. {m} \cup {n} \in SUBSET Reserved
  BY <1>2
<1>6. Cardinality({m} \cup {n}) <= Cardinality(Reserved)
  BY <1>5, FiniteReserved, FS_Subset
<1>7. Len(lh) \in Nat /\ Cardinality(Reserved) \in Nat
  BY IndFacts, FiniteReserved
<1>8. Len(lh) + Cardinality(Reserved) <= LOGSIZE
  BY DEF Ind, Reservation
<1>9. 2 <= Cardinality(Reserved)
  BY <1>4, <1>6
<1> QED BY <1>7, <1>8, <1>9, LogAssumption

(* With a log of more than LOGSIZE blocks, or in the geometry of mkfs
   (nlog = LOGSIZE, the header included) if no call logs more than
   MAXOPBLOCKS - 2 blocks, neither struct logheader nor the on-disk log is
   overrun, although log_write tests for space without log.lock. *)
THEOREM LogNeverOverruns ==
    ASSUME \/ LOGSIZE < LogBlocks
           \/ LOGSIZE <= LogBlocks /\ OpBlocks + 2 <= MAXOPBLOCKS
    PROVE  Spec => []LogFits
<1> USE LogAssumption
<1> DEFINE Fits == LogFits /\ Len(hdr) < LogBlocks
<1>1. Init => Fits
  BY DEF Init, LogFits
<1>2. Ind /\ Fits /\ [Next]_vars => Fits'
  <2> SUFFICES ASSUME Ind, Fits, [Next]_vars PROVE Fits'
    OBVIOUS
  <2>1. /\ Len(lh) \in Nat /\ Len(hdr) \in Nat
        /\ Len(lh') \in Nat /\ Len(lh') <= LOGSIZE
    <3>1. Ind'
      BY NextInd
    <3>2. Len(lh') \in Nat
      BY <3>1 DEF Ind, TypeOK
    <3>3. Reserved' \in SUBSET (InOp' \X (1 .. MAXOPBLOCKS)) /\ InOp' \in SUBSET Proc
      BY DEF Reserved, InOp
    <3>4. Cardinality(Reserved') \in Nat
      BY <3>3, Slots
    <3> QED BY <3>1, <3>2, <3>4, IndFacts DEF Ind, Reservation
  <2>2. CASE LOGSIZE < LogBlocks
    <3>1. hdr' = hdr \/ hdr' = lh \/ hdr' = << >>
      BY ZenonT(60) DEF Next, vars, Call, Committer, BeginOp, Kill, ModifyBlock, LogWrite,
         WriteiBwrite, EndOp, Evict, WriteLog, WriteHead, InstallTrans, ClearLog,
         EndCommit, ReadHead, Crash, disk
    <3> QED BY <2>1, <2>2, <3>1 DEF LogFits
  <2>3. CASE LOGSIZE <= LogBlocks /\ OpBlocks + 2 <= MAXOPBLOCKS
    <3>1. ASSUME NEW p \in Proc, LogWrite(p) PROVE Fits'
      <4>1. p \in InOp
        BY <3>1, IndFacts DEF LogWrite
      <4>2. Len(lh) + 2 <= LOGSIZE
        BY <4>1, <2>3, TwoSlotsLeft
      <4>3. lh' = lh \/ lh' = Append(lh, blk[p])
        BY <3>1 DEF LogWrite
      <4>4. Len(lh') <= Len(lh) + 1
        BY <4>3, <2>1 DEF Ind, TypeOK
      <4>5. hdr' = hdr
        BY <3>1 DEF LogWrite, disk
      <4> QED BY <4>2, <4>4, <4>5, <2>1, <2>3 DEF LogFits
    <3>2. CASE ~ \E p \in Proc : LogWrite(p)
      <4>1. /\ hdr' = hdr \/ hdr' = lh \/ hdr' = << >>
            /\ lh' = lh \/ lh' = hdr \/ lh' = << >>
        BY <3>2, ZenonT(60) DEF Next, vars, Call, Committer, BeginOp, Kill, ModifyBlock,
           WriteiBwrite, EndOp, Evict, WriteLog, WriteHead, InstallTrans,
           ClearLog, EndCommit, ReadHead, Crash, disk, log
      <4> QED BY <2>1, <2>3, <4>1 DEF LogFits
    <3> QED BY <3>1, <3>2
  <2> QED BY <2>2, <2>3
<1>3. Fits => LogFits
  OBVIOUS
<1> HIDE DEF Fits
<1> QED BY <1>1, <1>2, <1>3, InitInd, NextInd, PTL DEF Spec

(* In the geometry of mkfs, none of the panics of log_write and end_op is
   reachable as long as every call logs at most MAXOPBLOCKS - 2 blocks. *)
THEOREM NeverPanics ==
    ASSUME LOGSIZE <= LogBlocks, OpBlocks + 2 <= MAXOPBLOCKS
    PROVE  Spec => []NoPanic
<1> USE LogAssumption
<1>1. Init => NoPanic
  BY DEF Init, NoPanic
<1>2. Ind /\ NoPanic /\ [Next]_vars => NoPanic'
  <2> SUFFICES ASSUME Ind, NoPanic, [Next]_vars PROVE NoPanic'
    OBVIOUS
  <2>1. ASSUME NEW p \in Proc, NEW b \in Block, NEW v \in Val, ModifyBlock(p, b, v)
        PROVE  NoPanic'
    <3>1. p \in InOp /\ outstanding >= 1 /\ Len(lh) \in Nat
      BY <2>1, IndFacts DEF ModifyBlock
    <3>2. Len(lh) + 2 <= LOGSIZE
      BY <3>1, TwoSlotsLeft
    <3>3. ~(Len(lh) >= LOGSIZE \/ Len(lh) >= LogBlocks - 1 \/ outstanding < 1)
      BY <3>1, <3>2 DEF Ind, TypeOK
    <3> QED BY <2>1, <3>3 DEF ModifyBlock, NoPanic
  <2>2. ASSUME NEW p \in Proc, EndOp(p) PROVE NoPanic'
    <3>1. ~committing
      BY <2>2, IndFacts DEF EndOp
    <3> QED BY <2>2, <3>1 DEF EndOp, NoPanic
  <2>3. CASE /\ ~ \E p \in Proc : EndOp(p)
             /\ ~ \E p \in Proc, b \in Block, v \in Val : ModifyBlock(p, b, v)
    BY <2>3 DEF NoPanic, Next, vars, Call, Committer, BeginOp, Kill, LogWrite,
       WriteiBwrite, Evict, WriteLog, WriteHead, InstallTrans, ClearLog,
       EndCommit, ReadHead, Crash
  <2> QED BY <2>1, <2>2, <2>3
<1> QED BY <1>1, <1>2, InitInd, NextInd, PTL DEF Spec

-----------------------------------------------------------------------------
(***************************************************************************)
(* Log implements AtomicDisk: proof of crash atomicity, for every set of   *)
(* processes and blocks, every size of the log and any number of crashes,  *)
(* a crash during recovery included.                                       *)
(***************************************************************************)

(* No block is logged twice: log_write absorbs. *)
Absorbed ==
    /\ \A i, j \in DOMAIN lh : lh[i] = lh[j] => i = j
    /\ \A i, j \in DOMAIN hdr : hdr[i] = hdr[j] => i = j

(* The header on disk is empty except between the real commit and the end of
   the installation; commit and recovery install what it lists. *)
HeaderOnDisk ==
    /\ phase \in {"run", "write_log", "write_head", "end_commit"} => hdr = << >>
    /\ phase \in {"install_trans", "clear"} => hdr = lh
    /\ phase \in {"write_log", "write_head", "end_commit"} => committing
    /\ phase = "run" /\ InOp = {} => lh = << >>
    /\ phase = "end_commit" => lh = << >>

(* Only a call in progress holds a locked buffer. *)
Holders ==
    /\ \A p \in Proc : blk[p] # NoBlock => p \in InOp
    /\ ~panicked => \A p \in Proc : pc[p] = "fs" => blk[p] = NoBlock
    /\ ~WriteThrough => \A p \in Proc : pc[p] # "bwrite"

(* A buffer that differs from its home block is locked, or it is pinned by
   B_DIRTY and in the log. *)
Pinned ==
    /\ \A b \in Block : b \notin dirty /\ b \notin Held => cache[b] = home[b]
    /\ phase \in {"run", "write_log", "write_head"} => dirty \subseteq Range(lh)
    /\ phase = "install_trans" => dirty \subseteq {lh[i] : i \in tail .. Len(lh)}
    /\ phase \in {"clear", "end_commit", "read_head"} => dirty = {}

(* What the log blocks hold during a commit, and the home blocks during an
   installation. *)
Copied ==
    /\ phase = "write_log" => \A i \in 1 .. tail - 1 : logblk[i] = cache[lh[i]]
    /\ phase \in {"write_head", "install_trans"} /\ committing =>
          \A i \in DOMAIN lh : logblk[i] = cache[lh[i]]
    /\ phase = "install_trans" =>
          \A i \in 1 .. tail - 1 : home[lh[i]] = logblk[i]
    /\ phase = "clear" => \A i \in DOMAIN lh : home[lh[i]] = logblk[i]

Journal == Absorbed /\ HeaderOnDisk /\ Holders /\ Pinned /\ Copied

-----------------------------------------------------------------------------

LEMMA InitJournal == Init => Journal
<1> SUFFICES ASSUME Init PROVE Journal
  OBVIOUS
<1> USE DEF Init
<1>1. Absorbed
  BY DEF Absorbed
<1>2. HeaderOnDisk
  BY DEF HeaderOnDisk
<1>3. Holders
  BY DEF Holders
<1>4. Pinned
  BY DEF Pinned
<1>5. Copied
  BY DEF Copied
<1> QED BY <1>1, <1>2, <1>3, <1>4, <1>5 DEF Journal

(* A step that changes only where the calls are, and not which of them are in
   progress, keeps everything the invariant says of disk, cache and log. *)
LEMMA SameJournal ==
    ASSUME Journal, InOp' = InOp,
           UNCHANGED <<home, logblk, hdr, cache, dirty, lh, committing, blk,
                       phase, tail>>
    PROVE  Absorbed' /\ HeaderOnDisk' /\ Pinned' /\ Copied'
<1>1. Absorbed' /\ HeaderOnDisk'
  BY DEF Journal, Absorbed, HeaderOnDisk
<1>2. Pinned'
  BY DEF Journal, Pinned, Held
<1>3. Copied'
  BY DEF Journal, Copied
<1> QED BY <1>1, <1>2, <1>3

LEMMA BeginOpJournal ==
    ASSUME NEW p \in Proc, Ind, Journal, ~panicked, BeginOp(p) PROVE Journal'
<1>1. /\ pc[p] \in {"user", "woken"}
      /\ \/ pc' = [pc EXCEPT ![p] = "sleeping"]
         \/ pc' = [pc EXCEPT ![p] = "fs"] /\ ~committing
      /\ UNCHANGED <<home, logblk, hdr, cache, dirty, lh, committing,
                     blk, phase, tail, panicked>>
      /\ Booted
  BY DEF BeginOp, disk, buffers, log
<1>2. InOp' = InOp \/ (InOp' = InOp \cup {p} /\ phase = "run")
  BY <1>1 DEF InOp, Ind, TypeOK, Booted
<1>3. Absorbed'
  BY <1>1 DEF Journal, Absorbed
<1>4. HeaderOnDisk'
  BY <1>1, <1>2 DEF Journal, HeaderOnDisk
<1>5. Holders'
  <2>1. p \notin InOp /\ blk[p] = NoBlock
    BY <1>1 DEF Journal, Holders, InOp
  <2>2. \A q \in Proc : q # p => pc'[q] = pc[q]
    BY <1>1 DEF Ind, TypeOK
  <2>3. pc'[p] \in {"sleeping", "fs"}
    BY <1>1 DEF Ind, TypeOK
  <2> QED BY <1>1, <1>2, <2>1, <2>2, <2>3 DEF Journal, Holders
<1>6. Pinned'
  BY <1>1 DEF Journal, Pinned, Held
<1>7. Copied'
  BY <1>1 DEF Journal, Copied
<1> QED BY <1>3, <1>4, <1>5, <1>6, <1>7 DEF Journal

LEMMA KillJournal ==
    ASSUME NEW p \in Proc, Ind, Journal, Kill(p) PROVE Journal'
<1>1. /\ pc[p] = "sleeping" /\ pc' = [pc EXCEPT ![p] = "woken"]
      /\ UNCHANGED <<home, logblk, hdr, cache, dirty, lh, outstanding, committing,
                     blk, wrote, phase, tail, panicked>>
  BY DEF Kill, disk, buffers, log
<1>2. InOp' = InOp
  BY <1>1 DEF InOp, Ind, TypeOK
<1>3. Holders'
  BY <1>1, <1>2 DEF Journal, Holders, Ind, TypeOK
<1> QED BY <1>1, <1>2, <1>3, SameJournal DEF Journal

LEMMA ModifyBlockJournal ==
    ASSUME NEW p \in Proc, NEW b \in Block, NEW v \in Val, Ind, Journal,
           ~panicked, ModifyBlock(p, b, v)
    PROVE  Journal'
<1>1. /\ pc[p] = "fs"
      /\ cache' = [cache EXCEPT ![b] = v]
      /\ blk' = [blk EXCEPT ![p] = b]
      /\ \/ pc' = pc /\ panicked' = TRUE
         \/ pc' = [pc EXCEPT ![p] = "log_write"] /\ panicked' = panicked
      /\ UNCHANGED <<home, logblk, hdr, dirty, lh, outstanding, committing,
                     phase, tail>>
  BY DEF ModifyBlock, disk, log
<1>2. p \in InOp /\ phase = "run" /\ ~committing
  BY <1>1, IndFacts
<1>3. InOp' = InOp
  BY <1>1 DEF InOp, Ind, TypeOK
<1>4. Absorbed' /\ HeaderOnDisk'
  BY <1>1, <1>3 DEF Journal, Absorbed, HeaderOnDisk
<1>5. Holders'
  BY <1>1, <1>2, <1>3 DEF Journal, Holders, Ind, TypeOK
<1>6. Pinned'
  <2>1. blk[p] = NoBlock
    BY <1>1 DEF Journal, Holders
  <2>2. Held' = Held \cup {b}
    <3>1. b # NoBlock
      BY LogAssumption
    <3> QED BY <1>1, <2>1, <3>1 DEF Held, Ind, TypeOK
  <2>3. \A c \in Block : c \notin dirty' /\ c \notin Held' => cache'[c] = home'[c]
    BY <1>1, <2>2 DEF Journal, Pinned, Ind, TypeOK
  <2> QED BY <1>1, <1>2, <2>3 DEF Journal, Pinned
<1>7. Copied'
  BY <1>1, <1>2 DEF Copied
<1> QED BY <1>4, <1>5, <1>6, <1>7 DEF Journal

LEMMA LogWriteJournal ==
    ASSUME NEW p \in Proc, Ind, Journal, LogWrite(p) PROVE Journal'
<1>1. /\ pc[p] = "log_write"
      /\ lh' = IF blk[p] \in Range(lh) THEN lh ELSE Append(lh, blk[p])
      /\ dirty' = dirty \cup {blk[p]}
      /\ \/ pc' = [pc EXCEPT ![p] = "fs"] /\ blk' = [blk EXCEPT ![p] = NoBlock]
         \/ WriteThrough /\ pc' = [pc EXCEPT ![p] = "bwrite"] /\ blk' = blk
      /\ UNCHANGED <<home, logblk, hdr, cache, outstanding, committing, phase,
                     tail, panicked>>
  BY DEF LogWrite, disk
<1>2. p \in InOp /\ phase = "run" /\ ~committing /\ blk[p] \in Block
  BY <1>1, IndFacts DEF Ind, Control
<1>3. InOp' = InOp
  BY <1>1 DEF InOp, Ind, TypeOK
<1>4. Absorbed'
  <2>1. CASE blk[p] \in Range(lh)
    BY <1>1, <2>1 DEF Journal, Absorbed
  <2>2. CASE blk[p] \notin Range(lh)
    <3>1. lh' = Append(lh, blk[p]) /\ lh \in Seq(Block) /\ Len(lh) \in Nat
      BY <1>1, <2>2 DEF Ind, TypeOK
    <3>2. /\ DOMAIN lh' = 1 .. Len(lh) + 1 /\ lh'[Len(lh) + 1] = blk[p]
          /\ \A i \in 1 .. Len(lh) : lh'[i] = lh[i] /\ lh[i] # blk[p]
          /\ DOMAIN lh = 1 .. Len(lh)
      BY <1>2, <2>2, <3>1 DEF Range
    <3>3. \A i, j \in DOMAIN lh' : lh'[i] = lh'[j] => i = j
      BY <3>1, <3>2 DEF Journal, Absorbed
    <3> QED BY <1>1, <3>3 DEF Journal, Absorbed
  <2> QED BY <2>1, <2>2
<1>5. HeaderOnDisk'
  BY <1>1, <1>2, <1>3 DEF Journal, HeaderOnDisk
<1>6. Holders'
  BY <1>1, <1>2, <1>3 DEF Journal, Holders, Ind, TypeOK
<1>7. Pinned'
  <2>1. Held \subseteq Held' \cup {blk[p]}
    BY <1>1 DEF Held, Ind, TypeOK
  <2>2. \A c \in Block : c \notin dirty' /\ c \notin Held' => cache'[c] = home'[c]
    BY <1>1, <2>1 DEF Journal, Pinned
  <2>3. Range(lh) \cup {blk[p]} \subseteq Range(lh')
    <3>1. CASE blk[p] \in Range(lh)
      BY <1>1, <3>1
    <3>2. CASE blk[p] \notin Range(lh)
      <4>1. lh' = Append(lh, blk[p]) /\ lh \in Seq(Block) /\ Len(lh) \in Nat
        BY <1>1, <3>2 DEF Ind, TypeOK
      <4>2. /\ DOMAIN lh' = 1 .. Len(lh) + 1 /\ lh'[Len(lh) + 1] = blk[p]
            /\ \A i \in 1 .. Len(lh) : lh'[i] = lh[i]
            /\ DOMAIN lh = 1 .. Len(lh)
        BY <1>2, <4>1
      <4> QED BY <4>1, <4>2 DEF Range
    <3> QED BY <3>1, <3>2
  <2>4. dirty' \subseteq Range(lh')
    BY <1>1, <1>2, <2>3 DEF Journal, Pinned
  <2> QED BY <1>1, <1>2, <2>2, <2>4 DEF Pinned
<1>8. Copied'
  BY <1>1, <1>2 DEF Copied
<1> QED BY <1>4, <1>5, <1>6, <1>7, <1>8 DEF Journal

LEMMA WriteiBwriteJournal ==
    ASSUME NEW p \in Proc, Ind, Journal, WriteiBwrite(p) PROVE Journal'
<1>1. /\ pc[p] = "bwrite"
      /\ home' = [home EXCEPT ![blk[p]] = cache[blk[p]]]
      /\ dirty' = dirty \ {blk[p]}
      /\ pc' = [pc EXCEPT ![p] = "fs"]
      /\ blk' = [blk EXCEPT ![p] = NoBlock]
      /\ UNCHANGED <<logblk, hdr, cache, lh, outstanding, committing, wrote,
                     phase, tail, panicked>>
  BY DEF WriteiBwrite, log
<1>2. p \in InOp /\ phase = "run" /\ ~committing /\ blk[p] \in Block
  BY <1>1, IndFacts DEF Ind, Control
<1>3. InOp' = InOp
  BY <1>1 DEF InOp, Ind, TypeOK
<1>4. Absorbed' /\ HeaderOnDisk'
  BY <1>1, <1>3 DEF Journal, Absorbed, HeaderOnDisk
<1>5. Holders'
  BY <1>1, <1>2, <1>3 DEF Journal, Holders, Ind, TypeOK
<1>6. Pinned'
  <2>1. Held \subseteq Held' \cup {blk[p]}
    BY <1>1 DEF Held, Ind, TypeOK
  <2>2. \A c \in Block : c \notin dirty' /\ c \notin Held' => cache'[c] = home'[c]
    BY <1>1, <1>2, <2>1 DEF Journal, Pinned, Ind, TypeOK
  <2> QED BY <1>1, <1>2, <2>2 DEF Journal, Pinned
<1>7. Copied'
  BY <1>1, <1>2 DEF Copied
<1> QED BY <1>4, <1>5, <1>6, <1>7 DEF Journal

(* bget recycles only buffers that agree with the disk. *)
LEMMA EvictSame ==
    ASSUME NEW b \in Block, Ind, Journal, Evict(b)
    PROVE  UNCHANGED <<home, logblk, hdr, cache, dirty, lh, outstanding, committing,
                       pc, blk, wrote, phase, tail, panicked>>
<1>1. cache[b] = home[b]
  BY DEF Evict, Journal, Pinned
<1>2. cache' = cache
  BY <1>1 DEF Evict, Ind, TypeOK
<1> QED BY <1>2 DEF Evict, disk, log, calls

LEMMA EndOpJournal ==
    ASSUME NEW p \in Proc, Ind, Journal, ~panicked, EndOp(p) PROVE Journal'
<1>1. /\ pc[p] = "fs" /\ panicked' = committing
      /\ UNCHANGED <<home, logblk, hdr, cache, dirty, lh, blk, wrote>>
  BY DEF EndOp, disk, buffers
<1>2. p \in InOp /\ phase = "run" /\ ~committing /\ blk[p] = NoBlock
  BY <1>1, IndFacts DEF Journal, Holders
<1>3. Held' = Held
  BY <1>1 DEF Held
<1>4. Absorbed'
  BY <1>1 DEF Journal, Absorbed
<1>5. CASE outstanding = 1
  <2>1. /\ committing' = TRUE /\ pc' = [pc EXCEPT ![p] = "commit"]
        /\ phase' = IF lh = << >> THEN "end_commit" ELSE "write_log"
        /\ tail' = 1
    BY <1>2, <1>5 DEF EndOp
  <2>2. InOp' = InOp \ {p}
    BY <2>1, <1>2 DEF InOp, Ind, TypeOK
  <2>3. HeaderOnDisk'
    BY <1>1, <1>2, <2>1 DEF Journal, HeaderOnDisk
  <2>4. Holders'
    BY <1>1, <1>2, <2>1, <2>2 DEF Journal, Holders, Ind, TypeOK
  <2>5. Pinned'
    <3>1. lh = << >> => Range(lh) = {}
      BY DEF Range
    <3> QED BY <1>1, <1>2, <1>3, <2>1, <3>1 DEF Journal, Pinned
  <2>6. Copied'
    BY <2>1 DEF Copied
  <2> QED BY <1>4, <2>3, <2>4, <2>5, <2>6 DEF Journal
<1>6. CASE outstanding # 1
  <2>1. /\ pc' = Wakeup([pc EXCEPT ![p] = "user"])
        /\ UNCHANGED <<committing, phase, tail>>
    BY <1>2, <1>6 DEF EndOp
  <2>2. InOp' = InOp \ {p}
    BY <2>1 DEF InOp, Ind, TypeOK, Wakeup
  <2>3. InOp' # {}
    <3>1. Cardinality(InOp') = Cardinality(InOp) - 1
      BY <2>2, <1>2, FiniteReserved, FS_RemoveElement
    <3>2. Cardinality(InOp') # 0
      BY <3>1, <1>6, FiniteReserved DEF Ind, Control
    <3> QED BY <3>2, FS_EmptySet
  <2>4. HeaderOnDisk'
    BY <1>1, <1>2, <2>1, <2>3 DEF Journal, HeaderOnDisk
  <2>5. Holders'
    BY <1>1, <1>2, <2>1, <2>2 DEF Journal, Holders, Ind, TypeOK, Wakeup
  <2>6. Pinned'
    BY <1>1, <1>3, <2>1 DEF Journal, Pinned
  <2>7. Copied'
    BY <1>1, <2>1 DEF Journal, Copied
  <2> QED BY <1>4, <2>4, <2>5, <2>6, <2>7 DEF Journal
<1> QED BY <1>5, <1>6

-----------------------------------------------------------------------------
(* The steps of commit() and recovery. *)

LEMMA WriteLogJournal == ASSUME Ind, Journal, WriteLog PROVE Journal'
<1>0. Len(lh) \in Nat /\ Len(lh) <= LOGSIZE /\ LOGSIZE \in Nat
  BY IndFacts, LogAssumption
<1>1. /\ phase = "write_log"
      /\ logblk' = [logblk EXCEPT ![tail] = cache[lh[tail]]]
      /\ UNCHANGED <<home, hdr, cache, dirty, lh, outstanding, committing,
                     pc, blk, wrote, panicked>>
  BY DEF WriteLog, buffers, log, calls
<1>2. tail \in 1 .. Len(lh)
  BY <1>1 DEF Ind, Loops
<1>3. \/ tail < Len(lh) /\ tail' = tail + 1 /\ phase' = "write_log"
      \/ tail = Len(lh) /\ tail' = 1 /\ phase' = "write_head"
  BY <1>0, <1>1, <1>2 DEF WriteLog
<1>4. InOp' = InOp /\ Held' = Held
  BY <1>1 DEF InOp, Held
<1>5. Absorbed' /\ HeaderOnDisk'
  BY <1>1, <1>3, <1>4 DEF Journal, Absorbed, HeaderOnDisk
<1>6. Holders'
  BY <1>1, <1>4 DEF Journal, Holders
<1>7. Pinned'
  BY <1>1, <1>3, <1>4 DEF Journal, Pinned
<1>8. \A i \in 1 .. tail : logblk'[i] = cache[lh[i]]
  <2>1. \A i \in 1 .. tail - 1 : logblk[i] = cache[lh[i]]
    BY <1>1 DEF Journal, Copied
  <2>2. logblk'[tail] = cache[lh[tail]]
    BY <1>0, <1>1, <1>2 DEF Ind, TypeOK
  <2>3. \A i \in 1 .. tail - 1 : logblk'[i] = logblk[i]
    BY <1>0, <1>1, <1>2 DEF Ind, TypeOK
  <2> QED BY <2>1, <2>2, <2>3, <1>2
<1>9. Copied'
  <2>1. DOMAIN lh = 1 .. Len(lh)
    BY DEF Ind, TypeOK
  <2>2. CASE tail' = tail + 1 /\ phase' = "write_log"
    <3>1. tail' - 1 = tail
      BY ONLY <1>2, <2>2, SMTT(30)
    <3> QED BY <1>1, <1>8, <2>2, <3>1 DEF Copied
  <2>3. CASE tail = Len(lh) /\ phase' = "write_head"
    BY ONLY <1>1, <1>8, <2>1, <2>3, ZenonT(60) DEF Copied
  <2> QED BY <1>3, <2>2, <2>3
<1> QED BY <1>5, <1>6, <1>7, <1>9 DEF Journal

LEMMA WriteHeadJournal == ASSUME Ind, Journal, WriteHead PROVE Journal'
<1>1. /\ phase = "write_head" /\ hdr' = lh /\ phase' = "install_trans"
      /\ UNCHANGED <<home, logblk, cache, dirty, lh, outstanding, committing,
                     pc, blk, wrote, tail, panicked>>
  BY DEF WriteHead, buffers, log, calls
<1>2. InOp' = InOp /\ Held' = Held /\ tail = 1
  BY <1>1 DEF InOp, Held, Ind, Loops
<1>3. Absorbed' /\ HeaderOnDisk'
  BY <1>1, <1>2 DEF Journal, Absorbed, HeaderOnDisk
<1>4. Holders'
  BY <1>1, <1>2 DEF Journal, Holders
<1>5. Pinned'
  <2>1. Range(lh) = {lh[i] : i \in 1 .. Len(lh)}
    BY DEF Range, Ind, TypeOK
  <2> QED BY <1>1, <1>2, <2>1 DEF Journal, Pinned
<1>6. Copied'
  BY <1>1, <1>2 DEF Journal, Copied, HeaderOnDisk
<1> QED BY <1>3, <1>4, <1>5, <1>6 DEF Journal

LEMMA InstallTransJournal == ASSUME Ind, Journal, InstallTrans PROVE Journal'
<1>0. Len(lh) \in Nat /\ Len(lh) <= LOGSIZE /\ LOGSIZE \in Nat
  BY IndFacts, LogAssumption
<1>1. /\ phase = "install_trans"
      /\ home' = [home EXCEPT ![lh[tail]] = logblk[tail]]
      /\ cache' = [cache EXCEPT ![lh[tail]] = logblk[tail]]
      /\ dirty' = dirty \ {lh[tail]}
      /\ UNCHANGED <<logblk, hdr, lh, outstanding, committing,
                     pc, blk, wrote, panicked>>
  BY DEF InstallTrans, log, calls
<1>2. /\ tail \in 1 .. Len(lh) /\ DOMAIN lh = 1 .. Len(lh)
      /\ \A i \in 1 .. Len(lh) : lh[i] \in Block
  BY <1>1 DEF Ind, Loops, TypeOK
<1>3. \/ tail < Len(lh) /\ tail' = tail + 1 /\ phase' = "install_trans"
      \/ tail = Len(lh) /\ tail' = 1 /\ phase' = "clear"
  <2>1. IF tail < Len(lh) THEN tail' = tail + 1 /\ phase' = phase
                          ELSE tail' = 1 /\ phase' = "clear"
    BY DEF InstallTrans
  <2>2. tail \in 1 .. Len(lh) /\ Len(lh) \in Nat
    BY <1>0, <1>2
  <2>3. tail < Len(lh) \/ tail = Len(lh)
    BY <2>2
  <2> QED BY <1>1, <2>1, <2>3
<1>4. InOp' = InOp /\ Held' = Held
  BY <1>1 DEF InOp, Held
<1>5. Absorbed' /\ HeaderOnDisk'
  BY <1>1, <1>3, <1>4 DEF Journal, Absorbed, HeaderOnDisk
<1>6. Holders'
  BY <1>1, <1>4 DEF Journal, Holders
<1>7. \A i \in 1 .. Len(lh) : i # tail => lh[i] # lh[tail]
  BY <1>2 DEF Journal, Absorbed
<1>8. Pinned'
  <2>1. \A b \in Block : b \notin dirty' /\ b \notin Held' => cache'[b] = home'[b]
    BY <1>1, <1>2, <1>4 DEF Journal, Pinned, Ind, TypeOK
  <2>2. dirty \subseteq {lh[i] : i \in tail .. Len(lh)}
    BY <1>1 DEF Journal, Pinned
  <2>3. dirty' \subseteq {lh[i] : i \in tail + 1 .. Len(lh)}
    BY <1>0, <1>1, <1>2, <2>2
  <2>4. tail = Len(lh) => dirty' = {}
    BY <1>0, <1>2, <2>3
  <2> QED BY <1>1, <1>3, <2>1, <2>3, <2>4 DEF Pinned
<1>9. \A i \in 1 .. tail : home'[lh[i]] = logblk[i]
  <2>1. \A i \in 1 .. tail - 1 : home[lh[i]] = logblk[i]
    BY <1>1 DEF Journal, Copied
  <2>2. home'[lh[tail]] = logblk[tail]
    BY <1>1, <1>2 DEF Ind, TypeOK
  <2>3. \A i \in 1 .. tail - 1 : home'[lh[i]] = home[lh[i]]
    BY <1>0, <1>1, <1>2, <1>7 DEF Ind, TypeOK
  <2> QED BY <2>1, <2>2, <2>3, <1>2
<1>10. committing => \A i \in 1 .. Len(lh) : logblk[i] = cache'[lh[i]]
  <2>1. committing => \A i \in 1 .. Len(lh) : logblk[i] = cache[lh[i]]
    BY <1>1, <1>2 DEF Journal, Copied
  <2> QED BY <2>1, <1>1, <1>2, <1>7 DEF Ind, TypeOK
<1>11. Copied'
  <2>1. CASE tail' = tail + 1 /\ phase' = "install_trans"
    <3>1. tail' - 1 = tail
      BY <1>2, <2>1
    <3> QED BY <1>1, <1>2, <1>9, <1>10, <2>1, <3>1 DEF Copied
  <2>2. CASE tail = Len(lh) /\ phase' = "clear"
    BY <1>1, <1>2, <1>9, <2>2 DEF Copied
  <2> QED BY <1>3, <2>1, <2>2
<1> QED BY <1>5, <1>6, <1>8, <1>11 DEF Journal

LEMMA ClearLogJournal == ASSUME Ind, Journal, ClearLog PROVE Journal'
<1>1. /\ phase = "clear" /\ lh' = << >> /\ hdr' = << >>
      /\ phase' = IF committing THEN "end_commit" ELSE "run"
      /\ UNCHANGED <<home, logblk, cache, dirty, outstanding, committing,
                     pc, blk, wrote, tail, panicked>>
  BY DEF ClearLog, buffers, calls
<1>2. InOp' = InOp /\ Held' = Held
  BY <1>1 DEF InOp, Held
<1>3. Absorbed' /\ HeaderOnDisk'
  BY <1>1 DEF Absorbed, HeaderOnDisk
<1>4. Holders'
  BY <1>1, <1>2 DEF Journal, Holders
<1>5. Pinned'
  BY <1>1, <1>2 DEF Journal, Pinned
<1>6. Copied'
  BY <1>1 DEF Copied
<1> QED BY <1>3, <1>4, <1>5, <1>6 DEF Journal

LEMMA EndCommitJournal == ASSUME Ind, Journal, EndCommit PROVE Journal'
<1>1. /\ phase = "end_commit" /\ committing' = FALSE /\ phase' = "run"
      /\ pc' = Wakeup([p \in Proc |-> IF pc[p] = "commit" THEN "user" ELSE pc[p]])
      /\ UNCHANGED <<home, logblk, hdr, cache, dirty, lh, outstanding,
                     blk, wrote, tail, panicked>>
  BY DEF EndCommit, disk, buffers
<1>2. InOp' = InOp
  BY <1>1 DEF InOp, Ind, TypeOK, Wakeup
<1>3. Held' = Held
  BY <1>1 DEF Held
<1>4. Absorbed'
  BY <1>1 DEF Journal, Absorbed
<1>5. HeaderOnDisk'
  BY <1>1, <1>2 DEF Journal, HeaderOnDisk
<1>6. Holders'
  BY <1>1, <1>2 DEF Journal, Holders, Ind, TypeOK, Wakeup
<1>7. Pinned'
  BY <1>1, <1>3 DEF Journal, Pinned
<1>8. Copied'
  BY <1>1 DEF Copied
<1> QED BY <1>4, <1>5, <1>6, <1>7, <1>8 DEF Journal

LEMMA ReadHeadJournal == ASSUME Ind, Journal, ReadHead PROVE Journal'
<1>1. /\ phase = "read_head" /\ lh' = hdr
      /\ phase' = IF hdr = << >> THEN "clear" ELSE "install_trans"
      /\ UNCHANGED <<home, logblk, hdr, cache, dirty, outstanding, committing,
                     pc, blk, wrote, tail, panicked>>
  BY DEF ReadHead, disk, buffers, calls
<1>2. InOp' = InOp /\ Held' = Held /\ tail = 1 /\ ~committing
  BY <1>1 DEF InOp, Held, Ind, Loops, Control
<1>3. Absorbed' /\ HeaderOnDisk'
  BY <1>1, <1>2 DEF Journal, Absorbed, HeaderOnDisk
<1>4. Holders'
  BY <1>1, <1>2 DEF Journal, Holders
<1>5. Pinned'
  BY <1>1, <1>2 DEF Journal, Pinned
<1>6. Copied'
  BY <1>1, <1>2 DEF Copied
<1> QED BY <1>3, <1>4, <1>5, <1>6 DEF Journal

LEMMA CrashJournal == ASSUME Ind, Journal, Crash PROVE Journal'
<1>1. /\ cache' = home /\ dirty' = {} /\ lh' = << >> /\ committing' = FALSE
      /\ pc' = [p \in Proc |-> "user"] /\ blk' = [p \in Proc |-> NoBlock]
      /\ phase' = "read_head" /\ home' = home /\ hdr' = hdr
  BY DEF Crash, disk
<1>2. InOp' = {} /\ Held' = {}
  BY <1>1 DEF InOp, Held
<1>3. Absorbed' /\ HeaderOnDisk'
  BY <1>1 DEF Journal, Absorbed, HeaderOnDisk
<1>4. Holders'
  BY <1>1 DEF Holders
<1>5. Pinned'
  BY <1>1 DEF Pinned
<1>6. Copied'
  BY <1>1 DEF Copied
<1> QED BY <1>3, <1>4, <1>5, <1>6 DEF Journal

LEMMA NextJournal == Ind /\ Journal /\ [Next]_vars => Journal'
<1> SUFFICES ASSUME Ind, Journal, [Next]_vars PROVE Journal'
  OBVIOUS
<1>1. CASE ~panicked /\ \E p \in Proc : Call(p)
  BY <1>1, BeginOpJournal, KillJournal, ModifyBlockJournal, LogWriteJournal,
     WriteiBwriteJournal, EndOpJournal DEF Call
<1>2. CASE Committer
  BY <1>2, WriteLogJournal, WriteHeadJournal, InstallTransJournal,
     ClearLogJournal, EndCommitJournal, ReadHeadJournal DEF Committer
<1>3. CASE Crash
  BY <1>3, CrashJournal
<1>4. CASE UNCHANGED vars \/ \E b \in Block : Evict(b)
  <2>1. UNCHANGED <<home, logblk, hdr, cache, dirty, lh, committing,
                    pc, blk, phase, tail, panicked>>
    BY <1>4, EvictSame DEF vars
  <2>2. InOp' = InOp
    BY <2>1 DEF InOp
  <2>3. Holders'
    BY <2>1, <2>2 DEF Journal, Holders
  <2> QED BY <2>1, <2>2, <2>3, SameJournal DEF Journal
<1> QED BY <1>1, <1>2, <1>3, <1>4 DEF Next

-----------------------------------------------------------------------------
(* What recovery would produce. *)

Replayed ==
    /\ Recovered \in [Block -> Val]
    /\ \A i \in DOMAIN hdr : Recovered[hdr[i]] = logblk[i]
    /\ \A b \in Block : b \notin Range(hdr) => Recovered[b] = home[b]

LEMMA RecoveredIs == Ind /\ Journal => Replayed
<1> SUFFICES ASSUME Ind, Journal PROVE Replayed
  OBVIOUS
<1> USE LogAssumption
<1>1. DOMAIN hdr = 1 .. Len(hdr) /\ Len(hdr) \in Nat /\ Len(hdr) <= LOGSIZE
  BY DEF Ind, TypeOK, Loops
<1>2. \A i \in DOMAIN hdr : hdr[i] \in Block /\ logblk[i] \in Val
  BY <1>1 DEF Ind, TypeOK
<1>3. ASSUME NEW i \in DOMAIN hdr
      PROVE  Recovered[hdr[i]] = logblk[i]
  <2>1. hdr[i] \in Block /\ hdr[i] \in Range(hdr)
    BY <1>2 DEF Range
  <2>2. (CHOOSE j \in DOMAIN hdr : hdr[j] = hdr[i]) = i
    BY DEF Journal, Absorbed
  <2> QED BY <2>1, <2>2 DEF Recovered
<1>4. ASSUME NEW b \in Block PROVE Recovered[b] \in Val
  <2>1. CASE b \in Range(hdr)
    <3>1. PICK i \in DOMAIN hdr : hdr[i] = b
      BY <2>1 DEF Range
    <3> QED BY <3>1, <1>2, <1>3
  <2>2. CASE b \notin Range(hdr)
    BY <2>2 DEF Recovered, Ind, TypeOK
  <2> QED BY <2>1, <2>2
<1>5. Recovered = [b \in Block |-> Recovered[b]]
  BY DEF Recovered
<1>6. Recovered \in [Block -> Val]
  BY <1>4, <1>5
<1>7. \A b \in Block : b \notin Range(hdr) => Recovered[b] = home[b]
  BY DEF Recovered
<1> QED BY <1>3, <1>6, <1>7 DEF Replayed

LEMMA RecoveredNext == (Ind /\ Journal => Replayed)'
  BY RecoveredIs, PTL

(* With an empty header, recovery changes nothing. *)
LEMMA RecoveredHome ==
    ASSUME Ind, Journal, hdr = << >> PROVE Recovered = home
<1>1. Range(hdr) = {}
  BY DEF Range
<1> QED BY <1>1, RecoveredIs DEF Replayed, Ind, TypeOK

(* When no buffer is pinned or locked, the cache agrees with the disk. *)
LEMMA CleanCache ==
    ASSUME Ind, Journal, InOp = {}, dirty = {} PROVE cache = home
<1>1. Held = {}
  BY DEF Held, Journal, Holders
<1> QED BY <1>1 DEF Journal, Pinned, Ind, TypeOK

(* When no call is running and no commit is in progress, everything the
   finished calls wrote would survive a crash: end_op returns to the last of
   a group of calls only after the installation. *)
THEOREM DurableWhenIdle == Spec => []IdleIsDurable
<1>1. Ind /\ Journal => IdleIsDurable
  <2> SUFFICES ASSUME Ind, Journal, Booted, ~committing, InOp = {}
               PROVE  Recovered = cache
    BY DEF IdleIsDurable
  <2>1. phase = "run" /\ hdr = << >> /\ lh = << >>
    BY DEF Booted, Journal, HeaderOnDisk
  <2>2. dirty = {}
    BY <2>1 DEF Journal, Pinned, Range
  <2> QED BY <2>1, <2>2, RecoveredHome, CleanCache
<1> QED BY <1>1, InitInd, NextInd, InitJournal, NextJournal, PTL DEF Spec

-----------------------------------------------------------------------------
(* The refinement, step by step. *)

(* What the kernel reads: the cache once it has booted, before that what
   recovery is about to produce. *)
Mem == IF Booted THEN cache ELSE Recovered

LEMMA InitRefines == ASSUME Ind, Journal, Init PROVE Disk!AInit
<1>1. InOp = {} /\ ~Booted
  BY DEF Init, InOp, Booted
<1> QED BY <1>1, RecoveredIs DEF Replayed, Disk!AInit

(* A step that leaves the disk's contents and the active calls alone. *)
LEMMA Stutter ==
    ASSUME Recovered' = Recovered, Mem' = Mem, InOp' = InOp
    PROVE  UNCHANGED Disk!avars
  BY DEF Disk!avars, Mem

(* The real commit: one write of the header makes the cache durable. *)
LEMMA WriteHeadRefines == ASSUME Ind, Journal, WriteHead PROVE Disk!Commit
<1>1. /\ phase = "write_head" /\ hdr' = lh /\ phase' = "install_trans"
      /\ UNCHANGED <<home, logblk, cache, dirty, lh, committing, pc, blk>>
  BY DEF WriteHead, buffers, log, calls
<1>2. Ind' /\ Journal'
  <2>1. Ind'
    BY CommitterInd DEF Committer
  <2> QED BY <2>1, WriteHeadJournal
<1>3. committing /\ committing' /\ InOp = {} /\ InOp' = InOp
  BY <1>1 DEF Journal, HeaderOnDisk, Ind, Control, InOp
<1>4. Held = {}
  BY <1>3 DEF Held, Journal, Holders
<1>5. /\ Recovered' \in [Block -> Val]
      /\ \A i \in DOMAIN lh : Recovered'[lh[i]] = logblk[i]
      /\ \A b \in Block : b \notin Range(lh) => Recovered'[b] = home[b]
  BY <1>1, <1>2, RecoveredNext DEF Replayed
<1>6. ASSUME NEW b \in Block PROVE Recovered'[b] = cache[b]
  <2>1. CASE b \in Range(lh)
    <3>1. PICK i \in DOMAIN lh : lh[i] = b
      BY <2>1 DEF Range
    <3>2. logblk[i] = cache[lh[i]]
      BY <1>1, <1>3 DEF Journal, Copied
    <3> QED BY <3>1, <3>2, <1>5
  <2>2. CASE b \notin Range(lh)
    <3>1. b \notin dirty
      BY <1>1, <2>2 DEF Journal, Pinned
    <3> QED BY <3>1, <2>2, <1>4, <1>5 DEF Journal, Pinned
  <2> QED BY <2>1, <2>2
<1>7. Recovered' = cache
  BY <1>5, <1>6 DEF Ind, TypeOK
<1> QED BY <1>1, <1>3, <1>7 DEF Disk!Commit, Booted

LEMMA SameDisk == ASSUME UNCHANGED <<home, logblk, hdr>> PROVE Recovered' = Recovered
  BY DEF Recovered

(* The installation changes home blocks that the header still lists. *)
LEMMA InstallTransRefines ==
    ASSUME Ind, Journal, InstallTrans
    PROVE  Recovered' = Recovered /\ Mem' = Mem /\ InOp' = InOp
<1>1. /\ phase = "install_trans"
      /\ phase' \in {"install_trans", "clear"}
      /\ home' = [home EXCEPT ![lh[tail]] = logblk[tail]]
      /\ cache' = [cache EXCEPT ![lh[tail]] = logblk[tail]]
      /\ UNCHANGED <<logblk, hdr, lh, committing, pc>>
  BY DEF InstallTrans, log, calls
<1>2. tail \in DOMAIN lh /\ hdr = lh
  BY <1>1 DEF Ind, Loops, TypeOK, Journal, HeaderOnDisk
<1>3. \A b \in Block : b \notin Range(hdr) => home'[b] = home[b]
  BY <1>1, <1>2 DEF Range, Ind, TypeOK
<1>4. Recovered' = Recovered
  BY <1>1, <1>3 DEF Recovered
<1>5. committing => cache' = cache
  <2>1. committing => logblk[tail] = cache[lh[tail]]
    BY <1>1, <1>2 DEF Journal, Copied
  <2> QED BY <1>1, <2>1 DEF Ind, TypeOK
<1>6. InOp' = InOp
  BY <1>1 DEF InOp
<1> QED BY <1>1, <1>4, <1>5, <1>6 DEF Mem, Booted

(* Clearing the header loses nothing: everything it lists has been installed. *)
LEMMA ClearLogRefines ==
    ASSUME Ind, Journal, ClearLog
    PROVE  Recovered' = Recovered /\ Mem' = Mem /\ InOp' = InOp
<1>1. /\ phase = "clear" /\ hdr' = << >>
      /\ phase' = IF committing THEN "end_commit" ELSE "run"
      /\ UNCHANGED <<home, logblk, cache, dirty, committing, pc>>
  BY DEF ClearLog, buffers, calls
<1>2. hdr = lh /\ dirty = {} /\ InOp = {}
  BY <1>1 DEF Journal, HeaderOnDisk, Pinned, Ind, Control
<1>3. Recovered = home
  <2>1. ASSUME NEW b \in Block PROVE Recovered[b] = home[b]
    <3>1. CASE b \in Range(hdr)
      <4>1. PICK i \in DOMAIN hdr : hdr[i] = b
        BY <3>1 DEF Range
      <4>2. home[hdr[i]] = logblk[i]
        BY <1>1, <1>2 DEF Journal, Copied
      <4> QED BY <4>1, <4>2, RecoveredIs DEF Replayed
    <3>2. CASE b \notin Range(hdr)
      BY <3>2, RecoveredIs DEF Replayed
    <3> QED BY <3>1, <3>2
  <2> QED BY <2>1, RecoveredIs DEF Replayed, Ind, TypeOK
<1>4. Recovered' = home
  <2>1. Range(hdr') = {}
    BY <1>1 DEF Range
  <2> QED BY <1>1, <2>1 DEF Recovered, Ind, TypeOK
<1>5. cache = home
  BY <1>2, CleanCache
<1>6. InOp' = InOp
  BY <1>1 DEF InOp
<1> QED BY <1>1, <1>3, <1>4, <1>5, <1>6 DEF Mem, Booted

LEMMA CommitterRefines ==
    ASSUME Ind, Journal, Committer PROVE [Disk!ANext]_(Disk!avars)
<1>1. CASE WriteLog
  <2>1. /\ phase = "write_log" /\ UNCHANGED <<home, hdr, cache, committing, pc>>
    BY <1>1 DEF WriteLog, buffers, log, calls
  <2>2. hdr = << >> /\ committing
    BY <2>1 DEF Journal, HeaderOnDisk
  <2>3. Recovered' = Recovered
    BY <2>1, <2>2 DEF Recovered, Range
  <2>4. Mem' = Mem /\ InOp' = InOp
    BY <2>1, <2>2 DEF Mem, Booted, InOp
  <2> QED BY <2>3, <2>4, Stutter
<1>2. CASE WriteHead
  BY <1>2, WriteHeadRefines DEF Disk!ANext
<1>3. CASE InstallTrans
  BY <1>3, InstallTransRefines, Stutter
<1>4. CASE ClearLog
  BY <1>4, ClearLogRefines, Stutter
<1>5. CASE EndCommit
  <2>1. /\ phase = "end_commit" /\ phase' = "run"
        /\ pc' = Wakeup([p \in Proc |-> IF pc[p] = "commit" THEN "user" ELSE pc[p]])
        /\ UNCHANGED <<home, logblk, hdr, cache>>
    BY <1>5 DEF EndCommit, disk, buffers
  <2>2. committing
    BY <2>1 DEF Journal, HeaderOnDisk
  <2>3. InOp' = InOp
    BY <2>1 DEF InOp, Ind, TypeOK, Wakeup
  <2>4. Mem' = Mem
    BY <2>1, <2>2 DEF Mem, Booted
  <2> QED BY <2>1, <2>3, <2>4, SameDisk, Stutter
<1>6. CASE ReadHead
  <2>1. /\ phase = "read_head" /\ phase' \in {"clear", "install_trans"}
        /\ UNCHANGED <<home, logblk, hdr, cache, committing, pc>>
    BY <1>6 DEF ReadHead, disk, buffers, calls
  <2>2. ~committing
    BY <2>1 DEF Ind, Control
  <2>3. Recovered' = Recovered
    BY <2>1, SameDisk
  <2>4. Mem' = Mem /\ InOp' = InOp
    BY <2>1, <2>2, <2>3 DEF Mem, Booted, InOp
  <2> QED BY <2>3, <2>4, Stutter
<1> QED BY <1>1, <1>2, <1>3, <1>4, <1>5, <1>6 DEF Committer

LEMMA CallRefines ==
    ASSUME NEW p \in Proc, Ind, Journal, ~panicked, ~WriteThrough, Call(p)
    PROVE  [Disk!ANext]_(Disk!avars)
<1>1. CASE BeginOp(p)
  <2>1. /\ UNCHANGED <<home, logblk, hdr, cache, committing, phase>>
        /\ pc[p] \in {"user", "woken"}
        /\ \/ pc' = [pc EXCEPT ![p] = "sleeping"]
           \/ pc' = [pc EXCEPT ![p] = "fs"]
    BY <1>1 DEF BeginOp, disk, buffers
  <2>2. Recovered' = Recovered
    BY <2>1, SameDisk
  <2>3. Mem' = Mem
    BY <2>1, <2>2 DEF Mem, Booted
  <2>4. InOp' = InOp \/ (p \notin InOp /\ InOp' = InOp \cup {p})
    BY <2>1 DEF InOp, Ind, TypeOK
  <2>5. CASE InOp' = InOp
    BY <2>2, <2>3, <2>5, Stutter
  <2>6. CASE p \notin InOp /\ InOp' = InOp \cup {p}
    <3>1. Disk!Begin(p)
      BY <2>2, <2>3, <2>6 DEF Disk!Begin, Mem
    <3> QED BY <3>1 DEF Disk!ANext
  <2> QED BY <2>4, <2>5, <2>6
<1>2. CASE Kill(p)
  <2>1. /\ UNCHANGED <<home, logblk, hdr, cache, committing, phase>>
        /\ pc[p] = "sleeping" /\ pc' = [pc EXCEPT ![p] = "woken"]
    BY <1>2 DEF Kill, disk, buffers, log
  <2>2. Recovered' = Recovered
    BY <2>1, SameDisk
  <2>3. Mem' = Mem
    BY <2>1, <2>2 DEF Mem, Booted
  <2>4. InOp' = InOp
    BY <2>1 DEF InOp, Ind, TypeOK
  <2> QED BY <2>2, <2>3, <2>4, Stutter
<1>3. ASSUME NEW b \in Block, NEW v \in Val, ModifyBlock(p, b, v)
      PROVE  Disk!Update(p, b, v)
  <2>1. /\ UNCHANGED <<home, logblk, hdr, committing, phase>>
        /\ cache' = [cache EXCEPT ![b] = v]
        /\ pc[p] = "fs"
        /\ pc' = pc \/ pc' = [pc EXCEPT ![p] = "log_write"]
    BY <1>3 DEF ModifyBlock, disk, log
  <2>2. p \in InOp /\ phase = "run"
    BY <2>1, IndFacts
  <2>3. InOp' = InOp
    BY <2>1 DEF InOp, Ind, TypeOK
  <2>4. Recovered' = Recovered
    BY <2>1, SameDisk
  <2>5. Booted /\ Booted'
    BY <2>1, <2>2 DEF Booted
  <2> QED BY <2>1, <2>2, <2>3, <2>4, <2>5 DEF Disk!Update
<1>4. CASE LogWrite(p)
  <2>1. /\ UNCHANGED <<home, logblk, hdr, cache, committing, phase>>
        /\ pc[p] = "log_write"
        /\ \/ pc' = [pc EXCEPT ![p] = "fs"]
           \/ pc' = [pc EXCEPT ![p] = "bwrite"]
    BY <1>4 DEF LogWrite, disk
  <2>2. Recovered' = Recovered
    BY <2>1, SameDisk
  <2>3. Mem' = Mem
    BY <2>1, <2>2 DEF Mem, Booted
  <2>4. InOp' = InOp
    BY <2>1 DEF InOp, Ind, TypeOK
  <2> QED BY <2>2, <2>3, <2>4, Stutter
<1>5. ~WriteiBwrite(p)
  BY DEF WriteiBwrite, Journal, Holders
<1>6. CASE EndOp(p)
  <2>1. /\ UNCHANGED <<home, logblk, hdr, cache>> /\ pc[p] = "fs"
    BY <1>6 DEF EndOp, disk, buffers
  <2>2. p \in InOp /\ phase = "run" /\ ~committing
    BY <2>1, IndFacts
  <2>3. /\ \/ committing' = TRUE /\ pc' = [pc EXCEPT ![p] = "commit"]
           \/ phase' = phase /\ pc' = Wakeup([pc EXCEPT ![p] = "user"])
    BY <1>6 DEF EndOp
  <2>4. InOp' = InOp \ {p}
    BY <2>3 DEF InOp, Ind, TypeOK, Wakeup
  <2>5. Booted /\ Booted'
    BY <2>2, <2>3 DEF Booted
  <2>6. Recovered' = Recovered
    BY <2>1, SameDisk
  <2>7. Disk!End(p)
    BY <2>1, <2>2, <2>4, <2>5, <2>6 DEF Disk!End
  <2> QED BY <2>7 DEF Disk!ANext
<1>7. CASE \E b \in Block, v \in Val : ModifyBlock(p, b, v)
  BY <1>3, <1>7 DEF Disk!ANext
<1> QED BY <1>1, <1>2, <1>4, <1>5, <1>6, <1>7 DEF Call

LEMMA NextRefines ==
    ASSUME ~WriteThrough
    PROVE  Ind /\ Journal /\ [Next]_vars => [Disk!ANext]_(Disk!avars)
<1> SUFFICES ASSUME Ind, Journal, [Next]_vars PROVE [Disk!ANext]_(Disk!avars)
  OBVIOUS
<1>1. CASE ~panicked /\ \E p \in Proc : Call(p)
  BY <1>1, CallRefines
<1>2. CASE Committer
  BY <1>2, CommitterRefines
<1>3. CASE Crash
  <2>1. /\ UNCHANGED <<home, logblk, hdr>> /\ phase' = "read_head"
        /\ committing' = FALSE /\ pc' = [p \in Proc |-> "user"]
    BY <1>3 DEF Crash, disk
  <2>2. Recovered' = Recovered
    BY <2>1, SameDisk
  <2>3. InOp' = {} /\ ~Booted'
    BY <2>1 DEF InOp, Booted
  <2>4. Disk!Crash
    BY <2>2, <2>3 DEF Disk!Crash
  <2> QED BY <2>4 DEF Disk!ANext
<1>4. CASE UNCHANGED vars \/ \E b \in Block : Evict(b)
  <2>1. UNCHANGED <<home, logblk, hdr, cache, committing, pc, phase>>
    BY <1>4, EvictSame DEF vars
  <2>2. Recovered' = Recovered
    BY <2>1, SameDisk
  <2>3. Mem' = Mem /\ InOp' = InOp
    BY <2>1, <2>2 DEF Mem, Booted, InOp
  <2> QED BY <2>2, <2>3, Stutter
<1> QED BY <1>1, <1>2, <1>3, <1>4 DEF Next

(* Crash atomicity: without project_4's extra bwrite in writei, the log of
   log.c implements the atomic disk, whatever the number of calls, blocks and
   crashes and wherever in commit() or in recovery a crash comes. *)
THEOREM LogIsAtomic ==
    ASSUME ~WriteThrough
    PROVE  Spec => AtomicAcrossCrashes
<1>1. Init => Disk!AInit
  BY InitInd, InitJournal, InitRefines
<1>2. Ind /\ Journal /\ [Next]_vars => [Disk!ANext]_(Disk!avars)
  BY NextRefines
<1> QED BY <1>1, <1>2, InitInd, NextInd, InitJournal, NextJournal, PTL
        DEF Spec, AtomicAcrossCrashes, Disk!ASpec

(* What would survive a crash never changes while a call is in the middle of
   its updates, which is what the comment at the head of log.c promises; the
   extra bwrite of project_4's writei is exactly what this theorem excludes. *)
THEOREM UncommittedStaysOffDisk ==
    ASSUME ~WriteThrough
    PROVE  Spec => NoUncommittedUpdateOnDisk
<1>1. Ind /\ Journal /\ [Next]_vars => [InOp # {} => Recovered' = Recovered]_vars
  <2> SUFFICES ASSUME Ind, Journal, [Next]_vars, InOp # {}
               PROVE  Recovered' = Recovered
    OBVIOUS
  <2>1. [Disk!ANext]_(Disk!avars)
    BY NextRefines
  <2>2. CASE UNCHANGED Disk!avars
    BY <2>2 DEF Disk!avars
  <2>3. CASE Disk!ANext
    BY <2>3 DEF Disk!ANext, Disk!Begin, Disk!End, Disk!Update, Disk!Commit, Disk!Crash
  <2> QED BY <2>1, <2>2, <2>3
<1> QED BY <1>1, InitInd, NextInd, InitJournal, NextJournal, PTL
        DEF Spec, NoUncommittedUpdateOnDisk
=============================================================================
