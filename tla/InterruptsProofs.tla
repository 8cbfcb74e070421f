-------------------------- MODULE InterruptsProofs ---------------------------
(***************************************************************************)
(* Proofs about two of the components of MCInterrupts.                     *)
(*                                                                         *)
(* Spinlock, for every number of processors, processes and spin locks and  *)
(* every lock order: mutual exclusion, the counting of pushcli, the        *)
(* masking of interrupts, and that no panic of acquire, release, popcli or *)
(* sched is reachable.                                                     *)
(*                                                                         *)
(* The clock, for any number of processors and processes and a counter of  *)
(* any width: sleep(n) lasts n ticks, no sleeper misses its tick, and      *)
(* every tick is charged once.                                             *)
(***************************************************************************)
EXTENDS MCInterrupts, FiniteSetTheorems, TLAPS

(***************************************************************************)
(* Spin locks                                                              *)
(***************************************************************************)

Place(c) == pc[cur[c]][FrameOf(cur[c])]

(* A frame, also one that does not run: a lock being acquired comes after all
   the locks it holds, a lock being recorded or released is held, and pushcli
   has saved what the interrupt flag was for this frame.  The scheduler takes
   no lock but ptable.lock. *)
FrameOK(t, f) ==
    /\ IsFiniteSet(held[t][f])
    /\ pc[t][f] \in {"cli", "xchg"} =>
          lk[t][f] \in Lock /\ \A h \in held[t][f] : Rank[h] < Rank[lk[t][f]]
    /\ pc[t][f] \in {"record", "unlock"} => lk[t][f] \in held[t][f]
    /\ pc[t][f] = "loop" => held[t][f] = {}
    /\ pc[t][f] = "cli" /\ f = "intr" => ~eflags[t][f]
    /\ pc[t][f] = "cli" /\ f = "base" /\ t \in Proc =>
          ~fresh[t] /\ (held[t][f] = {} => eflags[t][f])
    /\ t \in Cpu /\ f = "base" =>
          /\ held[t][f] \subseteq {ptable}
          /\ pc[t][f] \in {"cli", "xchg"} => lk[t][f] = ptable
          /\ pc[t][f] = "popcli" => held[t][f] = {}

Frames == \A t \in Thread, f \in Frame : FrameOK(t, f)

(* An interrupt comes only between two critical sections of the code below,
   and a handler returns with no lock. *)
Stacks ==
    \A t \in Thread :
        /\ ~intr[t] => held[t]["intr"] = {}
        /\ intr[t] => held[t]["base"] = {} /\ pc[t]["base"] \in {"loop", "run", "cli"}

(* A CPU runs its own scheduler or a process, and no two the same. *)
Running ==
    /\ \A c \in Cpu : cur[c] = c \/ cur[c] \in Proc
    /\ \A c, d \in Cpu : c # d => cur[c] # cur[d]

(* A stack that no CPU runs is inside swtch, and believes that it holds
   ptable.lock; its intena is in the local variable of sched(). *)
Parked ==
    \A t \in Thread : (\A c \in Cpu : cur[c] # t) =>
        /\ pc[t][FrameOf(t)] = "run" /\ held[t][FrameOf(t)] = {ptable}
        /\ t \in Cpu => ~intr[t]
        /\ t \in Proc /\ (fresh[t] => intr[t]) => (saved[t] <=> ~intr[t])

(* The interrupt flag, intena and ncli of a CPU, against the code it runs. *)
MaskOK(c) ==
    /\ HeldOn(c) # {} \/ intr[cur[c]]
          \/ Place(c) \in {"xchg", "record", "unlock", "popcli"} => ~iflag[c]
    /\ cur[c] \in Proc /\ ~fresh[cur[c]] /\ ~intr[cur[c]]
          /\ HeldOn(c) = {} /\ Place(c) \in {"run", "cli"} => iflag[c]
    /\ ncli[c] # 0 /\ intr[cur[c]] => ~intena[c]
    /\ ncli[c] # 0 /\ cur[c] \in Proc /\ ~fresh[cur[c]] /\ ~intr[cur[c]] => intena[c]

CountOK(c) ==
    ncli[c] = Cardinality(HeldOn(c)) + (IF Place(c) \in {"xchg", "popcli"} THEN 1 ELSE 0)

Masks == \A c \in Cpu : MaskOK(c) /\ CountOK(c)

(* The lock words, against the code that runs on the CPUs. *)
LockedIsHeld == \A l \in Lock : locked[l] <=> \E c \in Cpu : l \in HeldOn(c)

OwnerHolds ==
    \A l \in Lock, c \in Cpu :
        owner[l] = c <=> /\ l \in HeldOn(c)
                         /\ Place(c) \in {"record", "unlock"} => LockOf(c) # l

(* The inductive invariant. *)
Ind == /\ TypeOK /\ Frames /\ Stacks /\ Running /\ Parked /\ Masks
       /\ LockedIsHeld /\ OwnerHolds /\ MutualExclusion /\ NoLockPanic

-----------------------------------------------------------------------------
(* What an assignment through Set changes: the frame that runs on c. *)
LEMMA SetPc ==
    ASSUME TypeOK, NEW c \in Cpu, NEW v \in PCs, pc' = Set(pc, c, v)
    PROVE  /\ pc' \in [Thread -> [Frame -> PCs]]
           /\ \A u \in Thread, f \in Frame :
                 pc'[u][f] = IF u = cur[c] /\ f = FrameOf(cur[c]) THEN v ELSE pc[u][f]
<1>1. cur[c] \in Thread /\ FrameOf(cur[c]) \in Frame
  BY DEF TypeOK, FrameOf, Frame
<1>2. pc \in [Thread -> [Frame -> PCs]] /\ pc[cur[c]] \in [Frame -> PCs]
  BY <1>1 DEF TypeOK
<1>3. [pc[cur[c]] EXCEPT ![FrameOf(cur[c])] = v] \in [Frame -> PCs]
  BY <1>1, <1>2
<1>4. pc' = [pc EXCEPT ![cur[c]] = [pc[cur[c]] EXCEPT ![FrameOf(cur[c])] = v]]
  BY DEF Set
<1> QED
  BY <1>1, <1>2, <1>3, <1>4

LEMMA SetLk ==
    ASSUME TypeOK, NEW c \in Cpu, NEW v \in (Lock \cup {NoLock}), lk' = Set(lk, c, v)
    PROVE  /\ lk' \in [Thread -> [Frame -> (Lock \cup {NoLock})]]
           /\ \A u \in Thread, f \in Frame :
                 lk'[u][f] = IF u = cur[c] /\ f = FrameOf(cur[c]) THEN v ELSE lk[u][f]
<1>1. cur[c] \in Thread /\ FrameOf(cur[c]) \in Frame
  BY DEF TypeOK, FrameOf, Frame
<1>2. /\ lk \in [Thread -> [Frame -> (Lock \cup {NoLock})]]
      /\ lk[cur[c]] \in [Frame -> (Lock \cup {NoLock})]
  BY <1>1 DEF TypeOK
<1>3. [lk[cur[c]] EXCEPT ![FrameOf(cur[c])] = v] \in [Frame -> (Lock \cup {NoLock})]
  BY <1>1, <1>2
<1>4. lk' = [lk EXCEPT ![cur[c]] = [lk[cur[c]] EXCEPT ![FrameOf(cur[c])] = v]]
  BY DEF Set
<1> QED
  BY <1>1, <1>2, <1>3, <1>4

LEMMA SetEflags ==
    ASSUME TypeOK, NEW c \in Cpu, NEW v \in BOOLEAN, eflags' = Set(eflags, c, v)
    PROVE  /\ eflags' \in [Thread -> [Frame -> BOOLEAN]]
           /\ \A u \in Thread, f \in Frame :
                 eflags'[u][f] = IF u = cur[c] /\ f = FrameOf(cur[c]) THEN v ELSE eflags[u][f]
<1>1. cur[c] \in Thread /\ FrameOf(cur[c]) \in Frame
  BY DEF TypeOK, FrameOf, Frame
<1>2. eflags \in [Thread -> [Frame -> BOOLEAN]] /\ eflags[cur[c]] \in [Frame -> BOOLEAN]
  BY <1>1 DEF TypeOK
<1>3. [eflags[cur[c]] EXCEPT ![FrameOf(cur[c])] = v] \in [Frame -> BOOLEAN]
  BY <1>1, <1>2
<1>4. eflags' = [eflags EXCEPT ![cur[c]] = [eflags[cur[c]] EXCEPT ![FrameOf(cur[c])] = v]]
  BY DEF Set
<1> QED
  BY <1>1, <1>2, <1>3, <1>4

LEMMA SetHeld ==
    ASSUME TypeOK, NEW c \in Cpu, NEW v \in SUBSET Lock, held' = Set(held, c, v)
    PROVE  /\ held' \in [Thread -> [Frame -> SUBSET Lock]]
           /\ \A u \in Thread, f \in Frame :
                 held'[u][f] = IF u = cur[c] /\ f = FrameOf(cur[c]) THEN v ELSE held[u][f]
<1>1. cur[c] \in Thread /\ FrameOf(cur[c]) \in Frame
  BY DEF TypeOK, FrameOf, Frame
<1>2. held \in [Thread -> [Frame -> SUBSET Lock]] /\ held[cur[c]] \in [Frame -> SUBSET Lock]
  BY <1>1 DEF TypeOK
<1>3. [held[cur[c]] EXCEPT ![FrameOf(cur[c])] = v] \in [Frame -> SUBSET Lock]
  BY <1>1, <1>2
<1>4. held' = [held EXCEPT ![cur[c]] = [held[cur[c]] EXCEPT ![FrameOf(cur[c])] = v]]
  BY DEF Set
<1> QED
  BY <1>1, <1>2, <1>3, <1>4

(* The frame that runs on a CPU, with its place and the lock it works on. *)
LEMMA Current ==
    ASSUME TypeOK, NEW c \in Cpu
    PROVE  /\ cur[c] \in Thread /\ FrameOf(cur[c]) \in Frame
           /\ intr[cur[c]] \in BOOLEAN /\ fresh[cur[c]] \in BOOLEAN
           /\ FrameOf(cur[c]) = "intr" <=> intr[cur[c]]
           /\ FrameOf(cur[c]) = "base" <=> ~intr[cur[c]]
           /\ HeldOn(c) \in SUBSET Lock
           /\ Place(c) \in PCs
           /\ LockOf(c) \in Lock \cup {NoLock}
           /\ \A place : At(c, place) <=> Place(c) = place
           /\ ncli[c] \in Nat /\ iflag[c] \in BOOLEAN /\ intena[c] \in BOOLEAN
<1>1. /\ cur[c] \in Thread /\ FrameOf(cur[c]) \in Frame
      /\ FrameOf(cur[c]) = "intr" <=> intr[cur[c]]
      /\ FrameOf(cur[c]) = "base" <=> ~intr[cur[c]]
  BY DEF TypeOK, FrameOf, Frame
<1>2. /\ intr[cur[c]] \in BOOLEAN /\ fresh[cur[c]] \in BOOLEAN
      /\ ncli[c] \in Nat /\ iflag[c] \in BOOLEAN /\ intena[c] \in BOOLEAN
  BY <1>1 DEF TypeOK
<1>3. HeldOn(c) \in SUBSET Lock
  BY <1>1 DEF TypeOK, HeldOn
<1>4. Place(c) \in PCs
  BY <1>1 DEF TypeOK, Place
<1>5. LockOf(c) \in Lock \cup {NoLock}
  BY <1>1 DEF TypeOK, LockOf
<1>6. \A place : At(c, place) <=> Place(c) = place
  BY DEF At, Place
<1> QED
  BY <1>1, <1>2, <1>3, <1>4, <1>5, <1>6

-----------------------------------------------------------------------------
(* A step of the code that runs on c, which neither switches stacks nor enters
   or leaves a handler: it changes its own frame and its own CPU. *)
Local(c) ==
    /\ cur' = cur /\ intr' = intr /\ fresh' = fresh /\ saved' = saved
    /\ \A u \in Thread, f \in Frame : u # cur[c] \/ f # FrameOf(cur[c]) =>
          /\ pc'[u][f] = pc[u][f] /\ lk'[u][f] = lk[u][f]
          /\ eflags'[u][f] = eflags[u][f] /\ held'[u][f] = held[u][f]
    /\ \A d \in Cpu : d # c =>
          iflag'[d] = iflag[d] /\ ncli'[d] = ncli[d] /\ intena'[d] = intena[d]

(* The other CPUs see nothing of it. *)
LEMMA LocalOthers ==
    ASSUME Ind, NEW c \in Cpu, Local(c)
    PROVE  /\ \A d \in Cpu : d # c =>
                 HeldOn(d)' = HeldOn(d) /\ Place(d)' = Place(d) /\ LockOf(d)' = LockOf(d)
           /\ HeldOn(c)' = held'[cur[c]][FrameOf(cur[c])]
           /\ Place(c)' = pc'[cur[c]][FrameOf(cur[c])]
           /\ LockOf(c)' = lk'[cur[c]][FrameOf(cur[c])]
<1>1. \A u \in Thread : FrameOf(u)' = FrameOf(u)
  BY DEF Local, FrameOf
<1>2. \A d \in Cpu : cur[d] \in Thread /\ FrameOf(cur[d]) \in Frame
  BY Current DEF Ind
<1>3. \A d \in Cpu : HeldOn(d)' = held'[cur[d]][FrameOf(cur[d])]
  BY <1>1, <1>2 DEF Local, HeldOn
<1>4. \A d \in Cpu : Place(d)' = pc'[cur[d]][FrameOf(cur[d])]
  BY <1>1, <1>2 DEF Local, Place
<1>5. \A d \in Cpu : LockOf(d)' = lk'[cur[d]][FrameOf(cur[d])]
  BY <1>1, <1>2 DEF Local, LockOf
<1>6. \A d \in Cpu : d # c => cur[d] # cur[c]
  BY DEF Ind, Running
<1>7. ASSUME NEW d \in Cpu, d # c
      PROVE  HeldOn(d)' = HeldOn(d) /\ Place(d)' = Place(d) /\ LockOf(d)' = LockOf(d)
  BY <1>2, <1>3, <1>4, <1>5, <1>6, <1>7 DEF Local, HeldOn, Place, LockOf
<1> QED
  BY <1>3, <1>4, <1>5, <1>7

(* So what is left to show is what it does to its own frame and CPU. *)
LEMMA LocalStep ==
    ASSUME Ind, NEW c \in Cpu, Local(c), TypeOK',
           NEW t \in Thread, t = cur[c], NEW g \in Frame, g = FrameOf(cur[c]),
           FrameOK(t, g)', MaskOK(c)', CountOK(c)',
           LockedIsHeld', OwnerHolds', MutualExclusion', NoLockPanic'
    PROVE  Ind'
<1>1. Running'
  BY DEF Ind, Running, Local
<1>2. \A u \in Thread : FrameOf(u)' = FrameOf(u)
  BY DEF Local, FrameOf
<1>3. Frames'
  <2> SUFFICES ASSUME NEW u \in Thread, NEW f \in Frame, u # t \/ f # g
               PROVE  FrameOK(u, f)'
    BY DEF Frames
  <2>1. FrameOK(u, f)
    BY DEF Ind, Frames
  <2>2. /\ pc'[u][f] = pc[u][f] /\ lk'[u][f] = lk[u][f]
        /\ eflags'[u][f] = eflags[u][f] /\ held'[u][f] = held[u][f] /\ fresh' = fresh
    BY DEF Local
  <2> QED
    BY ONLY <2>1, <2>2 DEF FrameOK
<1>4. Stacks'
  <2> SUFFICES ASSUME NEW u \in Thread
               PROVE  /\ ~intr'[u] => held'[u]["intr"] = {}
                      /\ intr'[u] => /\ held'[u]["base"] = {}
                                     /\ pc'[u]["base"] \in {"loop", "run", "cli"}
    BY DEF Stacks
  <2>1. /\ ~intr[u] => held[u]["intr"] = {}
        /\ intr[u] => held[u]["base"] = {} /\ pc[u]["base"] \in {"loop", "run", "cli"}
    BY DEF Ind, Stacks
  <2>2. ~intr[u] => u # cur[c] \/ "intr" # FrameOf(cur[c])
    BY DEF FrameOf
  <2>3. intr[u] => u # cur[c] \/ "base" # FrameOf(cur[c])
    BY DEF FrameOf
  <2> QED
    BY <2>1, <2>2, <2>3 DEF Local, Frame
<1>5. Parked'
  <2> SUFFICES ASSUME NEW u \in Thread, \A d \in Cpu : cur[d] # u
               PROVE  /\ pc'[u][FrameOf(u)] = "run" /\ held'[u][FrameOf(u)] = {ptable}
                      /\ u \in Cpu => ~intr[u]
                      /\ u \in Proc /\ (fresh[u] => intr[u]) => (saved[u] <=> ~intr[u])
    BY <1>2 DEF Parked, Local
  <2>1. u # cur[c] /\ FrameOf(u) \in Frame
    BY DEF FrameOf, Frame
  <2> QED
    BY <2>1 DEF Ind, Parked, Local
<1>6. Masks'
  <2> SUFFICES ASSUME NEW d \in Cpu, d # c PROVE MaskOK(d)' /\ CountOK(d)'
    BY DEF Masks
  <2>1. MaskOK(d) /\ CountOK(d)
    BY DEF Ind, Masks
  <2>2. HeldOn(d)' = HeldOn(d) /\ Place(d)' = Place(d)
    BY LocalOthers
  <2>3. /\ cur' = cur /\ intr' = intr /\ fresh' = fresh
        /\ iflag'[d] = iflag[d] /\ ncli'[d] = ncli[d] /\ intena'[d] = intena[d]
    BY DEF Local
  <2>4. MaskOK(d)'
    BY ONLY <2>1, <2>2, <2>3 DEF MaskOK
  <2>5. CountOK(d)'
    BY ONLY <2>1, <2>2, <2>3 DEF CountOK
  <2> QED
    BY <2>4, <2>5
<1> QED
  BY <1>1, <1>3, <1>4, <1>5, <1>6 DEF Ind

-----------------------------------------------------------------------------
(* One lemma per action: it keeps the inductive invariant. *)
LEMMA AcquireInd ==
    ASSUME Ind, NEW c \in Cpu, NEW l \in Lock, Acquire(c, l)
    PROVE  Ind'
<1> USE SpinlockAssumption
<1>0. PICK t \in Thread, g \in Frame : TypeOK /\ t = cur[c] /\ g = FrameOf(cur[c])
  BY Current DEF Ind
<1>1. /\ Place(c) = "run" /\ \A h \in HeldOn(c) : Rank[h] < Rank[l]
      /\ fresh[t] => intr[t]
      /\ t \in Cpu /\ ~intr[t] => l = ptable
      /\ eflags' = Set(eflags, c, iflag[c]) /\ lk' = Set(lk, c, l)
      /\ pc' = Set(pc, c, "cli")
      /\ UNCHANGED <<locked, owner, iflag, ncli, intena, cur, intr, fresh, held,
                     saved, panicked>>
  BY <1>0 DEF Acquire, Goto, At, Place, Ind, Running
<1>2. /\ eflags' \in [Thread -> [Frame -> BOOLEAN]]
      /\ \A u \in Thread, f \in Frame :
            eflags'[u][f] = IF u = t /\ f = g THEN iflag[c] ELSE eflags[u][f]
  BY <1>0, <1>1, Current, SetEflags
<1>3. /\ lk' \in [Thread -> [Frame -> Lock \cup {NoLock}]]
      /\ \A u \in Thread, f \in Frame :
            lk'[u][f] = IF u = t /\ f = g THEN l ELSE lk[u][f]
  BY <1>0, <1>1, SetLk
<1>4. /\ pc' \in [Thread -> [Frame -> PCs]]
      /\ \A u \in Thread, f \in Frame :
            pc'[u][f] = IF u = t /\ f = g THEN "cli" ELSE pc[u][f]
  BY <1>0, <1>1, SetPc DEF PCs
<1>5. Local(c)
  BY <1>0, <1>1, <1>2, <1>3, <1>4 DEF Local
<1>6. /\ HeldOn(c)' = HeldOn(c) /\ HeldOn(c) = held[t][g]
      /\ Place(c)' = "cli" /\ LockOf(c)' = l
      /\ \A d \in Cpu : d # c =>
            HeldOn(d)' = HeldOn(d) /\ Place(d)' = Place(d) /\ LockOf(d)' = LockOf(d)
  BY <1>0, <1>1, <1>3, <1>4, <1>5, LocalOthers DEF HeldOn
<1>7. TypeOK'
  BY <1>0, <1>1, <1>2, <1>3, <1>4 DEF TypeOK
<1>8. MaskOK(c) /\ CountOK(c) /\ FrameOK(t, g)
  BY <1>0 DEF Ind, Masks, Frames
<1>9. FrameOK(t, g)'
  <2>1. g = "intr" => ~iflag[c]
    BY <1>0, <1>8, Current DEF MaskOK
  <2>2. g = "base" /\ t \in Proc => ~fresh[t] /\ (HeldOn(c) = {} => iflag[c])
    BY <1>0, <1>1, <1>8, Current DEF MaskOK
  <2>3. g = "base" => ~intr[t]
    BY <1>0, Current
  <2>4. /\ pc'[t][g] = "cli" /\ lk'[t][g] = l /\ eflags'[t][g] = iflag[c]
        /\ held' = held /\ fresh' = fresh
    BY <1>0, <1>1, <1>2, <1>3, <1>4
  <2> QED
    BY <1>1, <1>6, <1>8, <2>1, <2>2, <2>3, <2>4 DEF FrameOK
<1>10. MaskOK(c)' /\ CountOK(c)'
  BY <1>1, <1>6, <1>8 DEF MaskOK, CountOK
<1>11. LockedIsHeld'
  BY <1>1, <1>6 DEF Ind, LockedIsHeld
<1>12. OwnerHolds'
  BY <1>1, <1>6 DEF Ind, OwnerHolds
<1>13. MutualExclusion' /\ NoLockPanic'
  BY <1>1, <1>6 DEF Ind, MutualExclusion, NoLockPanic
<1> QED
  BY <1>0, <1>5, <1>7, <1>9, <1>10, <1>11, <1>12, <1>13, LocalStep

LEMMA PushcliInd ==
    ASSUME Ind, NEW c \in Cpu, Pushcli(c)
    PROVE  Ind'
<1> USE SpinlockAssumption
<1>0. PICK t \in Thread, g \in Frame : TypeOK /\ t = cur[c] /\ g = FrameOf(cur[c])
  BY Current DEF Ind
<1>1. /\ Place(c) = "cli"
      /\ iflag' = [iflag EXCEPT ![c] = FALSE]
      /\ intena' = IF ncli[c] = 0 THEN [intena EXCEPT ![c] = eflags[t][g]] ELSE intena
      /\ ncli' = [ncli EXCEPT ![c] = ncli[c] + 1]
      /\ panicked' = Holding(c, LockOf(c))
      /\ eflags' = Set(eflags, c, FALSE)
      /\ pc' = Set(pc, c, "xchg")
      /\ UNCHANGED <<locked, owner, cur, intr, fresh, lk, held, saved>>
  BY <1>0 DEF Pushcli, Goto, At, Place
<1>2. /\ eflags' \in [Thread -> [Frame -> BOOLEAN]]
      /\ \A u \in Thread, f \in Frame :
            eflags'[u][f] = IF u = t /\ f = g THEN FALSE ELSE eflags[u][f]
  <2>1. FALSE \in BOOLEAN
    OBVIOUS
  <2> QED
    <3>1. eflags' = Set(eflags, c, FALSE)
      BY <1>1
    <3>2. /\ eflags' \in [Thread -> [Frame -> BOOLEAN]]
          /\ \A u \in Thread, f \in Frame :
                eflags'[u][f] = IF u = cur[c] /\ f = FrameOf(cur[c])
                                THEN FALSE ELSE eflags[u][f]
      BY ONLY <1>0, <2>1, <3>1, c \in Cpu, SetEflags
    <3> QED
      BY <1>0, <3>2
<1>3. /\ pc' \in [Thread -> [Frame -> PCs]]
      /\ \A u \in Thread, f \in Frame :
            pc'[u][f] = IF u = t /\ f = g THEN "xchg" ELSE pc[u][f]
  BY <1>0, <1>1, SetPc DEF PCs
<1>4. /\ iflag' \in [Cpu -> BOOLEAN] /\ ~iflag'[c]
      /\ ncli' \in [Cpu -> Nat] /\ ncli'[c] = ncli[c] + 1
      /\ \A d \in Cpu : d # c =>
            iflag'[d] = iflag[d] /\ ncli'[d] = ncli[d]
  BY <1>0, <1>1 DEF TypeOK
<1>5. eflags[t][g] \in BOOLEAN
  BY <1>0 DEF TypeOK
<1>6. /\ intena' \in [Cpu -> BOOLEAN]
      /\ intena'[c] = IF ncli[c] = 0 THEN eflags[t][g] ELSE intena[c]
      /\ \A d \in Cpu : d # c => intena'[d] = intena[d]
  BY <1>0, <1>1, <1>5 DEF TypeOK
<1>7. Local(c)
  <2>1. \A u \in Thread, f \in Frame : u # t \/ f # g =>
           pc'[u][f] = pc[u][f] /\ eflags'[u][f] = eflags[u][f]
    BY <1>2, <1>3
  <2> QED
    <3>1. \A d \in Cpu : d # c =>
             iflag'[d] = iflag[d] /\ ncli'[d] = ncli[d] /\ intena'[d] = intena[d]
      BY <1>4, <1>6
    <3>2. /\ cur' = cur /\ intr' = intr /\ fresh' = fresh /\ saved' = saved
          /\ lk' = lk /\ held' = held
      BY <1>1
    <3> QED
      BY ONLY <1>0, <2>1, <3>1, <3>2 DEF Local
<1>8. /\ HeldOn(c)' = HeldOn(c) /\ HeldOn(c) = held[t][g]
      /\ Place(c)' = "xchg" /\ LockOf(c)' = LockOf(c) /\ LockOf(c) = lk[t][g]
      /\ \A d \in Cpu : d # c =>
            HeldOn(d)' = HeldOn(d) /\ Place(d)' = Place(d) /\ LockOf(d)' = LockOf(d)
  BY <1>0, <1>1, <1>3, <1>7, LocalOthers DEF HeldOn, LockOf
<1>9. MaskOK(c) /\ CountOK(c) /\ FrameOK(t, g)
  BY <1>0 DEF Ind, Masks, Frames
<1>10. LockOf(c) \in Lock /\ \A h \in HeldOn(c) : Rank[h] < Rank[LockOf(c)]
  BY <1>0, <1>1, <1>8, <1>9 DEF FrameOK, Place
<1>11. LockOf(c) \notin HeldOn(c)
  BY <1>10
<1>12. panicked' = FALSE
  <2>1. owner[LockOf(c)] # c
    BY <1>10, <1>11 DEF Ind, OwnerHolds
  <2> QED
    BY <1>1, <2>1 DEF Holding
<1>13. TypeOK'
  BY <1>0, <1>1, <1>2, <1>3, <1>4, <1>6, <1>12 DEF TypeOK
<1>14. FrameOK(t, g)'
  <2>1. /\ pc'[t][g] = "xchg" /\ lk' = lk /\ held' = held /\ fresh' = fresh
    BY <1>0, <1>1, <1>3
  <2> QED
    BY <1>0, <1>1, <1>8, <1>9, <1>10, <2>1, ZenonT(60) DEF FrameOK, Place
<1>15. MaskOK(c)'
  <2>1. HeldOn(c) \in SUBSET Lock /\ IsFiniteSet(HeldOn(c))
    BY <1>0, <1>8, <1>9, Current DEF FrameOK
  <2>2. ncli[c] = 0 => HeldOn(c) = {}
    <3>1. ncli[c] = Cardinality(HeldOn(c))
      BY <1>1, <1>9, <2>1, FS_CardinalityType DEF CountOK
    <3> QED
      BY <3>1, <2>1, FS_EmptySet
  <2>3. intr[t] => ~intena'[c]
    <3>1. intr[t] => g = "intr"
      BY <1>0, SMTT(30) DEF FrameOf
    <3> QED
      BY <1>0, <1>1, <1>6, <1>9, <3>1, Current DEF MaskOK, FrameOK, Place
  <2>4. t \in Proc /\ ~fresh[t] /\ ~intr[t] => intena'[c]
    <3>1. ~intr[t] => g = "base"
      BY <1>0 DEF FrameOf
    <3> QED
      BY <1>0, <1>1, <1>6, <1>8, <1>9, <2>2, <3>1, Current DEF MaskOK, FrameOK, Place
  <2>5. cur' = cur /\ intr' = intr /\ fresh' = fresh
    BY <1>1
  <2> QED
    BY <1>0, <1>4, <1>8, <2>3, <2>4, <2>5 DEF MaskOK
<1>16. CountOK(c)'
  <2>1. Cardinality(HeldOn(c)) \in Nat
    BY <1>8, <1>9, FS_CardinalityType DEF FrameOK
  <2> QED
    BY <1>1, <1>4, <1>8, <1>9, <2>1 DEF CountOK
<1>17. LockedIsHeld'
  BY <1>1, <1>8 DEF Ind, LockedIsHeld
<1>18. OwnerHolds'
  BY <1>1, <1>8, <1>11 DEF Ind, OwnerHolds
<1>19. MutualExclusion' /\ NoLockPanic'
  BY <1>1, <1>8, <1>12 DEF Ind, MutualExclusion, NoLockPanic
<1> QED
  BY <1>0, <1>7, <1>13, <1>14, <1>15, <1>16, <1>17, <1>18, <1>19, LocalStep

LEMMA XchgInd ==
    ASSUME Ind, NEW c \in Cpu, Xchg(c)
    PROVE  Ind'
<1> DEFINE l == LockOf(c)
<1> USE SpinlockAssumption
<1>0. PICK t \in Thread, g \in Frame : TypeOK /\ t = cur[c] /\ g = FrameOf(cur[c])
  BY Current DEF Ind
<1>1. /\ Place(c) = "xchg" /\ ~locked[l]
      /\ locked' = [locked EXCEPT ![l] = TRUE]
      /\ held' = Set(held, c, HeldOn(c) \cup {l})
      /\ pc' = Set(pc, c, "record")
      /\ UNCHANGED <<owner, iflag, ncli, intena, cur, intr, fresh, lk, eflags,
                     saved, panicked>>
  BY DEF Xchg, Goto, At, Place
<1>2. MaskOK(c) /\ CountOK(c) /\ FrameOK(t, g)
  BY <1>0 DEF Ind, Masks, Frames
<1>3. HeldOn(c) = held[t][g] /\ l = lk[t][g]
  BY <1>0 DEF HeldOn, LockOf
<1>4. /\ l \in Lock /\ l \notin HeldOn(c) /\ HeldOn(c) \subseteq Lock
      /\ IsFiniteSet(HeldOn(c))
  BY <1>0, <1>1, <1>2, <1>3, Current DEF FrameOK, Place
<1>5. /\ held' \in [Thread -> [Frame -> SUBSET Lock]]
      /\ \A u \in Thread, f \in Frame :
            held'[u][f] = IF u = t /\ f = g THEN HeldOn(c) \cup {l} ELSE held[u][f]
  <2>1. HeldOn(c) \cup {l} \in SUBSET Lock
    BY <1>4
  <2> QED
    <3>1. held' = Set(held, c, HeldOn(c) \cup {l})
      BY <1>1
    <3>2. /\ held' \in [Thread -> [Frame -> SUBSET Lock]]
          /\ \A u \in Thread, f \in Frame :
                held'[u][f] = IF u = cur[c] /\ f = FrameOf(cur[c])
                              THEN HeldOn(c) \cup {l} ELSE held[u][f]
      BY ONLY <1>0, <2>1, <3>1, c \in Cpu, SetHeld, ZenonT(60)
    <3> QED
      BY <1>0, <3>2
<1>6. /\ pc' \in [Thread -> [Frame -> PCs]]
      /\ \A u \in Thread, f \in Frame :
            pc'[u][f] = IF u = t /\ f = g THEN "record" ELSE pc[u][f]
  BY <1>0, <1>1, SetPc DEF PCs
<1>7. Local(c)
  BY <1>0, <1>1, <1>5, <1>6, ZenonT(60) DEF Local
<1>8. /\ HeldOn(c)' = HeldOn(c) \cup {l} /\ Place(c)' = "record" /\ LockOf(c)' = l
      /\ \A d \in Cpu : d # c =>
            HeldOn(d)' = HeldOn(d) /\ Place(d)' = Place(d) /\ LockOf(d)' = LockOf(d)
  BY <1>0, <1>1, <1>3, <1>5, <1>6, <1>7, LocalOthers, ZenonT(60)
<1>9. TypeOK'
  BY <1>0, <1>1, <1>4, <1>5, <1>6 DEF TypeOK
<1>10. FrameOK(t, g)'
  <2>1. /\ pc'[t][g] = "record" /\ lk' = lk /\ held'[t][g] = HeldOn(c) \cup {l}
    BY <1>0, <1>1, <1>5, <1>6
  <2>2. IsFiniteSet(HeldOn(c) \cup {l})
    BY <1>4, FS_AddElement
  <2> QED
    BY <1>0, <1>1, <1>2, <1>3, <2>1, <2>2, ZenonT(60) DEF FrameOK, Place
<1>11. MaskOK(c)'
  BY <1>1, <1>2, <1>8 DEF MaskOK
<1>12. CountOK(c)'
  <2>1. Cardinality(HeldOn(c) \cup {l}) = Cardinality(HeldOn(c)) + 1
    BY <1>4, FS_AddElement
  <2>2. Cardinality(HeldOn(c)) \in Nat
    BY <1>4, FS_CardinalityType
  <2>3. ncli[c] = Cardinality(HeldOn(c)) + 1
    BY <1>1, <1>2 DEF CountOK
  <2>4. ncli' = ncli
    BY <1>1
  <2> QED
    BY <1>8, <2>1, <2>2, <2>3, <2>4 DEF CountOK
<1>13. /\ \A m \in Lock : locked'[m] <=> (m = l \/ locked[m])
       /\ \A d \in Cpu : l \notin HeldOn(d)
  BY <1>0, <1>1, <1>4 DEF Ind, LockedIsHeld, TypeOK
<1>14. LockedIsHeld'
  BY <1>8, <1>13 DEF Ind, LockedIsHeld
<1>15. OwnerHolds'
  BY <1>1, <1>8, <1>13 DEF Ind, OwnerHolds
<1>16. MutualExclusion'
  <2> SUFFICES ASSUME NEW a \in Cpu, NEW b \in Cpu, a # b
               PROVE  HeldOn(a)' \cap HeldOn(b)' = {}
    BY DEF MutualExclusion
  <2>1. HeldOn(a) \cap HeldOn(b) = {}
    BY DEF Ind, MutualExclusion
  <2> QED
    BY <1>8, <1>13, <2>1
<1>17. NoLockPanic'
  BY <1>1 DEF Ind, NoLockPanic
<1> QED
  BY <1>0, <1>7, <1>9, <1>10, <1>11, <1>12, <1>14, <1>15, <1>16, <1>17, LocalStep

LEMMA RecordInd ==
    ASSUME Ind, NEW c \in Cpu, Record(c)
    PROVE  Ind'
<1> DEFINE l == LockOf(c)
<1> USE SpinlockAssumption
<1>0. PICK t \in Thread, g \in Frame : TypeOK /\ t = cur[c] /\ g = FrameOf(cur[c])
  BY Current DEF Ind
<1>1. /\ Place(c) = "record"
      /\ owner' = [owner EXCEPT ![l] = c]
      /\ lk' = Set(lk, c, NoLock)
      /\ pc' = Set(pc, c, "run")
      /\ UNCHANGED <<locked, iflag, ncli, intena, cur, intr, fresh, eflags,
                     held, saved, panicked>>
  BY DEF Record, Goto, At, Place
<1>2. MaskOK(c) /\ CountOK(c) /\ FrameOK(t, g)
  BY <1>0 DEF Ind, Masks, Frames
<1>3. HeldOn(c) = held[t][g] /\ l = lk[t][g]
  BY <1>0 DEF HeldOn, LockOf
<1>4. l \in Lock /\ l \in HeldOn(c)
  BY <1>0, <1>1, <1>2, <1>3, Current DEF FrameOK, Place
<1>5. /\ lk' \in [Thread -> [Frame -> Lock \cup {NoLock}]]
      /\ \A u \in Thread, f \in Frame :
            lk'[u][f] = IF u = t /\ f = g THEN NoLock ELSE lk[u][f]
  BY <1>0, <1>1, SetLk
<1>6. /\ pc' \in [Thread -> [Frame -> PCs]]
      /\ \A u \in Thread, f \in Frame :
            pc'[u][f] = IF u = t /\ f = g THEN "run" ELSE pc[u][f]
  BY <1>0, <1>1, SetPc DEF PCs
<1>7. Local(c)
  BY <1>0, <1>1, <1>5, <1>6 DEF Local
<1>8. /\ HeldOn(c)' = HeldOn(c) /\ Place(c)' = "run" /\ LockOf(c)' = NoLock
      /\ \A d \in Cpu : d # c =>
            HeldOn(d)' = HeldOn(d) /\ Place(d)' = Place(d) /\ LockOf(d)' = LockOf(d)
  BY <1>0, <1>1, <1>3, <1>5, <1>6, <1>7, LocalOthers
<1>9. TypeOK'
  BY <1>0, <1>1, <1>4, <1>5, <1>6 DEF TypeOK
<1>10. FrameOK(t, g)'
  <2>1. pc'[t][g] = "run" /\ held' = held
    BY <1>0, <1>1, <1>6
  <2> QED
    BY <1>2, <2>1 DEF FrameOK
<1>11. MaskOK(c)' /\ CountOK(c)'
  BY <1>1, <1>2, <1>4, <1>8 DEF MaskOK, CountOK
<1>12. LockedIsHeld'
  BY <1>1, <1>8 DEF Ind, LockedIsHeld
<1>13. \A m \in Lock : owner'[m] = IF m = l THEN c ELSE owner[m]
  BY <1>0, <1>1, <1>4 DEF TypeOK
<1>14. OwnerHolds'
  <2> SUFFICES ASSUME NEW m \in Lock, NEW d \in Cpu
               PROVE  owner'[m] = d <=>
                         /\ m \in HeldOn(d)'
                         /\ Place(d)' \in {"record", "unlock"} => LockOf(d)' # m
    BY DEF OwnerHolds
  <2>1. owner[m] = d <=> /\ m \in HeldOn(d)
                         /\ Place(d) \in {"record", "unlock"} => LockOf(d) # m
    BY DEF Ind, OwnerHolds
  <2>2. d # c => l \notin HeldOn(d)
    BY <1>4 DEF Ind, MutualExclusion
  <2>3. CASE d = c
    BY <1>1, <1>4, <1>8, <1>13, <2>1, <2>3
  <2>4. CASE d # c
    BY <1>1, <1>4, <1>8, <1>13, <2>1, <2>2, <2>4
  <2> QED
    BY <2>3, <2>4
<1>15. MutualExclusion' /\ NoLockPanic'
  BY <1>1, <1>8 DEF Ind, MutualExclusion, NoLockPanic
<1> QED
  BY <1>0, <1>7, <1>9, <1>10, <1>11, <1>12, <1>14, <1>15, LocalStep

LEMMA ReleaseInd ==
    ASSUME Ind, NEW c \in Cpu, NEW l \in Lock, Release(c, l)
    PROVE  Ind'
<1> USE SpinlockAssumption
<1>0. PICK t \in Thread, g \in Frame : TypeOK /\ t = cur[c] /\ g = FrameOf(cur[c])
  BY Current DEF Ind
<1>1. /\ Place(c) = "run" /\ l \in HeldOn(c)
      /\ panicked' = ~Holding(c, l)
      /\ owner' = [owner EXCEPT ![l] = NoCpu]
      /\ lk' = Set(lk, c, l)
      /\ pc' = Set(pc, c, "unlock")
      /\ UNCHANGED <<locked, iflag, ncli, intena, cur, intr, fresh, eflags, held,
                     saved>>
  BY DEF Release, Goto, At, Place
<1>2. MaskOK(c) /\ CountOK(c) /\ FrameOK(t, g)
  BY <1>0 DEF Ind, Masks, Frames
<1>3. HeldOn(c) = held[t][g]
  BY <1>0 DEF HeldOn
<1>4. panicked' = FALSE
  <2>1. locked[l] \in BOOLEAN /\ locked[l]
    BY <1>0, <1>1 DEF Ind, LockedIsHeld, TypeOK
  <2>2. owner[l] = c
    BY <1>1 DEF Ind, OwnerHolds
  <2> QED
    BY <1>1, <2>1, <2>2 DEF Holding
<1>5. /\ lk' \in [Thread -> [Frame -> Lock \cup {NoLock}]]
      /\ \A u \in Thread, f \in Frame :
            lk'[u][f] = IF u = t /\ f = g THEN l ELSE lk[u][f]
  BY <1>0, <1>1, SetLk
<1>6. /\ pc' \in [Thread -> [Frame -> PCs]]
      /\ \A u \in Thread, f \in Frame :
            pc'[u][f] = IF u = t /\ f = g THEN "unlock" ELSE pc[u][f]
  BY <1>0, <1>1, SetPc DEF PCs
<1>7. Local(c)
  BY <1>0, <1>1, <1>5, <1>6 DEF Local
<1>8. /\ HeldOn(c)' = HeldOn(c) /\ Place(c)' = "unlock" /\ LockOf(c)' = l
      /\ \A d \in Cpu : d # c =>
            HeldOn(d)' = HeldOn(d) /\ Place(d)' = Place(d) /\ LockOf(d)' = LockOf(d)
  BY <1>0, <1>1, <1>3, <1>5, <1>6, <1>7, LocalOthers
<1>9. TypeOK'
  BY <1>0, <1>1, <1>4, <1>5, <1>6 DEF TypeOK
<1>10. FrameOK(t, g)'
  <2>1. pc'[t][g] = "unlock" /\ held' = held /\ lk'[t][g] = l
    BY <1>0, <1>1, <1>5, <1>6
  <2> QED
    BY <1>1, <1>2, <1>3, <2>1 DEF FrameOK
<1>11. MaskOK(c)' /\ CountOK(c)'
  BY <1>1, <1>2, <1>8 DEF MaskOK, CountOK
<1>12. LockedIsHeld'
  BY <1>1, <1>8 DEF Ind, LockedIsHeld
<1>13. \A m \in Lock : owner'[m] = IF m = l THEN NoCpu ELSE owner[m]
  BY <1>0, <1>1 DEF TypeOK
<1>14. OwnerHolds'
  <2> SUFFICES ASSUME NEW m \in Lock, NEW d \in Cpu
               PROVE  owner'[m] = d <=>
                         /\ m \in HeldOn(d)'
                         /\ Place(d)' \in {"record", "unlock"} => LockOf(d)' # m
    BY DEF OwnerHolds
  <2>1. owner[m] = d <=> /\ m \in HeldOn(d)
                         /\ Place(d) \in {"record", "unlock"} => LockOf(d) # m
    BY DEF Ind, OwnerHolds
  <2>2. d # c => l \notin HeldOn(d)
    BY <1>1 DEF Ind, MutualExclusion
  <2>3. CASE d = c
    BY <1>1, <1>8, <1>13, <2>1, <2>3
  <2>4. CASE d # c
    BY <1>1, <1>8, <1>13, <2>1, <2>2, <2>4
  <2> QED
    BY <2>3, <2>4
<1>15. MutualExclusion' /\ NoLockPanic'
  BY <1>4, <1>8 DEF Ind, MutualExclusion, NoLockPanic
<1> QED
  BY <1>0, <1>7, <1>9, <1>10, <1>11, <1>12, <1>14, <1>15, LocalStep

LEMMA UnlockInd ==
    ASSUME Ind, NEW c \in Cpu, Unlock(c)
    PROVE  Ind'
<1> DEFINE l == LockOf(c)
<1> USE SpinlockAssumption
<1>0. PICK t \in Thread, g \in Frame : TypeOK /\ t = cur[c] /\ g = FrameOf(cur[c])
  BY Current DEF Ind
<1>1. /\ Place(c) = "unlock"
      /\ locked' = [locked EXCEPT ![l] = FALSE]
      /\ held' = Set(held, c, HeldOn(c) \ {l})
      /\ pc' = Set(pc, c, "popcli")
      /\ UNCHANGED <<owner, iflag, ncli, intena, cur, intr, fresh, lk, eflags,
                     saved, panicked>>
  BY DEF Unlock, Goto, At, Place
<1>2. MaskOK(c) /\ CountOK(c) /\ FrameOK(t, g)
  BY <1>0 DEF Ind, Masks, Frames
<1>3. HeldOn(c) = held[t][g] /\ l = lk[t][g]
  BY <1>0 DEF HeldOn, LockOf
<1>4. l \in HeldOn(c) /\ HeldOn(c) \subseteq Lock /\ IsFiniteSet(HeldOn(c))
  BY <1>0, <1>1, <1>2, <1>3, Current DEF FrameOK, Place
<1>5. /\ held' \in [Thread -> [Frame -> SUBSET Lock]]
      /\ \A u \in Thread, f \in Frame :
            held'[u][f] = IF u = t /\ f = g THEN HeldOn(c) \ {l} ELSE held[u][f]
  <2>1. HeldOn(c) \ {l} \in SUBSET Lock
    BY <1>4
  <2>2. held' = Set(held, c, HeldOn(c) \ {l})
    BY <1>1
  <2>3. /\ held' \in [Thread -> [Frame -> SUBSET Lock]]
        /\ \A u \in Thread, f \in Frame :
              held'[u][f] = IF u = cur[c] /\ f = FrameOf(cur[c])
                            THEN HeldOn(c) \ {l} ELSE held[u][f]
    BY ONLY <1>0, <2>1, <2>2, c \in Cpu, SetHeld, ZenonT(60)
  <2> QED
    BY <1>0, <2>3
<1>6. /\ pc' \in [Thread -> [Frame -> PCs]]
      /\ \A u \in Thread, f \in Frame :
            pc'[u][f] = IF u = t /\ f = g THEN "popcli" ELSE pc[u][f]
  BY <1>0, <1>1, SetPc DEF PCs
<1>7. Local(c)
  BY <1>0, <1>1, <1>5, <1>6, ZenonT(60) DEF Local
<1>8. /\ HeldOn(c)' = HeldOn(c) \ {l} /\ Place(c)' = "popcli"
      /\ \A d \in Cpu : d # c =>
            HeldOn(d)' = HeldOn(d) /\ Place(d)' = Place(d) /\ LockOf(d)' = LockOf(d)
  BY <1>0, <1>5, <1>6, <1>7, LocalOthers
<1>9. TypeOK'
  BY <1>0, <1>1, <1>4, <1>5, <1>6 DEF TypeOK
<1>10. FrameOK(t, g)'
  <2>1. pc'[t][g] = "popcli" /\ held'[t][g] = HeldOn(c) \ {l}
    BY <1>0, <1>5, <1>6
  <2>2. IsFiniteSet(HeldOn(c) \ {l})
    BY <1>4, FS_RemoveElement
  <2> QED
    BY <1>1, <1>2, <1>3, <1>4, <2>1, <2>2, ZenonT(60) DEF FrameOK
<1>11. MaskOK(c)'
  <2>1. ncli[c] # 0
    BY <1>1, <1>2, <1>4, FS_EmptySet, FS_CardinalityType DEF CountOK
  <2> QED
    BY <1>1, <1>2, <1>4, <1>8, <2>1 DEF MaskOK
<1>12. CountOK(c)'
  <2>1. Cardinality(HeldOn(c) \ {l}) = Cardinality(HeldOn(c)) - 1
    BY <1>4, FS_RemoveElement
  <2>2. Cardinality(HeldOn(c)) \in Nat
    BY <1>4, FS_CardinalityType
  <2>3. ncli' = ncli /\ ncli[c] = Cardinality(HeldOn(c))
    BY <1>1, <1>2, <2>2 DEF CountOK
  <2> QED
    BY <1>8, <2>1, <2>2, <2>3 DEF CountOK
<1>13. \A m \in Lock : locked'[m] <=> (m # l /\ locked[m])
  BY <1>0, <1>1, <1>4 DEF TypeOK
<1>14. \A d \in Cpu : d # c => l \notin HeldOn(d)
  BY <1>4 DEF Ind, MutualExclusion
<1>15. LockedIsHeld'
  BY <1>8, <1>13, <1>14 DEF Ind, LockedIsHeld
<1>16. OwnerHolds'
  <2> SUFFICES ASSUME NEW m \in Lock, NEW d \in Cpu
               PROVE  owner[m] = d <=>
                         /\ m \in HeldOn(d)'
                         /\ Place(d)' \in {"record", "unlock"} => LockOf(d)' # m
    BY <1>1 DEF OwnerHolds
  <2>1. owner[m] = d <=> /\ m \in HeldOn(d)
                         /\ Place(d) \in {"record", "unlock"} => LockOf(d) # m
    BY DEF Ind, OwnerHolds
  <2>2. CASE d = c
    BY <1>1, <1>8, <2>1, <2>2
  <2>3. CASE d # c
    BY <1>8, <2>1, <2>3
  <2> QED
    BY <2>2, <2>3
<1>17. MutualExclusion' /\ NoLockPanic'
  <2>1. \A d \in Cpu : HeldOn(d)' \subseteq HeldOn(d)
    BY <1>8
  <2> QED
    BY <1>1, <2>1 DEF Ind, MutualExclusion, NoLockPanic
<1> QED
  BY <1>0, <1>7, <1>9, <1>10, <1>11, <1>12, <1>15, <1>16, <1>17, LocalStep

LEMMA PopcliInd ==
    ASSUME Ind, NEW c \in Cpu, Popcli(c)
    PROVE  Ind'
<1> DEFINE place == IF cur[c] = c /\ ~intr[c] THEN "loop" ELSE "run"
<1> USE SpinlockAssumption
<1>0. PICK t \in Thread, g \in Frame : TypeOK /\ t = cur[c] /\ g = FrameOf(cur[c])
  BY Current DEF Ind
<1>1. /\ Place(c) = "popcli"
      /\ panicked' = (iflag[c] \/ ncli[c] = 0)
      /\ ncli' = [ncli EXCEPT ![c] = IF ncli[c] = 0 THEN 0 ELSE ncli[c] - 1]
      /\ iflag' = [iflag EXCEPT ![c] = iflag[c] \/ (ncli[c] = 1 /\ intena[c])]
      /\ lk' = Set(lk, c, NoLock)
      /\ pc' = Set(pc, c, place)
      /\ UNCHANGED <<locked, owner, intena, cur, intr, fresh, eflags, held, saved>>
  BY DEF Popcli, Goto, At, Place
<1>2. MaskOK(c) /\ CountOK(c) /\ FrameOK(t, g)
  BY <1>0 DEF Ind, Masks, Frames
<1>3. HeldOn(c) = held[t][g] /\ IsFiniteSet(HeldOn(c))
  BY <1>0, <1>2 DEF HeldOn, FrameOK
<1>4. /\ Cardinality(HeldOn(c)) \in Nat
      /\ ncli[c] = Cardinality(HeldOn(c)) + 1
      /\ ~iflag[c]
  <2>1. Cardinality(HeldOn(c)) \in Nat
    BY <1>3, FS_CardinalityType
  <2> QED
    BY <1>1, <1>2, <2>1 DEF CountOK, MaskOK
<1>5. ncli[c] = 1 <=> HeldOn(c) = {}
  BY <1>3, <1>4, FS_EmptySet
<1>6. panicked' = FALSE
  <2>1. ~(iflag[c] \/ ncli[c] = 0)
    BY <1>4
  <2> QED
    BY <1>1, <2>1
<1>7. /\ lk' \in [Thread -> [Frame -> Lock \cup {NoLock}]]
      /\ \A u \in Thread, f \in Frame :
            lk'[u][f] = IF u = t /\ f = g THEN NoLock ELSE lk[u][f]
  BY <1>0, <1>1, SetLk
<1>8. /\ pc' \in [Thread -> [Frame -> PCs]]
      /\ \A u \in Thread, f \in Frame :
            pc'[u][f] = IF u = t /\ f = g THEN place ELSE pc[u][f]
  BY <1>0, <1>1, SetPc DEF PCs
<1>9. intena[c] \in BOOLEAN
  BY <1>0 DEF TypeOK
<1>10. /\ ncli' \in [Cpu -> Nat] /\ ncli'[c] = Cardinality(HeldOn(c))
       /\ iflag' \in [Cpu -> BOOLEAN]
       /\ iflag'[c] <=> (HeldOn(c) = {} /\ intena[c])
       /\ \A d \in Cpu : d # c => iflag'[d] = iflag[d] /\ ncli'[d] = ncli[d]
  <2>1. /\ ncli' \in [Cpu -> Nat] /\ ncli'[c] = Cardinality(HeldOn(c))
        /\ \A d \in Cpu : d # c => ncli'[d] = ncli[d]
    <3>1. (IF ncli[c] = 0 THEN 0 ELSE ncli[c] - 1) = Cardinality(HeldOn(c))
      BY <1>4
    <3>2. ncli' = [ncli EXCEPT ![c] = Cardinality(HeldOn(c))]
      BY <1>1, <3>1
    <3> QED
      BY <1>0, <1>4, <3>2 DEF TypeOK
  <2>2. (iflag[c] \/ (ncli[c] = 1 /\ intena[c])) \in BOOLEAN
    OBVIOUS
  <2>3. /\ iflag' \in [Cpu -> BOOLEAN]
        /\ iflag'[c] = (iflag[c] \/ (ncli[c] = 1 /\ intena[c]))
        /\ \A d \in Cpu : d # c => iflag'[d] = iflag[d]
    BY <1>0, <1>1, <2>2 DEF TypeOK
  <2> QED
    BY <1>4, <1>5, <2>1, <2>3
<1>11. Local(c)
  <2>1. \A u \in Thread, f \in Frame : u # t \/ f # g =>
           pc'[u][f] = pc[u][f] /\ lk'[u][f] = lk[u][f]
    BY <1>7, <1>8
  <2>2. \A d \in Cpu : d # c =>
           iflag'[d] = iflag[d] /\ ncli'[d] = ncli[d] /\ intena'[d] = intena[d]
    BY <1>1, <1>10
  <2>3. /\ cur' = cur /\ intr' = intr /\ fresh' = fresh /\ saved' = saved
        /\ eflags' = eflags /\ held' = held
    BY <1>1
  <2> QED
    BY ONLY <1>0, <2>1, <2>2, <2>3 DEF Local
<1>12. /\ HeldOn(c)' = HeldOn(c) /\ Place(c)' = place
       /\ \A d \in Cpu : d # c =>
             HeldOn(d)' = HeldOn(d) /\ Place(d)' = Place(d) /\ LockOf(d)' = LockOf(d)
  BY <1>0, <1>1, <1>3, <1>8, <1>11, LocalOthers
<1>13. TypeOK'
  BY <1>0, <1>1, <1>6, <1>7, <1>8, <1>10 DEF TypeOK
<1>14. cur[c] = c /\ ~intr[c] => HeldOn(c) = {}
  BY <1>0, <1>1, <1>2, <1>3 DEF FrameOK, FrameOf, Place
<1>15. FrameOK(t, g)'
  <2>1. held' = held /\ pc'[t][g] = place
    BY <1>0, <1>1, <1>8
  <2>2. place \in {"loop", "run"} /\ (place = "loop" => HeldOn(c) = {})
    BY <1>14
  <2> QED
    BY <1>2, <1>3, <2>1, <2>2 DEF FrameOK
<1>16. MaskOK(c)'
  <2>1. place \in {"loop", "run"}
    OBVIOUS
  <2>2. ncli[c] # 0
    BY <1>4
  <2>3. intr[t] => ~intena[c]
    BY <1>0, <1>2, <2>2 DEF MaskOK
  <2>4. t \in Proc /\ ~fresh[t] /\ ~intr[t] => intena[c]
    BY <1>0, <1>2, <2>2 DEF MaskOK
  <2>5. cur' = cur /\ intr' = intr /\ fresh' = fresh /\ intena' = intena
    BY <1>1
  <2> HIDE DEF place
  <2> QED
    <3>1. HeldOn(c) # {} \/ intr[t] => ~iflag'[c]
      BY <1>10, <2>3
    <3>2. t \in Proc /\ ~fresh[t] /\ ~intr[t] /\ HeldOn(c) = {} => iflag'[c]
      BY <1>10, <2>4
    <3>3. t = cur[c] /\ HeldOn(c)' = HeldOn(c) /\ Place(c)' = place
      BY <1>0, <1>12
    <3> QED
      BY ONLY <2>1, <2>3, <2>4, <2>5, <3>1, <3>2, <3>3 DEF MaskOK
<1>17. CountOK(c)'
  <2>1. place \in {"loop", "run"}
    OBVIOUS
  <2> HIDE DEF place
  <2> QED
    BY <1>4, <1>10, <1>12, <2>1 DEF CountOK
<1>18. LockedIsHeld'
  BY <1>1, <1>12 DEF Ind, LockedIsHeld
<1>19. OwnerHolds'
  BY <1>1, <1>12 DEF Ind, OwnerHolds
<1>20. MutualExclusion' /\ NoLockPanic'
  BY <1>6, <1>12 DEF Ind, MutualExclusion, NoLockPanic
<1> QED
  BY <1>0, <1>11, <1>13, <1>15, <1>16, <1>17, <1>18, <1>19, <1>20, LocalStep

LEMMA StiInd ==
    ASSUME Ind, NEW c \in Cpu, Sti(c)
    PROVE  Ind'
<1> USE SpinlockAssumption
<1>0. PICK t \in Thread, g \in Frame : TypeOK /\ t = cur[c] /\ g = FrameOf(cur[c])
  BY Current DEF Ind
<1>1. /\ t = c /\ ~intr[t] /\ Place(c) = "loop"
      /\ iflag' = [iflag EXCEPT ![c] = TRUE]
      /\ pc' = Set(pc, c, "run")
      /\ UNCHANGED <<locked, owner, ncli, intena, cur, intr, fresh, lk, eflags,
                     held, saved, panicked>>
  BY <1>0 DEF Sti, Goto, At, Place
<1>2. MaskOK(c) /\ CountOK(c) /\ FrameOK(t, g)
  BY <1>0 DEF Ind, Masks, Frames
<1>3. HeldOn(c) = held[t][g] /\ HeldOn(c) = {}
  BY <1>0, <1>1, <1>2 DEF HeldOn, FrameOK, Place
<1>4. /\ pc' \in [Thread -> [Frame -> PCs]]
      /\ \A u \in Thread, f \in Frame :
            pc'[u][f] = IF u = t /\ f = g THEN "run" ELSE pc[u][f]
  <2>1. pc' = Set(pc, c, "run")
    BY <1>1
  <2> QED
    BY ONLY <1>0, <2>1, c \in Cpu, SetPc DEF PCs
<1>5. /\ iflag' \in [Cpu -> BOOLEAN] /\ iflag'[c]
      /\ \A d \in Cpu : d # c => iflag'[d] = iflag[d]
  BY <1>0, <1>1 DEF TypeOK
<1>6. Local(c)
  BY <1>0, <1>1, <1>4, <1>5 DEF Local
<1>7. /\ HeldOn(c)' = HeldOn(c) /\ Place(c)' = "run"
      /\ \A d \in Cpu : d # c =>
            HeldOn(d)' = HeldOn(d) /\ Place(d)' = Place(d) /\ LockOf(d)' = LockOf(d)
  BY <1>0, <1>1, <1>3, <1>4, <1>6, LocalOthers, ZenonT(60)
<1>8. TypeOK'
  BY <1>0, <1>1, <1>4, <1>5 DEF TypeOK
<1>9. FrameOK(t, g)'
  <2>1. held' = held /\ pc'[t][g] = "run"
    BY <1>0, <1>1, <1>4
  <2> QED
    BY <1>2, <2>1 DEF FrameOK
<1>10. MaskOK(c)'
  BY <1>0, <1>1, <1>2, <1>3, <1>5, <1>7 DEF MaskOK
<1>11. CountOK(c)'
  BY <1>1, <1>2, <1>7 DEF CountOK
<1>12. LockedIsHeld' /\ OwnerHolds' /\ MutualExclusion' /\ NoLockPanic'
  BY <1>1, <1>7 DEF Ind, LockedIsHeld, OwnerHolds, MutualExclusion, NoLockPanic
<1> QED
  BY <1>0, <1>6, <1>8, <1>9, <1>10, <1>11, <1>12, LocalStep

(* A handler starts and ends where the CPU holds no lock, so neither the lock
   words nor ncli notice. *)
LEMMA InterruptInd ==
    ASSUME Ind, NEW c \in Cpu, Interrupt(c)
    PROVE  Ind'
<1> USE SpinlockAssumption
<1>0. PICK t \in Thread : TypeOK /\ t = cur[c]
  BY Current DEF Ind
<1>1. /\ iflag[c] /\ ~intr[t]
      /\ iflag' = [iflag EXCEPT ![c] = FALSE]
      /\ intr' = [intr EXCEPT ![t] = TRUE]
      /\ pc' = [pc EXCEPT ![t]["intr"] = "run"]
      /\ UNCHANGED <<locked, owner, ncli, intena, cur, fresh, lk, eflags, held,
                     saved, panicked>>
  BY <1>0 DEF Interrupt
<1>2. MaskOK(c) /\ CountOK(c)
  BY DEF Ind, Masks
<1>3. HeldOn(c) = {} /\ Place(c) \in {"loop", "run", "cli"} /\ ncli[c] = 0
  <2>1. HeldOn(c) = {} /\ Place(c) \in {"loop", "run", "cli"}
    BY <1>0, <1>1, <1>2, Current DEF MaskOK, PCs
  <2> QED
    BY <1>2, <2>1, FS_EmptySet DEF CountOK
<1>4. held[t]["base"] = {} /\ held[t]["intr"] = {} /\ pc[t]["base"] = Place(c)
  BY <1>0, <1>1, <1>3 DEF HeldOn, Place, FrameOf, Ind, Stacks
<1>5. /\ intr' \in [Thread -> BOOLEAN] /\ intr'[t]
      /\ \A u \in Thread : u # t => intr'[u] = intr[u]
      /\ iflag' \in [Cpu -> BOOLEAN] /\ ~iflag'[c]
      /\ \A d \in Cpu : d # c => iflag'[d] = iflag[d]
  BY <1>0, <1>1 DEF TypeOK
<1>6. /\ pc' \in [Thread -> [Frame -> PCs]] /\ pc'[t]["intr"] = "run"
      /\ \A u \in Thread, f \in Frame : u # t \/ f # "intr" => pc'[u][f] = pc[u][f]
  BY <1>0, <1>1 DEF TypeOK, Frame, PCs
<1>7. TypeOK'
  BY <1>0, <1>1, <1>5, <1>6 DEF TypeOK
<1>8. FrameOf(t)' = "intr" /\ \A u \in Thread : u # t => FrameOf(u)' = FrameOf(u)
  BY <1>5 DEF FrameOf
<1>9. HeldOn(c)' = {} /\ Place(c)' = "run"
  BY <1>0, <1>1, <1>4, <1>6, <1>8 DEF HeldOn, Place
<1>10. ASSUME NEW d \in Cpu, d # c
       PROVE  /\ HeldOn(d)' = HeldOn(d) /\ Place(d)' = Place(d) /\ LockOf(d)' = LockOf(d)
              /\ cur[d] \in Thread /\ cur[d] # t
  <2>1. cur[d] \in Thread /\ cur[d] # t /\ FrameOf(cur[d]) \in Frame /\ cur' = cur
    BY <1>0, <1>1, <1>10, Current DEF Ind, Running
  <2> QED
    BY <1>1, <1>6, <1>8, <2>1 DEF HeldOn, Place, LockOf
<1>11. Frames'
  <2> SUFFICES ASSUME NEW u \in Thread, NEW f \in Frame PROVE FrameOK(u, f)'
    BY DEF Frames
  <2>1. FrameOK(u, f) /\ held' = held /\ lk' = lk /\ eflags' = eflags /\ fresh' = fresh
    BY <1>1 DEF Ind, Frames
  <2>2. pc'[u][f] = pc[u][f] \/ pc'[u][f] = "run"
    BY <1>6
  <2> QED
    BY ONLY <2>1, <2>2 DEF FrameOK
<1>12. Stacks'
  <2> SUFFICES ASSUME NEW u \in Thread
               PROVE  /\ ~intr'[u] => held[u]["intr"] = {}
                      /\ intr'[u] => /\ held[u]["base"] = {}
                                     /\ pc'[u]["base"] \in {"loop", "run", "cli"}
    BY <1>1 DEF Stacks
  <2>1. CASE u = t
    BY <1>3, <1>4, <1>5, <1>6, <2>1 DEF Frame
  <2>2. CASE u # t
    BY <1>5, <1>6, <2>2 DEF Ind, Stacks, Frame
  <2> QED
    BY <2>1, <2>2
<1>13. Running'
  BY <1>1 DEF Ind, Running
<1>14. Parked'
  <2> SUFFICES ASSUME NEW u \in Thread, \A d \in Cpu : cur[d] # u
               PROVE  /\ pc'[u][FrameOf(u)'] = "run" /\ held[u][FrameOf(u)'] = {ptable}
                      /\ u \in Cpu => ~intr'[u]
                      /\ u \in Proc /\ (fresh[u] => intr'[u]) => (saved[u] <=> ~intr'[u])
    BY <1>1 DEF Parked
  <2>1. u # t /\ FrameOf(u)' = FrameOf(u) /\ FrameOf(u) \in Frame /\ intr'[u] = intr[u]
    BY <1>0, <1>5, <1>8 DEF FrameOf, Frame
  <2> QED
    BY <1>6, <2>1 DEF Ind, Parked
<1>15. Masks'
  <2> SUFFICES ASSUME NEW d \in Cpu PROVE MaskOK(d)' /\ CountOK(d)'
    BY DEF Masks
  <2>1. CASE d = c
    <3>1. MaskOK(c)'
      BY <1>0, <1>1, <1>3, <1>5 DEF MaskOK
    <3>2. CountOK(c)'
      BY <1>1, <1>3, <1>9, FS_EmptySet DEF CountOK
    <3> QED
      BY <2>1, <3>1, <3>2
  <2>2. CASE d # c
    <3>1. MaskOK(d) /\ CountOK(d)
      BY DEF Ind, Masks
    <3>2. /\ HeldOn(d)' = HeldOn(d) /\ Place(d)' = Place(d) /\ intr'[cur[d]] = intr[cur[d]]
          /\ iflag'[d] = iflag[d] /\ cur' = cur /\ ncli' = ncli /\ intena' = intena
          /\ fresh' = fresh
      BY <1>1, <1>5, <1>10, <2>2
    <3> QED
      BY ONLY <3>1, <3>2 DEF MaskOK, CountOK
  <2> QED
    BY <2>1, <2>2
<1>16. LockedIsHeld'
  BY <1>1, <1>3, <1>9, <1>10 DEF Ind, LockedIsHeld
<1>17. OwnerHolds'
  BY <1>1, <1>3, <1>9, <1>10 DEF Ind, OwnerHolds
<1>18. MutualExclusion' /\ NoLockPanic'
  BY <1>1, <1>9, <1>10 DEF Ind, MutualExclusion, NoLockPanic
<1> QED
  BY <1>7, <1>11, <1>12, <1>13, <1>14, <1>15, <1>16, <1>17, <1>18 DEF Ind

LEMMA IretInd ==
    ASSUME Ind, NEW c \in Cpu, Iret(c)
    PROVE  Ind'
<1> USE SpinlockAssumption
<1>0. PICK t \in Thread : TypeOK /\ t = cur[c]
  BY Current DEF Ind
<1>1. /\ intr[t] /\ Place(c) = "run" /\ HeldOn(c) = {}
      /\ iflag' = [iflag EXCEPT ![c] = TRUE]
      /\ intr' = [intr EXCEPT ![t] = FALSE]
      /\ UNCHANGED <<locked, owner, ncli, intena, cur, fresh, pc, lk, eflags, held,
                     saved, panicked>>
  BY <1>0 DEF Iret, At, Place
<1>2. ncli[c] = 0
  <2>1. CountOK(c)
    BY DEF Ind, Masks
  <2> QED
    BY <1>1, <2>1, FS_EmptySet DEF CountOK
<1>3. /\ held[t]["intr"] = {} /\ held[t]["base"] = {}
      /\ pc[t]["base"] \in {"loop", "run", "cli"}
  BY <1>0, <1>1 DEF HeldOn, FrameOf, Ind, Stacks
<1>4. /\ intr' \in [Thread -> BOOLEAN] /\ ~intr'[t]
      /\ \A u \in Thread : u # t => intr'[u] = intr[u]
      /\ iflag' \in [Cpu -> BOOLEAN] /\ iflag'[c]
      /\ \A d \in Cpu : d # c => iflag'[d] = iflag[d]
  BY <1>0, <1>1 DEF TypeOK
<1>5. TypeOK'
  BY <1>0, <1>1, <1>4 DEF TypeOK
<1>6. FrameOf(t)' = "base" /\ \A u \in Thread : u # t => FrameOf(u)' = FrameOf(u)
  BY <1>4 DEF FrameOf
<1>7. HeldOn(c)' = {} /\ Place(c)' \in {"loop", "run", "cli"}
  BY <1>0, <1>1, <1>3, <1>6 DEF HeldOn, Place
<1>8. ASSUME NEW d \in Cpu, d # c
      PROVE  /\ HeldOn(d)' = HeldOn(d) /\ Place(d)' = Place(d) /\ LockOf(d)' = LockOf(d)
             /\ cur[d] \in Thread /\ cur[d] # t
  <2>1. cur[d] \in Thread /\ cur[d] # t /\ cur' = cur
    BY <1>0, <1>1, <1>8, Current DEF Ind, Running
  <2> QED
    BY <1>1, <1>6, <2>1 DEF HeldOn, Place, LockOf
<1>9. Frames'
  BY <1>1 DEF Ind, Frames, FrameOK
<1>10. Stacks'
  <2> SUFFICES ASSUME NEW u \in Thread
               PROVE  /\ ~intr'[u] => held[u]["intr"] = {}
                      /\ intr'[u] => /\ held[u]["base"] = {}
                                     /\ pc[u]["base"] \in {"loop", "run", "cli"}
    BY <1>1 DEF Stacks
  <2> QED
    BY <1>3, <1>4 DEF Ind, Stacks
<1>11. Running'
  BY <1>1 DEF Ind, Running
<1>12. Parked'
  <2> SUFFICES ASSUME NEW u \in Thread, \A d \in Cpu : cur[d] # u
               PROVE  /\ pc[u][FrameOf(u)'] = "run" /\ held[u][FrameOf(u)'] = {ptable}
                      /\ u \in Cpu => ~intr'[u]
                      /\ u \in Proc /\ (fresh[u] => intr'[u]) => (saved[u] <=> ~intr'[u])
    BY <1>1 DEF Parked
  <2>1. u # t /\ FrameOf(u)' = FrameOf(u) /\ intr'[u] = intr[u]
    BY <1>0, <1>4, <1>6
  <2> QED
    BY <2>1 DEF Ind, Parked
<1>13. Masks'
  <2> SUFFICES ASSUME NEW d \in Cpu PROVE MaskOK(d)' /\ CountOK(d)'
    BY DEF Masks
  <2>1. CASE d = c
    <3>1. MaskOK(c)'
      BY <1>0, <1>1, <1>2, <1>4, <1>7 DEF MaskOK
    <3>2. CountOK(c)'
      BY <1>1, <1>2, <1>7, FS_EmptySet DEF CountOK
    <3> QED
      BY <2>1, <3>1, <3>2
  <2>2. CASE d # c
    <3>1. MaskOK(d) /\ CountOK(d)
      BY DEF Ind, Masks
    <3>2. /\ HeldOn(d)' = HeldOn(d) /\ Place(d)' = Place(d) /\ intr'[cur[d]] = intr[cur[d]]
          /\ iflag'[d] = iflag[d] /\ cur' = cur /\ ncli' = ncli /\ intena' = intena
          /\ fresh' = fresh
      BY <1>1, <1>4, <1>8, <2>2
    <3> QED
      BY ONLY <3>1, <3>2 DEF MaskOK, CountOK
  <2> QED
    BY <2>1, <2>2
<1>14. LockedIsHeld'
  BY <1>1, <1>7, <1>8 DEF Ind, LockedIsHeld
<1>15. OwnerHolds'
  BY <1>1, <1>7, <1>8 DEF Ind, OwnerHolds
<1>16. MutualExclusion' /\ NoLockPanic'
  BY <1>1, <1>7, <1>8 DEF Ind, MutualExclusion, NoLockPanic
<1> QED
  BY <1>5, <1>9, <1>10, <1>11, <1>12, <1>13, <1>14, <1>15, <1>16 DEF Ind

LEMMA ForkReturnInd ==
    ASSUME Ind, NEW c \in Cpu, ForkReturn(c)
    PROVE  Ind'
<1> USE SpinlockAssumption
<1>0. PICK t \in Thread : TypeOK /\ t = cur[c]
  BY Current DEF Ind
<1>1. /\ Place(c) = "run" /\ HeldOn(c) = {} /\ ~intr[t]
      /\ iflag' = [iflag EXCEPT ![c] = TRUE]
      /\ fresh' = [fresh EXCEPT ![t] = FALSE]
      /\ UNCHANGED <<locked, owner, ncli, intena, cur, intr, pc, lk, eflags, held,
                     saved, panicked>>
  BY <1>0 DEF ForkReturn, At, Place
<1>2. ncli[c] = 0
  <2>1. CountOK(c)
    BY DEF Ind, Masks
  <2> QED
    BY <1>1, <2>1, FS_EmptySet DEF CountOK
<1>3. /\ fresh' \in [Thread -> BOOLEAN] /\ ~fresh'[t]
      /\ \A u \in Thread : u # t => fresh'[u] = fresh[u]
      /\ iflag' \in [Cpu -> BOOLEAN] /\ iflag'[c]
      /\ \A d \in Cpu : d # c => iflag'[d] = iflag[d]
  BY <1>0, <1>1 DEF TypeOK
<1>4. TypeOK'
  BY <1>0, <1>1, <1>3 DEF TypeOK
<1>5. \A d \in Cpu : HeldOn(d)' = HeldOn(d) /\ Place(d)' = Place(d) /\ LockOf(d)' = LockOf(d)
  BY <1>1 DEF HeldOn, Place, LockOf, FrameOf
<1>6. Frames'
  <2> SUFFICES ASSUME NEW u \in Thread, NEW f \in Frame PROVE FrameOK(u, f)'
    BY DEF Frames
  <2>1. FrameOK(u, f) /\ held' = held /\ lk' = lk /\ eflags' = eflags /\ pc' = pc
    BY <1>1 DEF Ind, Frames
  <2>2. ~fresh[u] => ~fresh'[u]
    BY <1>3
  <2> QED
    BY ONLY <2>1, <2>2 DEF FrameOK
<1>7. Stacks' /\ Running'
  BY <1>1 DEF Ind, Stacks, Running
<1>8. Parked'
  <2> SUFFICES ASSUME NEW u \in Thread, \A d \in Cpu : cur[d] # u
               PROVE  /\ pc[u][FrameOf(u)] = "run" /\ held[u][FrameOf(u)] = {ptable}
                      /\ u \in Cpu => ~intr[u]
                      /\ u \in Proc /\ (fresh'[u] => intr[u]) => (saved[u] <=> ~intr[u])
    BY <1>1 DEF Parked, FrameOf
  <2>1. fresh'[u] = fresh[u]
    BY <1>0, <1>3
  <2> QED
    BY <2>1 DEF Ind, Parked
<1>9. Masks'
  <2> SUFFICES ASSUME NEW d \in Cpu PROVE MaskOK(d)' /\ CountOK(d)'
    BY DEF Masks
  <2>1. MaskOK(d) /\ CountOK(d)
    BY DEF Ind, Masks
  <2>2. CountOK(d)'
    BY <1>1, <1>5, <2>1 DEF CountOK
  <2>3. CASE d = c
    <3>1. MaskOK(c)'
      BY <1>0, <1>1, <1>2, <1>3, <1>5 DEF MaskOK
    <3> QED
      BY <2>2, <2>3, <3>1
  <2>4. CASE d # c
    <3>1. cur[d] \in Thread /\ cur[d] # t
      BY <1>0, <2>4, Current DEF Ind, Running
    <3>2. /\ HeldOn(d)' = HeldOn(d) /\ Place(d)' = Place(d) /\ intr' = intr
          /\ iflag'[d] = iflag[d] /\ cur' = cur /\ ncli' = ncli /\ intena' = intena
          /\ fresh'[cur[d]] = fresh[cur[d]]
      BY <1>1, <1>3, <1>5, <2>4, <3>1
    <3>3. MaskOK(d)'
      BY ONLY <2>1, <3>2 DEF MaskOK
    <3> QED
      BY <2>2, <3>3
  <2> QED
    BY <2>3, <2>4
<1>10. LockedIsHeld' /\ OwnerHolds' /\ MutualExclusion' /\ NoLockPanic'
  BY <1>1, <1>5 DEF Ind, LockedIsHeld, OwnerHolds, MutualExclusion, NoLockPanic
<1> QED
  BY <1>4, <1>6, <1>7, <1>8, <1>9, <1>10 DEF Ind

(* A switch from stack t to stack s, both of which hold ptable.lock alone: the
   lock passes from one to the other, and the lock words do not notice. *)
LEMMA SwitchInd ==
    ASSUME Ind, NEW c \in Cpu, NEW t \in Thread, NEW s \in Thread,
           t = cur[c], \A d \in Cpu : cur[d] # s, s = c \/ s \in Proc,
           cur' = [cur EXCEPT ![c] = s], Place(c) = "run", HeldOn(c) = {ptable},
           UNCHANGED <<locked, owner, iflag, ncli, intr, fresh, pc, lk, eflags, held>>,
           intena' \in [Cpu -> BOOLEAN], saved' \in [Thread -> BOOLEAN],
           \A d \in Cpu : d # c => intena'[d] = intena[d],
           \A u \in Thread : u # t /\ u # s => saved'[u] = saved[u],
           t \in Cpu => ~intr[t],
           t \in Proc /\ (fresh[t] => intr[t]) => (saved'[t] <=> ~intr[t]),
           s \in Proc /\ (fresh[s] => intr[s]) => (intena'[c] <=> ~intr[s]),
           panicked' = FALSE
    PROVE  Ind'
<1> USE SpinlockAssumption
<1>1. /\ cur' \in [Cpu -> Thread] /\ cur'[c] = s
      /\ \A d \in Cpu : d # c => cur'[d] = cur[d] /\ cur[d] # t /\ cur[d] \in Thread
  BY DEF Ind, TypeOK, Running
<1>2. \A u : FrameOf(u)' = FrameOf(u)
  BY DEF FrameOf
<1>3. /\ pc[s][FrameOf(s)] = "run" /\ held[s][FrameOf(s)] = {ptable}
      /\ s \in Cpu => ~intr[s]
  BY DEF Ind, Parked
<1>4. HeldOn(c)' = {ptable} /\ Place(c)' = "run"
  BY <1>1, <1>2, <1>3 DEF HeldOn, Place
<1>5. \A d \in Cpu : d # c =>
         HeldOn(d)' = HeldOn(d) /\ Place(d)' = Place(d) /\ LockOf(d)' = LockOf(d)
  BY <1>1, <1>2 DEF HeldOn, Place, LockOf
<1>6. TypeOK'
  BY <1>1 DEF Ind, TypeOK
<1>7. Frames' /\ Stacks'
  BY DEF Ind, Frames, FrameOK, Stacks
<1>8. Running'
  BY <1>1 DEF Ind, Running
<1>9. Parked'
  <2> SUFFICES ASSUME NEW u \in Thread, \A d \in Cpu : cur'[d] # u
               PROVE  /\ pc[u][FrameOf(u)] = "run" /\ held[u][FrameOf(u)] = {ptable}
                      /\ u \in Cpu => ~intr[u]
                      /\ u \in Proc /\ (fresh[u] => intr[u]) => (saved'[u] <=> ~intr[u])
    BY <1>2 DEF Parked
  <2>1. CASE u = t
    BY <2>1 DEF HeldOn, Place
  <2>2. CASE u # t
    <3>1. u # s /\ \A d \in Cpu : cur[d] # u
      BY <1>1, <2>2
    <3> QED
      BY <2>2, <3>1 DEF Ind, Parked
  <2> QED
    BY <2>1, <2>2
<1>10. Masks'
  <2> SUFFICES ASSUME NEW d \in Cpu PROVE MaskOK(d)' /\ CountOK(d)'
    BY DEF Masks
  <2>1. MaskOK(d) /\ CountOK(d)
    BY DEF Ind, Masks
  <2>2. CASE d = c
    <3>1. CountOK(c)'
      BY <1>4, <2>1, <2>2 DEF CountOK
    <3>2. ~iflag[c]
      BY <2>1, <2>2 DEF MaskOK
    <3>3. intr[s] => s \in Proc
      BY <1>3
    <3>4. intr[s] \in BOOLEAN /\ fresh[s] \in BOOLEAN /\ intena'[c] \in BOOLEAN
      BY DEF Ind, TypeOK
    <3>5. intr[s] => ~intena'[c]
      BY <3>3, <3>4
    <3>6. s \in Proc /\ ~fresh[s] /\ ~intr[s] => intena'[c]
      BY <3>4
    <3>7. cur'[c] = s /\ intr' = intr /\ fresh' = fresh /\ iflag' = iflag /\ HeldOn(c)' # {}
      BY <1>1, <1>4
    <3>8. MaskOK(c)'
      BY ONLY <3>2, <3>5, <3>6, <3>7 DEF MaskOK
    <3> QED
      BY <2>2, <3>1, <3>8
  <2>3. CASE d # c
    <3>1. /\ HeldOn(d)' = HeldOn(d) /\ Place(d)' = Place(d) /\ intr' = intr
          /\ iflag' = iflag /\ cur'[d] = cur[d] /\ ncli' = ncli /\ intena'[d] = intena[d]
          /\ fresh' = fresh
      BY <1>1, <1>5, <2>3
    <3> QED
      BY ONLY <2>1, <3>1 DEF MaskOK, CountOK
  <2> QED
    BY <2>2, <2>3
<1>11. LockedIsHeld'
  BY <1>4, <1>5 DEF Ind, LockedIsHeld
<1>12. OwnerHolds'
  BY <1>4, <1>5 DEF Ind, OwnerHolds
<1>13. MutualExclusion' /\ NoLockPanic'
  BY <1>4, <1>5 DEF Ind, MutualExclusion, NoLockPanic
<1> QED
  BY <1>6, <1>7, <1>8, <1>9, <1>10, <1>11, <1>12, <1>13 DEF Ind

LEMMA SchedInd ==
    ASSUME Ind, NEW c \in Cpu, Sched(c)
    PROVE  Ind'
<1> USE SpinlockAssumption
<1>0. PICK t \in Thread : TypeOK /\ t = cur[c]
  BY Current DEF Ind
<1>1. /\ t \in Proc /\ (fresh[t] => intr[t])
      /\ Place(c) = "run" /\ HeldOn(c) = {ptable}
      /\ panicked' = (~Holding(c, ptable) \/ ncli[c] # 1 \/ iflag[c])
      /\ saved' = [saved EXCEPT ![t] = intena[c]]
      /\ cur' = [cur EXCEPT ![c] = c]
      /\ UNCHANGED <<locked, owner, iflag, ncli, intena, intr, fresh, pc, lk,
                     eflags, held>>
  BY <1>0 DEF Sched, At, Place
<1>2. MaskOK(c) /\ CountOK(c)
  BY DEF Ind, Masks
<1>3. ncli[c] = 1
  <2>1. Cardinality({ptable}) = 1
    BY FS_Singleton
  <2> QED
    BY <1>1, <1>2, <2>1 DEF CountOK
<1>4. panicked' = FALSE
  <2>1. locked[ptable] /\ owner[ptable] = c
    BY <1>1 DEF Ind, LockedIsHeld, OwnerHolds
  <2>2. ~iflag[c]
    BY <1>1, <1>2 DEF MaskOK
  <2>3. ~(~Holding(c, ptable) \/ ncli[c] # 1 \/ iflag[c])
    BY <1>3, <2>1, <2>2 DEF Holding
  <2> QED
    BY <1>1, <2>3
<1>5. \A d \in Cpu : cur[d] # c
  BY <1>0, <1>1 DEF Ind, Running
<1>6. intena[c] <=> ~intr[t]
  BY <1>0, <1>1, <1>2, <1>3, Current DEF MaskOK
<1>7. /\ saved' \in [Thread -> BOOLEAN] /\ saved'[t] = intena[c]
      /\ \A u \in Thread : u # t => saved'[u] = saved[u]
  BY <1>0, <1>1 DEF TypeOK
<1>8. intena' \in [Cpu -> BOOLEAN] /\ c \in Thread /\ t \notin Cpu /\ c \notin Proc
  BY <1>0, <1>1 DEF TypeOK, Thread
<1>9. saved'[t] <=> ~intr[t]
  BY <1>6, <1>7
<1>10. \A d \in Cpu : d # c => intena'[d] = intena[d]
  BY <1>1
<1>11. \A u \in Thread : u # t /\ u # c => saved'[u] = saved[u]
  BY <1>7
<1>12. t \in Cpu => ~intr[t]
  BY <1>8
<1>13. t \in Proc /\ (fresh[t] => intr[t]) => (saved'[t] <=> ~intr[t])
  BY <1>9
<1>14. c \in Proc /\ (fresh[c] => intr[c]) => (intena'[c] <=> ~intr[c])
  BY <1>8
<1>15. saved' \in [Thread -> BOOLEAN]
  BY <1>7
<1>16. intena' \in [Cpu -> BOOLEAN] /\ c \in Thread
  BY <1>8
<1>17. cur' = [cur EXCEPT ![c] = c] /\ Place(c) = "run" /\ HeldOn(c) = {ptable}
  BY <1>1
<1>18. UNCHANGED <<locked, owner, iflag, ncli, intr, fresh, pc, lk, eflags, held>>
  BY <1>1
<1> HIDE SpinlockAssumption
<1> QED
  BY ONLY Ind, c \in Cpu, <1>0, <1>4, <1>5, <1>10, <1>11, <1>12, <1>13, <1>14,
          <1>15, <1>16, <1>17, <1>18, SwitchInd, ZenonT(60)

LEMMA SwtchInd ==
    ASSUME Ind, NEW c \in Cpu, NEW p \in Proc, Swtch(c, p)
    PROVE  Ind'
<1> USE SpinlockAssumption
<1>0. TypeOK /\ p \in Thread /\ c \in Thread /\ p \notin Cpu /\ c \notin Proc
  BY DEF Ind, Thread
<1>1. /\ cur[c] = c /\ ~intr[c]
      /\ Place(c) = "run" /\ HeldOn(c) = {ptable}
      /\ \A d \in Cpu : cur[d] # p
      /\ cur' = [cur EXCEPT ![c] = p]
      /\ intena' = IF fresh[p] /\ ~intr[p] THEN intena ELSE [intena EXCEPT ![c] = saved[p]]
      /\ saved' = [saved EXCEPT ![p] = FALSE]
      /\ UNCHANGED <<locked, owner, iflag, ncli, intr, fresh, pc, lk, eflags, held,
                     panicked>>
  BY DEF Swtch, At, Place
<1>2. (fresh[p] => intr[p]) => (saved[p] <=> ~intr[p])
  BY <1>0, <1>1 DEF Ind, Parked
<1>3. saved[p] \in BOOLEAN
  BY <1>0 DEF TypeOK
<1>4. /\ intena' \in [Cpu -> BOOLEAN]
      /\ (fresh[p] => intr[p]) => intena'[c] = saved[p]
      /\ \A d \in Cpu : d # c => intena'[d] = intena[d]
  <2>1. CASE fresh[p] /\ ~intr[p]
    BY <1>0, <1>1, <2>1 DEF TypeOK
  <2>2. CASE ~(fresh[p] /\ ~intr[p])
    BY <1>0, <1>1, <1>3, <2>2 DEF TypeOK
  <2> QED
    BY <2>1, <2>2
<1>5. /\ saved' \in [Thread -> BOOLEAN]
      /\ \A u \in Thread : u # p => saved'[u] = saved[u]
  BY <1>0, <1>1 DEF TypeOK
<1>6. panicked' = FALSE
  BY <1>0, <1>1 DEF Ind, NoLockPanic, TypeOK
<1>7. (fresh[p] => intr[p]) => (intena'[c] <=> ~intr[p])
  BY <1>2, <1>4
<1> HIDE SpinlockAssumption
<1> QED
  BY <1>0, <1>1, <1>4, <1>5, <1>6, <1>7, SwitchInd, ZenonT(60)

-----------------------------------------------------------------------------
LEMMA InitInd == Init => Ind
<1> USE SpinlockAssumption
<1> SUFFICES ASSUME Init PROVE Ind
  OBVIOUS
<1>1. TypeOK
  <2>1. /\ locked \in [Lock -> BOOLEAN] /\ owner \in [Lock -> Cpu \cup {NoCpu}]
        /\ iflag \in [Cpu -> BOOLEAN] /\ ncli \in [Cpu -> Nat]
        /\ intena \in [Cpu -> BOOLEAN] /\ cur \in [Cpu -> Thread]
    BY DEF Init, Thread
  <2>2. /\ intr \in [Thread -> BOOLEAN] /\ fresh \in [Thread -> BOOLEAN]
        /\ saved \in [Thread -> BOOLEAN] /\ panicked \in BOOLEAN
    <3>1. \A t \in Thread : (t \in Proc) \in BOOLEAN
      OBVIOUS
    <3>2. fresh \in [Thread -> BOOLEAN]
      BY <3>1 DEF Init
    <3> QED
      BY <3>2 DEF Init
  <2>3. pc \in [Thread -> [Frame -> PCs]]
    BY DEF Init, PCs
  <2>4. lk \in [Thread -> [Frame -> Lock \cup {NoLock}]]
    BY DEF Init
  <2>5. eflags \in [Thread -> [Frame -> BOOLEAN]]
    BY DEF Init
  <2>6. held \in [Thread -> [Frame -> SUBSET Lock]]
    BY DEF Init
  <2> QED
    BY <2>1, <2>2, <2>3, <2>4, <2>5, <2>6 DEF TypeOK
<1>2. \A c \in Cpu : /\ cur[c] = c /\ FrameOf(cur[c]) = "base" /\ HeldOn(c) = {}
                     /\ Place(c) = "loop" /\ ~intr[cur[c]] /\ c \notin Proc
                     /\ iflag[c] = FALSE /\ ncli[c] = 0
  BY DEF Init, HeldOn, Place, FrameOf, Thread, Frame
<1>3. Frames
  <2> SUFFICES ASSUME NEW t \in Thread, NEW f \in Frame PROVE FrameOK(t, f)
    BY DEF Frames
  <2>1. pc[t][f] \in {"loop", "run"} /\ (pc[t][f] = "loop" => held[t][f] = {})
    BY DEF Init, Thread
  <2>2. held[t][f] \in {{}, {ptable}} /\ (t \in Cpu => held[t][f] = {})
    BY DEF Init, Thread
  <2>3. IsFiniteSet(held[t][f])
    <3>1. IsFiniteSet({}) /\ IsFiniteSet({ptable})
      BY FS_EmptySet, FS_Singleton
    <3> QED
      BY <2>2, <3>1
  <2> QED
    BY ONLY <2>1, <2>2, <2>3 DEF FrameOK
<1>4. Stacks
  BY DEF Init, Stacks, Frame
<1>5. Running
  BY <1>2 DEF Running
<1>6. Parked
  <2> SUFFICES ASSUME NEW t \in Thread, \A c \in Cpu : cur[c] # t
               PROVE  /\ pc[t][FrameOf(t)] = "run" /\ held[t][FrameOf(t)] = {ptable}
                      /\ t \in Cpu => ~intr[t]
                      /\ t \in Proc /\ (fresh[t] => intr[t]) => (saved[t] <=> ~intr[t])
    BY DEF Parked
  <2>1. t \in Proc /\ t \notin Cpu
    BY <1>2 DEF Thread
  <2>2. ~intr[t] /\ fresh[t] /\ FrameOf(t) = "base"
    BY <2>1 DEF Init, FrameOf
  <2> QED
    BY <2>1, <2>2 DEF Init, Frame
<1>7. Masks
  <2>1. Cardinality({}) = 0
    BY FS_EmptySet
  <2>2. ASSUME NEW c \in Cpu PROVE CountOK(c)
    BY <1>2, <2>1 DEF CountOK
  <2>3. ASSUME NEW c \in Cpu PROVE MaskOK(c)
    BY <1>2 DEF MaskOK
  <2> QED
    BY <2>2, <2>3 DEF Masks
<1>8. LockedIsHeld /\ OwnerHolds
  BY <1>2 DEF Init, LockedIsHeld, OwnerHolds
<1>9. MutualExclusion /\ NoLockPanic
  BY <1>2 DEF Init, MutualExclusion, NoLockPanic
<1> QED
  BY <1>1, <1>3, <1>4, <1>5, <1>6, <1>7, <1>8, <1>9 DEF Ind

LEMMA NextInd == Ind /\ [Next]_vars => Ind'
<1> SUFFICES ASSUME Ind, [Next]_vars PROVE Ind'
  OBVIOUS
<1>1. ASSUME NEW c \in Cpu, Step(c) PROVE Ind'
  <2>1. ASSUME NEW l \in Lock, Acquire(c, l) PROVE Ind'
    BY <2>1, AcquireInd
  <2>2. ASSUME NEW l \in Lock, Release(c, l) PROVE Ind'
    BY <2>2, ReleaseInd
  <2>3. CASE Pushcli(c)
    BY <2>3, PushcliInd
  <2>4. CASE Xchg(c)
    BY <2>4, XchgInd
  <2>5. CASE Record(c)
    BY <2>5, RecordInd
  <2>6. CASE Unlock(c)
    BY <2>6, UnlockInd
  <2>7. CASE Popcli(c)
    BY <2>7, PopcliInd
  <2>8. CASE Interrupt(c)
    BY <2>8, InterruptInd
  <2>9. CASE Iret(c)
    BY <2>9, IretInd
  <2>10. CASE ForkReturn(c)
    BY <2>10, ForkReturnInd
  <2>11. CASE Sti(c)
    BY <2>11, StiInd
  <2>12. CASE Sched(c)
    BY <2>12, SchedInd
  <2>13. ASSUME NEW p \in Proc, Swtch(c, p) PROVE Ind'
    BY <2>13, SwtchInd
  <2> QED
    BY <1>1, <2>1, <2>2, <2>3, <2>4, <2>5, <2>6, <2>7, <2>8, <2>9, <2>10, <2>11,
       <2>12, <2>13 DEF Step
<1>2. CASE UNCHANGED vars
  <2>1. /\ \A t : FrameOf(t)' = FrameOf(t)
        /\ \A c : HeldOn(c)' = HeldOn(c) /\ Place(c)' = Place(c) /\ LockOf(c)' = LockOf(c)
    BY <1>2 DEF vars, HeldOn, Place, LockOf, FrameOf
  <2>2. TypeOK' /\ Stacks' /\ Running' /\ NoLockPanic'
    BY <1>2 DEF vars, Ind, TypeOK, Stacks, Running, NoLockPanic
  <2>3. Frames'
    BY <1>2 DEF vars, Ind, Frames, FrameOK
  <2>4. Parked'
    BY <1>2, <2>1 DEF vars, Ind, Parked
  <2>5. Masks'
    BY <1>2, <2>1 DEF vars, Ind, Masks, MaskOK, CountOK
  <2>6. LockedIsHeld' /\ OwnerHolds' /\ MutualExclusion'
    BY <1>2, <2>1 DEF vars, Ind, LockedIsHeld, OwnerHolds, MutualExclusion
  <2> QED
    BY <2>2, <2>3, <2>4, <2>5, <2>6 DEF Ind
<1> QED
  BY <1>1, <1>2 DEF Next

LEMMA IndAlways == Spec => []Ind
  BY InitInd, NextInd, PTL DEF Spec

(* Two CPUs never hold the same spin lock, although release() clears lk->cpu and
   the lock word in separate steps, interrupts come wherever they are enabled,
   and swtch passes ptable.lock from one stack to another. *)
THEOREM SpinlockExcludes == Spec => []MutualExclusion
<1>1. Ind => MutualExclusion
  BY DEF Ind
<1> QED
  BY <1>1, IndAlways, PTL

(* ncli counts the locks of the code that runs on the CPU; no interrupt comes
   under a lock; and a process gets its interrupts back on whatever CPU it
   continues, since sched() carries intena from one CPU to the other. *)
THEOREM MaskingCorrect == Spec => []LockInv
<1>1. Ind => LockInv
  <2> SUFFICES ASSUME Ind PROVE LockInv
    OBVIOUS
  <2>1. ASSUME NEW c \in Cpu
        PROVE  MaskOK(c) /\ CountOK(c) /\ \A place : At(c, place) <=> Place(c) = place
    BY Current DEF Ind, Masks
  <2>2. NcliCounts
    BY <2>1 DEF NcliCounts, CountOK
  <2>3. MaskedWhileHolding
    BY <2>1 DEF MaskedWhileHolding, MaskOK
  <2>4. InterruptsFollowStack
    BY <2>1 DEF InterruptsFollowStack, MaskOK
  <2> QED
    BY <2>2, <2>3, <2>4 DEF LockInv, Ind
<1> QED
  BY <1>1, IndAlways, PTL

(* The panics "acquire", "release", "popcli", "popcli - interruptible", "sched
   ptable.lock", "sched locks" and "sched interruptible" are unreachable. *)
THEOREM LocksNeverPanic == Spec => []NoLockPanic
<1>1. Ind => NoLockPanic
  BY DEF Ind
<1> QED
  BY <1>1, IndAlways, PTL

(***************************************************************************)
(* The clock                                                               *)
(***************************************************************************)

Time == 0 .. TickMod - 1

(* Where a CPU has ptable.lock *)
PtablePlaces == {"scan", "uptime", "resumed", "back"}

(* The locks are held where they should be. *)
ClockLocks ==
    \A c \in CPU :
        /\ ptlock = c <=> cpc[c] \in PtablePlaces
        /\ tickslock = c <=> cpc[c] \in {"test", "sleep"} \/ irq[c] = "wakeup"

(* A handler interrupts code without locks, and makes only a process yield. *)
Handlers ==
    \A c \in CPU : /\ irq[c] # "none" => cpc[c] \in {"loop", "proc"}
                   /\ irq[c] = "yield" => cpc[c] = "proc"

(* A process is on one CPU at most, and RUNNING from the moment it is picked to
   the moment it gives the CPU up. *)
OnCpu ==
    /\ \A c \in CPU : running[c] = Free <=> cpc[c] \in {"loop", "scan"}
    /\ \A c, d \in CPU : c # d /\ running[c] # Free => running[c] # running[d]
    /\ \A c \in CPU : running[c] # Free /\ cpc[c] # "back" => pstate[running[c]] = "RUNNING"

(* What sys_sleep() has found out about ticks stays true while it holds
   tickslock; afterwards a tick that ends the sleep comes with a wakeup. *)
Tested ==
    /\ \A c \in CPU : /\ cpc[c] \in {"test", "sleep"} => insleep[running[c]]
                      /\ cpc[c] = "sleep" => ~C!Due(running[c])
    /\ \A p \in Proc : pstate[p] = "SLEEPING" =>
          ~C!Due(p) \/ \E c \in CPU : irq[c] = "wakeup"

(* ticks - ticks0 is the time since the call as long as this is less than n,
   and so less than the width of the counter. *)
Elapsed ==
    \A p \in Proc : insleep[p] =>
        /\ elapsed[p] <= n[p]
        /\ elapsed[p] < n[p] => C!Minus(ticks, ticks0[p]) = elapsed[p]

(* The ticks charged, and those of the slice that the process is in *)
Slice(p) == IF C!Charged(p) THEN C!Minus(ticks, sched_time[p]) ELSE 0
Booked(p) == (hip_ticks[p] + lop_ticks[p]) % TickMod
Accounts == \A p \in Proc : ran[p] = (Booked(p) + Slice(p)) % TickMod

(* The inductive invariant. *)
ClockInd == /\ C!TypeOK /\ ClockLocks /\ Handlers /\ OnCpu /\ Tested /\ Elapsed
            /\ Accounts

-----------------------------------------------------------------------------
(* The counter. *)

LEMMA ClockConstants ==
    /\ BootCPU \in CPU /\ Free \notin CPU /\ Free \notin Proc
    /\ TickMod \in Nat \ {0} /\ SleepArg \subseteq Time
    /\ Priority \subseteq {C!LOW_PRI, C!HIGH_PRI}
BY ClockConstantsAssumed DEF C!ClockAssumption, Time

LEMMA WrapsOnce ==
    ASSUME NEW x \in 0 .. 2 * TickMod - 1
    PROVE  /\ x % TickMod = IF x < TickMod THEN x ELSE x - TickMod
           /\ x % TickMod \in Time
<1>0. TickMod \in Nat \ {0}
  BY ClockConstants
<1>1. CASE x < TickMod
  BY <1>0, <1>1 DEF Time
<1>2. CASE ~(x < TickMod)
  <2>1. x = TickMod * 1 + (x - TickMod) /\ x - TickMod \in 0 .. TickMod - 1
    BY <1>0, <1>2
  <2>2. \A q \in Nat, k \in 0 .. TickMod - 1 : (TickMod * q + k) % TickMod = k
    BY <1>0
  <2>3. (TickMod * 1 + (x - TickMod)) % TickMod = x - TickMod
    BY <2>1, <2>2
  <2> QED BY <1>2, <2>1, <2>3 DEF Time
<1> QED BY <1>1, <1>2

LEMMA TimeMinus ==
    ASSUME NEW a \in Time, NEW b \in Time
    PROVE  /\ C!Minus(a, b) = IF b <= a THEN a - b ELSE a + TickMod - b
           /\ C!Minus(a, b) \in Time
<1> DEFINE x == a + TickMod - b
<1>1. x \in 0 .. 2 * TickMod - 1 /\ C!Minus(a, b) = x % TickMod
  BY ClockConstants DEF Time, C!Minus
<1>2. x < TickMod <=> a < b
  BY ClockConstants DEF Time
<1>3. x - TickMod = a - b
  BY ClockConstants DEF Time
<1> HIDE DEF x
<1>4. C!Minus(a, b) = (IF x < TickMod THEN x ELSE x - TickMod) /\ C!Minus(a, b) \in Time
  BY <1>1, WrapsOnce
<1> QED BY <1>2, <1>3, <1>4, ClockConstants DEF Time, x

LEMMA TimePlus ==
    ASSUME NEW a \in Time, NEW b \in Time
    PROVE  /\ (a + b) % TickMod = IF a + b < TickMod THEN a + b ELSE (a + b) - TickMod
           /\ (a + b) % TickMod \in Time
<1> DEFINE x == a + b
<1>1. x \in 0 .. 2 * TickMod - 1
  BY ClockConstants DEF Time
<1> HIDE DEF x
<1>2. /\ x % TickMod = IF x < TickMod THEN x ELSE x - TickMod
      /\ x % TickMod \in Time
  BY <1>1, WrapsOnce
<1> QED BY <1>2 DEF x

LEMMA TickNext ==
    ASSUME NEW a \in Time
    PROVE  /\ (a + 1) % TickMod = IF a = TickMod - 1 THEN 0 ELSE a + 1
           /\ (a + 1) % TickMod \in Time
<1> DEFINE x == a + 1
<1>1. x \in 0 .. 2 * TickMod - 1
  BY ClockConstants DEF Time
<1>2. (x < TickMod <=> a # TickMod - 1) /\ (a = TickMod - 1 => x - TickMod = 0)
  BY ClockConstants DEF Time
<1> HIDE DEF x
<1>3. /\ x % TickMod = IF x < TickMod THEN x ELSE x - TickMod
      /\ x % TickMod \in Time
  BY <1>1, WrapsOnce
<1> QED BY <1>2, <1>3 DEF x

(* One tick later, a difference is one more. *)
LEMMA MinusNext ==
    ASSUME NEW a \in Time, NEW b \in Time
    PROVE  C!Minus((a + 1) % TickMod, b) = (C!Minus(a, b) + 1) % TickMod
<1> DEFINE a1 == (a + 1) % TickMod
           d == C!Minus(a, b)
<1>1. a1 \in Time /\ a1 = IF a = TickMod - 1 THEN 0 ELSE a + 1
  BY TickNext
<1>2. d \in Time /\ d = IF b <= a THEN a - b ELSE a + TickMod - b
  BY TimeMinus
<1>3. (d + 1) % TickMod = IF d = TickMod - 1 THEN 0 ELSE d + 1
  BY <1>2, TickNext
<1>4. C!Minus(a1, b) = IF b <= a1 THEN a1 - b ELSE a1 + TickMod - b
  BY <1>1, TimeMinus
<1> HIDE DEF a1, d
<1>5. C!Minus(a1, b) = IF d = TickMod - 1 THEN 0 ELSE d + 1
  BY <1>1, <1>2, <1>4, ClockConstants DEF Time
<1> QED BY <1>3, <1>5 DEF a1, d

(* Sums modulo TickMod can be taken in any order. *)
LEMMA PlusAssoc ==
    ASSUME NEW a \in Time, NEW b \in Time, NEW k \in Time
    PROVE  /\ (((a + b) % TickMod) + k) % TickMod = (((a + k) % TickMod) + b) % TickMod
           /\ (((a + b) % TickMod) + k) % TickMod = (a + ((b + k) % TickMod)) % TickMod
<1>1. /\ (a + b) % TickMod \in Time
      /\ (a + b) % TickMod = IF a + b < TickMod THEN a + b ELSE (a + b) - TickMod
  BY TimePlus
<1>2. /\ (a + k) % TickMod \in Time
      /\ (a + k) % TickMod = IF a + k < TickMod THEN a + k ELSE (a + k) - TickMod
  BY TimePlus
<1>3. /\ (b + k) % TickMod \in Time
      /\ (b + k) % TickMod = IF b + k < TickMod THEN b + k ELSE (b + k) - TickMod
  BY TimePlus
<1> DEFINE ab == (a + b) % TickMod
           ak == (a + k) % TickMod
           bk == (b + k) % TickMod
<1>4. (ab + k) % TickMod = IF ab + k < TickMod THEN ab + k ELSE (ab + k) - TickMod
  BY <1>1, TimePlus
<1>5. (ak + b) % TickMod = IF ak + b < TickMod THEN ak + b ELSE (ak + b) - TickMod
  BY <1>2, TimePlus
<1>6. (a + bk) % TickMod = IF a + bk < TickMod THEN a + bk ELSE (a + bk) - TickMod
  BY <1>3, TimePlus
<1>7. /\ ab \in Time /\ ab = IF a + b < TickMod THEN a + b ELSE (a + b) - TickMod
      /\ ak \in Time /\ ak = IF a + k < TickMod THEN a + k ELSE (a + k) - TickMod
      /\ bk \in Time /\ bk = IF b + k < TickMod THEN b + k ELSE (b + k) - TickMod
  BY <1>1, <1>2, <1>3
<1> HIDE DEF ab, ak, bk
<1>8. (ab + k) % TickMod = (ak + b) % TickMod /\ (ab + k) % TickMod = (a + bk) % TickMod
  BY <1>4, <1>5, <1>6, <1>7, ClockConstants DEF Time
<1> QED BY <1>8, Zenon DEF ab, ak, bk

-----------------------------------------------------------------------------
(* Every step preserves the invariant. *)

(* The types, with the arithmetic of Back and Tick. *)
LEMMA ClockTypeStep == ASSUME ClockInd, C!Next PROVE C!TypeOK'
<1> PICK c \in CPU : C!SchedulerStep(c) \/ C!ProcessStep(c) \/ C!TrapStep(c)
  BY DEF C!Next
<1> USE ClockConstants DEF ClockInd, C!TypeOK, OnCpu, C!At, C!Goto, C!locks, C!sleepvars,
       C!accounts, C!CpuPlaces, C!IrqPlaces, C!AfterTimer
<1>1. CASE C!StartPass(c)
  BY <1>1 DEF C!StartPass
<1>2. CASE C!EndPass(c)
  BY <1>2 DEF C!EndPass
<1>3. CASE C!Uptime(c)
  BY <1>3 DEF C!Uptime
<1>4. CASE C!Back(c)
  <2> DEFINE p == running[c]
             tdif == C!Minus(ticks, sched_time[p])
  <2>1. p \in Proc
    BY <1>4 DEF C!Back
  <2>2. tdif \in Time
    BY <2>1, TimeMinus DEF Time
  <2>3. (lop_ticks[p] + tdif) % TickMod \in Time /\ (hip_ticks[p] + tdif) % TickMod \in Time
    BY <2>1, <2>2, TimePlus DEF Time
  <2> HIDE DEF tdif
  <2>4. /\ lop_ticks' \in [Proc -> Time] /\ hip_ticks' \in [Proc -> Time]
        /\ sched_time' \in [Proc -> Time]
    BY <1>4, <2>1, <2>3 DEF C!Back, C!Charge, Time, tdif
  <2> QED BY <1>4, <2>4 DEF C!Back, Time
<1>5. CASE C!Resume(c)
  BY <1>5 DEF C!Resume
<1>6. ASSUME NEW p \in Proc, C!Dispatch(c, p) PROVE C!TypeOK'
  BY <1>6 DEF C!Dispatch
<1>7. CASE C!Relock(c)
  BY <1>7 DEF C!Relock
<1>8. CASE C!TestLoop(c)
  BY <1>8 DEF C!TestLoop
<1>9. CASE C!Return(c)
  BY <1>9 DEF C!Return
<1>10. CASE C!Sleep(c)
  BY <1>10 DEF C!Sleep
<1>11. CASE C!Exit(c)
  BY <1>11 DEF C!Exit
<1>12. ASSUME NEW k \in SleepArg, C!SysSleep(c, k) PROVE C!TypeOK'
  BY <1>12 DEF C!SysSleep, Time
<1>13. ASSUME NEW k \in Priority, C!Setpri(c, k) PROVE C!TypeOK'
  BY <1>13 DEF C!Setpri
<1>14. ASSUME NEW p \in Proc, C!Kill(c, p) PROVE C!TypeOK'
  BY <1>14 DEF C!Kill
<1>15. CASE C!Timer(c)
  BY <1>15 DEF C!Timer
<1>16. CASE C!Tick(c)
  <2>1. ticks' \in Time /\ \A x \in Time : (x + 1) % TickMod \in Time
    BY <1>16, TickNext DEF C!Tick, Time
  <2>2. ran' \in [Proc -> Time]
    BY <1>16, <2>1 DEF C!Tick, Time
  <2>3. elapsed' \in [Proc -> Time]
    BY <1>16 DEF C!Tick, Time
  <2> QED BY <1>16, <2>1, <2>2, <2>3 DEF C!Tick, Time
<1>17. CASE C!Wakeup(c)
  BY <1>17 DEF C!Wakeup
<1>18. CASE C!Yield(c)
  BY <1>18 DEF C!Yield
<1> QED BY <1>1, <1>2, <1>3, <1>4, <1>5, <1>6, <1>7, <1>8, <1>9, <1>10,
           <1>11, <1>12, <1>13, <1>14, <1>15, <1>16, <1>17, <1>18
        DEF C!SchedulerStep, C!ProcessStep, C!TrapStep

(* Where the CPUs are, what they hold and what they have tested. *)
Control == ClockLocks /\ Handlers /\ OnCpu /\ Tested

LEMMA ControlStep == ASSUME ClockInd, C!TypeOK', C!Next PROVE Control'
<1> PICK c \in CPU : C!SchedulerStep(c) \/ C!ProcessStep(c) \/ C!TrapStep(c)
  BY DEF C!Next
<1> USE ClockConstants DEF ClockInd, C!TypeOK, C!At, C!Goto, C!locks, C!sleepvars, C!accounts,
       Control, ClockLocks, PtablePlaces, Handlers, OnCpu, Tested, C!AfterTimer, C!Due
<1>1. CASE C!StartPass(c)
  BY <1>1 DEF C!StartPass
<1>2. CASE C!EndPass(c)
  BY <1>2 DEF C!EndPass
<1>3. CASE C!Uptime(c)
  BY <1>3 DEF C!Uptime
<1>4. CASE C!Back(c)
  BY <1>4 DEF C!Back
<1>5. CASE C!Resume(c)
  BY <1>5 DEF C!Resume
<1>6. ASSUME NEW p \in Proc, C!Dispatch(c, p) PROVE Control'
  BY <1>6 DEF C!Dispatch
<1>7. CASE C!Relock(c)
  BY <1>7 DEF C!Relock
<1>8. CASE C!TestLoop(c)
  BY <1>8 DEF C!TestLoop
<1>9. CASE C!Return(c)
  BY <1>9 DEF C!Return
<1>10. CASE C!Sleep(c)
  BY <1>10 DEF C!Sleep
<1>11. CASE C!Exit(c)
  BY <1>11 DEF C!Exit
<1>12. ASSUME NEW k \in SleepArg, C!SysSleep(c, k) PROVE Control'
  BY <1>12 DEF C!SysSleep
<1>13. ASSUME NEW k \in Priority, C!Setpri(c, k) PROVE Control'
  BY <1>13 DEF C!Setpri
<1>14. ASSUME NEW p \in Proc, C!Kill(c, p) PROVE Control'
  BY <1>14 DEF C!Kill
<1>15. CASE C!Timer(c)
  BY <1>15 DEF C!Timer
<1>16. CASE C!Tick(c)
  BY <1>16 DEF C!Tick
<1>17. CASE C!Wakeup(c)
  BY <1>17 DEF C!Wakeup
<1>18. CASE C!Yield(c)
  BY <1>18 DEF C!Yield
<1> QED BY <1>1, <1>2, <1>3, <1>4, <1>5, <1>6, <1>7, <1>8, <1>9, <1>10,
           <1>11, <1>12, <1>13, <1>14, <1>15, <1>16, <1>17, <1>18
        DEF C!SchedulerStep, C!ProcessStep, C!TrapStep

(* A tick counts for whoever sleeps and has not yet slept n ticks; ticks - ticks0
   cannot wrap before that, since n is less than TickMod. *)
LEMMA ElapsedStep == ASSUME ClockInd, C!TypeOK', C!Next PROVE Elapsed'
<1> PICK c \in CPU : C!SchedulerStep(c) \/ C!ProcessStep(c) \/ C!TrapStep(c)
  BY DEF C!Next
<1> USE ClockConstants DEF ClockInd, C!TypeOK, C!At, OnCpu
<1>1. CASE UNCHANGED <<ticks, insleep, ticks0, n, elapsed>>
  BY <1>1 DEF Elapsed
<1>2. CASE C!Return(c)
  BY <1>2 DEF C!Return, Elapsed
<1>3. ASSUME NEW k \in SleepArg, C!SysSleep(c, k) PROVE Elapsed'
  <2>1. C!Minus(ticks, ticks) = 0
    BY TimeMinus DEF Time
  <2> QED BY <1>3, <2>1 DEF C!SysSleep, Elapsed
<1>4. CASE C!Tick(c)
  <2> SUFFICES ASSUME NEW p \in Proc, insleep'[p]
               PROVE  /\ elapsed'[p] <= n'[p]
                      /\ elapsed'[p] < n'[p] => C!Minus(ticks', ticks0'[p]) = elapsed'[p]
    BY DEF Elapsed
  <2>1. /\ insleep[p] /\ n'[p] = n[p] /\ ticks0'[p] = ticks0[p] /\ ticks' = (ticks + 1) % TickMod
        /\ elapsed'[p] = IF elapsed[p] < n[p] THEN elapsed[p] + 1 ELSE elapsed[p]
    BY <1>4 DEF C!Tick
  <2>2. /\ elapsed[p] \in Time /\ n[p] \in Time /\ ticks0[p] \in Time /\ ticks \in Time
        /\ elapsed[p] <= n[p]
        /\ elapsed[p] < n[p] => C!Minus(ticks, ticks0[p]) = elapsed[p]
    BY <2>1 DEF Elapsed, Time
  <2>3. C!Minus(ticks', ticks0[p]) = (C!Minus(ticks, ticks0[p]) + 1) % TickMod
    BY <2>1, <2>2, MinusNext
  <2>4. elapsed[p] < n[p] => (elapsed[p] + 1) % TickMod = elapsed[p] + 1
    BY <2>2, TickNext DEF Time
  <2> QED BY <2>1, <2>2, <2>3, <2>4 DEF Time
<1> QED BY <1>1, <1>2, <1>3, <1>4
        DEF C!SchedulerStep, C!ProcessStep, C!TrapStep, C!StartPass, C!EndPass, C!Uptime, C!Back,
            C!Resume, C!Dispatch, C!Relock, C!TestLoop, C!Sleep, C!Exit, C!Setpri, C!Kill,
            C!Timer, C!Wakeup, C!Yield, C!sleepvars

(* What Back adds to one of the accounts is the slice that it ends. *)
LEMMA AccountsStep == ASSUME ClockInd, C!TypeOK', C!Next PROVE Accounts'
<1> PICK c \in CPU : C!SchedulerStep(c) \/ C!ProcessStep(c) \/ C!TrapStep(c)
  BY DEF C!Next
<1> USE ClockConstants DEF ClockInd, C!TypeOK
<1>0. \A p \in Proc : /\ hip_ticks[p] \in Time /\ lop_ticks[p] \in Time /\ Booked(p) \in Time
                       /\ sched_time[p] \in Time /\ ticks \in Time /\ Slice(p) \in Time
  <2>1. \A p \in Proc : /\ hip_ticks[p] \in Time /\ lop_ticks[p] \in Time
                         /\ sched_time[p] \in Time /\ ticks \in Time
    BY DEF Time
  <2>2. 0 \in Time
    BY DEF Time
  <2> QED BY <2>1, <2>2, TimePlus, TimeMinus DEF Booked, Slice
<1>1. ASSUME UNCHANGED <<ticks, sched_time, lop_ticks, hip_ticks, ran>>,
             \A p \in Proc : C!Charged(p)' <=> C!Charged(p)
      PROVE  Accounts'
  BY <1>1 DEF Accounts, Booked, Slice
<1>2. ASSUME running' = running, NEW place, place # "uptime", C!Goto(c, place), cpc[c] # "uptime"
      PROVE  \A p \in Proc : C!Charged(p)' <=> C!Charged(p)
  BY <1>2 DEF C!Charged, C!Goto
<1>3. CASE C!Uptime(c)
  <2> SUFFICES ASSUME NEW p \in Proc PROVE ran'[p] = (Booked(p)' + Slice(p)') % TickMod
    BY DEF Accounts
  <2>1. /\ ran' = ran /\ Booked(p)' = Booked(p) /\ ticks' = ticks
        /\ sched_time' = [sched_time EXCEPT ![running[c]] = ticks]
        /\ running' = running /\ cpc[c] = "uptime" /\ cpc' = [cpc EXCEPT ![c] = "resumed"]
    BY <1>3 DEF C!Uptime, C!At, C!Goto, C!locks, C!sleepvars, Booked
  <2>2. CASE p # running[c]
    <3>1. C!Charged(p)' <=> C!Charged(p)
      BY <2>1, <2>2 DEF C!Charged
    <3> QED BY <2>1, <2>2, <3>1 DEF Accounts, Slice
  <2>3. CASE p = running[c]
    <3>1. ~C!Charged(p)
      BY <2>1, <2>3 DEF C!Charged, OnCpu
    <3>2. Slice(p)' = 0
      <4>1. C!Minus(ticks, ticks) = 0
        BY <1>0, TimeMinus DEF Time
      <4>2. sched_time'[p] = ticks
        BY <2>1, <2>3
      <4> QED BY <2>1, <4>1, <4>2 DEF Slice
    <3>3. Slice(p) = 0
      BY <3>1 DEF Slice
    <3> QED BY <2>1, <3>2, <3>3 DEF Accounts
  <2> QED BY <2>2, <2>3
<1>4. CASE C!Back(c)
  <2> SUFFICES ASSUME NEW p \in Proc PROVE ran'[p] = (Booked(p)' + Slice(p)') % TickMod
    BY DEF Accounts
  <2> DEFINE tdif == C!Minus(ticks, sched_time[running[c]])
  <2>1. /\ ran' = ran /\ ticks' = ticks /\ running[c] # Free /\ running[c] \in Proc
        /\ running' = [running EXCEPT ![c] = Free] /\ cpc[c] = "back"
        /\ cpc' = [cpc EXCEPT ![c] = "scan"]
        /\ sched_time' = [sched_time EXCEPT ![running[c]] = 0]
    BY <1>4 DEF C!Back, C!Charge, C!At, C!Goto, OnCpu
  <2>2. \/ /\ lop_ticks' = [lop_ticks EXCEPT ![running[c]] = (lop_ticks[running[c]] + tdif) % TickMod]
           /\ hip_ticks' = hip_ticks
        \/ /\ hip_ticks' = [hip_ticks EXCEPT ![running[c]] = (hip_ticks[running[c]] + tdif) % TickMod]
           /\ lop_ticks' = lop_ticks
    BY <1>4 DEF C!Back, C!Charge
  <2> HIDE DEF tdif
  <2>3. CASE p # running[c]
    <3>1. C!Charged(p)' <=> C!Charged(p)
      BY <2>1, <2>3 DEF C!Charged
    <3>2. Booked(p)' = Booked(p)
      BY <2>2, <2>3 DEF Booked
    <3> QED BY <2>1, <2>3, <3>1, <3>2 DEF Accounts, Slice
  <2>4. CASE p = running[c]
    <3>1. C!Charged(p) /\ ~C!Charged(p)'
      BY <2>1, <2>4 DEF C!Charged, OnCpu
    <3>2. tdif \in Time /\ Slice(p) = tdif
      BY <1>0, <2>1, <2>4, <3>1, TimeMinus DEF Slice, tdif
    <3> DEFINE h == hip_ticks[p]
               l == lop_ticks[p]
    <3>3. h \in Time /\ l \in Time /\ ran[p] = (((h + l) % TickMod) + tdif) % TickMod
      BY <1>0, <3>2 DEF Accounts, Booked
    <3>4. \/ Booked(p)' = (h + ((l + tdif) % TickMod)) % TickMod
          \/ Booked(p)' = (((h + tdif) % TickMod) + l) % TickMod
      BY <2>1, <2>2, <2>4 DEF Booked
    <3> HIDE DEF h, l
    <3>5. Booked(p)' = ran[p]
      BY <3>2, <3>3, <3>4, PlusAssoc
    <3>6. Slice(p)' = 0 /\ ran[p] \in Time
      BY <3>1 DEF Slice, Time
    <3>7. (Booked(p)' + Slice(p)') % TickMod = ran[p]
      <4>1. 0 \in Time /\ ran[p] + 0 = ran[p] /\ ran[p] < TickMod
        BY <3>6 DEF Time
      <4>2. (ran[p] + 0) % TickMod = ran[p]
        BY <3>6, <4>1, TimePlus
      <4> QED BY <3>5, <3>6, <4>2
    <3> QED BY <2>1, <3>7
  <2> QED BY <2>3, <2>4
<1>5. CASE C!Tick(c)
  <2> SUFFICES ASSUME NEW p \in Proc PROVE ran'[p] = (Booked(p)' + Slice(p)') % TickMod
    BY DEF Accounts
  <2>1. /\ Booked(p)' = Booked(p) /\ sched_time' = sched_time /\ ticks' = (ticks + 1) % TickMod
        /\ C!Charged(p)' <=> C!Charged(p)
        /\ ran'[p] = IF C!Charged(p) THEN (ran[p] + 1) % TickMod ELSE ran[p]
    BY <1>5 DEF C!Tick, C!accounts, Booked, C!Charged
  <2>2. CASE ~C!Charged(p)
    BY <2>1, <2>2 DEF Accounts, Slice
  <2>3. CASE C!Charged(p)
    <3>1. Slice(p)' = (Slice(p) + 1) % TickMod
      BY <1>0, <2>1, <2>3, MinusNext DEF Slice
    <3> DEFINE b == Booked(p)
               s == Slice(p)
    <3>2. b \in Time /\ s \in Time /\ ran[p] = (b + s) % TickMod
      BY <1>0 DEF Accounts
    <3>3. /\ Booked(p)' = b /\ Slice(p)' = (s + 1) % TickMod
          /\ ran'[p] = (((b + s) % TickMod) + 1) % TickMod
      BY <2>1, <2>3, <3>1, <3>2
    <3> HIDE DEF b, s
    <3>4. (((b + s) % TickMod) + 1) % TickMod = (b + ((s + 1) % TickMod)) % TickMod
      <4>1. CASE TickMod = 1
        <5>1. \A x \in Time : x = 0
          BY <4>1 DEF Time
        <5>2. /\ (((b + s) % TickMod) + 1) % TickMod \in Time
              /\ (b + ((s + 1) % TickMod)) % TickMod \in Time
          BY <3>2, TimePlus, TickNext
        <5> QED BY <5>1, <5>2
      <4>2. CASE TickMod # 1
        <5>1. 1 \in Time
          BY <4>2 DEF Time
        <5> QED BY <3>2, <5>1, PlusAssoc
      <4> QED BY <4>1, <4>2
    <3> QED BY <3>3, <3>4
  <2> QED BY <2>2, <2>3
<1>6. ASSUME NEW p \in Proc, C!Dispatch(c, p) PROVE Accounts'
  <2>1. /\ cpc[c] = "scan" /\ running[c] = Free /\ running' = [running EXCEPT ![c] = p]
        /\ cpc' = [cpc EXCEPT ![c] = "uptime"]
        /\ \A d \in CPU : running[d] # p
    BY <1>6 DEF C!Dispatch, C!At, C!Goto, OnCpu, ClockLocks, PtablePlaces
  <2>2. \A q \in Proc : C!Charged(q)' <=> C!Charged(q)
    BY <2>1 DEF C!Charged
  <2> QED BY <1>1, <1>6, <2>2 DEF C!Dispatch, C!accounts
<1>7. ASSUME \/ C!StartPass(c) \/ C!EndPass(c) \/ C!Resume(c)
             \/ C!Relock(c) \/ C!TestLoop(c) \/ C!Return(c) \/ C!Sleep(c)
             \/ C!Yield(c) \/ \E k \in SleepArg : C!SysSleep(c, k)
      PROVE  Accounts'
  <2>1. \A p \in Proc : C!Charged(p)' <=> C!Charged(p)
    BY <1>2, <1>7, SMTT(30) DEF C!StartPass, C!EndPass, C!Resume, C!Relock, C!TestLoop, C!Return, C!Sleep,
       C!Yield, C!SysSleep, C!At, Handlers
  <2> QED BY <1>1, <1>7, <2>1 DEF C!StartPass, C!EndPass, C!Resume, C!Relock, C!TestLoop,
          C!Return, C!Sleep, C!Yield, C!SysSleep, C!accounts
<1>8. ASSUME \/ C!Exit(c) \/ C!Timer(c) \/ C!Wakeup(c)
             \/ \E p \in Proc : C!Kill(c, p)
             \/ \E k \in Priority : C!Setpri(c, k)
      PROVE  Accounts'
  <2>1. \A p \in Proc : C!Charged(p)' <=> C!Charged(p)
    BY <1>8 DEF C!Exit, C!Timer, C!Wakeup, C!Kill, C!Setpri, C!Charged
  <2> QED BY <1>1, <1>8, <2>1 DEF C!Exit, C!Timer, C!Wakeup, C!Kill, C!Setpri, C!accounts
<1> QED BY <1>3, <1>4, <1>5, <1>6, <1>7, <1>8 DEF C!SchedulerStep, C!ProcessStep, C!TrapStep

LEMMA ClockInitInd == C!Init => ClockInd
<1> SUFFICES ASSUME C!Init PROVE ClockInd
  OBVIOUS
<1> USE ClockConstants DEF C!Init
<1>1. C!TypeOK
  BY DEF C!TypeOK, C!CpuPlaces, C!IrqPlaces
<1>2. ClockLocks /\ Handlers /\ OnCpu
  BY DEF ClockLocks, PtablePlaces, Handlers, OnCpu
<1>3. Tested /\ Elapsed
  BY DEF Tested, Elapsed
<1>4. Accounts
  <2>1. 0 \in Time /\ 0 + 0 = 0 /\ (0 + 0) % TickMod = 0
    BY DEF Time
  <2>2. \A p \in Proc : ~C!Charged(p)
    BY DEF C!Charged
  <2> QED BY <2>1, <2>2 DEF Accounts, Booked, Slice
<1> QED BY <1>1, <1>2, <1>3, <1>4 DEF ClockInd

LEMMA ClockNextInd == ClockInd /\ (C!Next \/ UNCHANGED clockvars) => ClockInd'
<1> SUFFICES ASSUME ClockInd, C!Next \/ UNCHANGED clockvars PROVE ClockInd'
  OBVIOUS
<1>1. CASE C!Next
  BY <1>1, ClockTypeStep, ControlStep, ElapsedStep, AccountsStep DEF ClockInd, Control
<1>2. CASE UNCHANGED clockvars
  BY <1>2 DEF ClockInd, clockvars, C!TypeOK, ClockLocks, Handlers, OnCpu, Tested, Elapsed,
              Accounts, Booked, Slice, C!Charged, C!Due
<1> QED BY <1>1, <1>2

LEMMA ClockSteps ==
    /\ MCInit => C!Init
    /\ [MCNext]_all => C!Next \/ UNCHANGED clockvars
BY DEF MCInit, MCNext, Halted, all, clockvars

LEMMA ClockAlways == MCSpec => []ClockInd
<1>1. MCInit => ClockInd
  BY ClockSteps, ClockInitInd
<1>2. ClockInd /\ [MCNext]_all => ClockInd'
  BY ClockSteps, ClockNextInd
<1> QED BY <1>1, <1>2, PTL DEF MCSpec

(* Whoever leaves sys_sleep() has been killed or has slept n ticks. *)
LEMMA LeavesWhenDue ==
    ASSUME ClockInd, C!Next, NEW p \in Proc, insleep[p], ~insleep'[p]
    PROVE  killed[p] \/ elapsed[p] = n[p]
<1> PICK c \in CPU : C!SchedulerStep(c) \/ C!ProcessStep(c) \/ C!TrapStep(c)
  BY DEF C!Next
<1>1. CASE UNCHANGED insleep
  BY <1>1
<1>2. ASSUME NEW k \in SleepArg, C!SysSleep(c, k) PROVE FALSE
  BY <1>2 DEF C!SysSleep, ClockInd, C!TypeOK
<1>3. CASE C!Return(c)
  <2>1. p = running[c] /\ cpc[c] = "test" /\ (C!Due(p) \/ killed[p])
    BY <1>3 DEF C!Return, C!At, ClockInd, C!TypeOK
  <2>2. C!Due(p) => elapsed[p] = n[p]
    BY ClockConstants DEF ClockInd, Elapsed, C!Due, C!TypeOK
  <2> QED BY <2>1, <2>2
<1> QED BY <1>1, <1>2, <1>3
        DEF C!SchedulerStep, C!ProcessStep, C!TrapStep, C!StartPass, C!EndPass, C!Uptime, C!Back,
            C!Resume, C!Dispatch, C!Relock, C!TestLoop, C!Sleep, C!Exit, C!Setpri, C!Kill,
            C!Timer, C!Tick, C!Wakeup, C!Yield, C!sleepvars

(* For any number of CPUs and sleepers and a tick counter of any width: every
   tick wakes all sleepers and between two ticks nobody sleeps in sys_sleep() who
   is due, and sleep(n) returns 0 only after n ticks, also when ticks wraps
   around. *)
THEOREM SleepLastsExactly == MCSpec => SleepsExactly
<1> DEFINE NotDue == C!TypeOK /\ C!SleepersNotDue
           LeaveDue == \A p \in Proc :
                         insleep[p] /\ ~insleep'[p] => killed[p] \/ elapsed[p] = n[p]
<1>1. ClockInd => NotDue
  BY ClockConstants DEF ClockInd, C!SleepersNotDue, ClockLocks, Tested
<1>2. ClockInd /\ [MCNext]_all => [LeaveDue]_(C!vars)
  <2> SUFFICES ASSUME ClockInd, [MCNext]_all PROVE [LeaveDue]_(C!vars)
    OBVIOUS
  <2>1. CASE C!Next
    BY <2>1, LeavesWhenDue
  <2>2. CASE UNCHANGED clockvars
    BY <2>2 DEF clockvars, C!vars, C!locks, C!sleepvars, C!accounts
  <2> QED BY <2>1, <2>2, ClockSteps
<1>3. MCSpec => []NotDue
  BY <1>1, ClockAlways, PTL
<1>4. MCSpec => [][LeaveDue]_(C!vars)
  BY <1>2, ClockAlways, PTL DEF MCSpec
<1> QED BY <1>3, <1>4 DEF SleepsExactly, C!SleepsExactly

(* The scheduler of project_4 reads the clock when it gives a CPU away and when
   it gets it back: for any number of CPUs and processes the two accounts of a
   process add up to the ticks that came while it had a CPU, modulo the width of
   the counter, whatever its priority was meanwhile. *)
THEOREM TicksAreCharged == MCSpec => []TicksChargedOnce
<1>1. ClockInd => TicksChargedOnce
  <2> SUFFICES ASSUME ClockInd, NEW p \in Proc, \A c \in CPU : running[c] # p
               PROVE  Booked(p) = ran[p]
    BY DEF TicksChargedOnce, C!TicksChargedOnce, Booked
  <2> USE ClockConstants DEF ClockInd
  <2>1. Slice(p) = 0 /\ ran[p] = (Booked(p) + Slice(p)) % TickMod
    BY DEF Accounts, Slice, C!Charged
  <2>2. Booked(p) \in Time /\ 0 \in Time
    <3>1. hip_ticks[p] \in Time /\ lop_ticks[p] \in Time /\ 0 \in Time
      BY DEF C!TypeOK, Time
    <3> QED BY <3>1, TimePlus DEF Booked
  <2>3. (Booked(p) + 0) % TickMod = Booked(p)
    <3>1. (Booked(p) + 0) % TickMod = IF Booked(p) + 0 < TickMod THEN Booked(p) + 0
                                      ELSE (Booked(p) + 0) - TickMod
      BY <2>2, TimePlus
    <3> QED BY <2>2, <3>1 DEF Time
  <2> QED BY <2>1, <2>3
<1> QED BY <1>1, ClockAlways, PTL
=============================================================================
