-------------------------- MODULE ProcessesProofs ---------------------------
(***************************************************************************)
(* Proofs about the process table of project_4 (Proc), for any number of   *)
(* CPUs and slots: no process runs on two CPUs, no kernel stack is given   *)
(* away while a CPU is on it, every process has a parent that can wait for *)
(* it, and no wakeup of wait() is lost.                                    *)
(***************************************************************************)
EXTENDS MCProcesses, FiniteSetTheorems, WellFoundedInduction, TLAPS

(* The loops over ptable.proc find the first slot with the property. *)
LEMMA FirstIn ==
    ASSUME NEW S, S \subseteq Slot, S # {}
    PROVE  First(S) \in S /\ First(S) \in Slot
<1>1. S \subseteq Nat
  BY DEF Slot
<1>2. PICK x \in S : \A y \in S : ~(<<y, x>> \in OpToRel(<, Nat))
  BY <1>1, WFMin, NatLessThanWellFounded, Zenon
<1>3. \A y \in S : ~(y < x)
  BY <1>1, <1>2 DEF OpToRel
<1>4. \A y \in S : x <= y
  BY <1>1, <1>3
<1>5. First(S) \in S
  BY <1>4 DEF First
<1> QED BY <1>5

-----------------------------------------------------------------------------
InFork(p) == upc[p] \in {"forked", "copied"}

(* fork() owns the slot it has allocated: it is an EMBRYO, no other fork() works
   on it, and from a certain point its parent is set. *)
ForkOwns ==
    /\ \A p \in Slot : InFork(p) =>
          /\ np[p] \in Slot /\ state[np[p]] = "EMBRYO"
          /\ upc[p] = "copied" => parent[np[p]] = p
    /\ \A p, q \in Slot : InFork(p) /\ InFork(q) /\ p # q => np[p] # np[q]

(* init never exits *)
InitAlive == Alive(initproc)

Ind == TypeOK /\ OneCpuPerProcess /\ ForkOwns /\ InitAlive /\ ParentAlive

(* Facts about initproc and the special values. *)
LEMMA Constants ==
    /\ initproc \in Slot /\ Nobody \notin Slot /\ Nobody \notin CPU
    /\ IO \notin Slot /\ IO \in 0 .. IO /\ Slot \subseteq 0 .. IO
    /\ Slot \subseteq 0 .. NPROC
BY ProcAssumption DEF initproc, Nobody, Slot, IO

LEMMA InitInd == Init => Ind
<1> SUFFICES ASSUME Init PROVE Ind
  OBVIOUS
<1>1. TypeOK
  BY ProcAssumption, Constants
     DEF Init, TypeOK, States, Places, LOW_PRI, HIGH_PRI, Nobody, initproc, IO
<1>2. OneCpuPerProcess
  BY DEF Init, OneCpuPerProcess
<1>3. ForkOwns
  BY DEF Init, ForkOwns, InFork
<1>4. InitAlive /\ ParentAlive
  BY Constants DEF Init, InitAlive, ParentAlive, Alive
<1> QED BY <1>1, <1>2, <1>3, <1>4 DEF Ind

(* wakeup1() changes only sleepers. *)
LEMMA WakeupFacts ==
    ASSUME NEW ch, NEW s \in [Slot -> States]
    PROVE  /\ WakeupOn(ch, s) \in [Slot -> States]
           /\ \A p \in Slot : \/ WakeupOn(ch, s)[p] = s[p]
                              \/ s[p] = "SLEEPING" /\ WakeupOn(ch, s)[p] = "RUNNABLE"
BY DEF WakeupOn, States

(* Every step preserves the inductive invariant: one step of the proof per
   action, and under it one per conjunct. *)
LEMMA NextInd == Ind /\ [Next]_vars => Ind'
<1> SUFFICES ASSUME TypeOK, OneCpuPerProcess, ForkOwns, InitAlive, ParentAlive,
                    [Next]_vars
             PROVE  Ind'
  BY DEF Ind
<1> USE ProcAssumption, Constants
<1>1. ASSUME NEW c \in CPU, StartPass(c) PROVE Ind'
  <2>1. TypeOK'
    BY <1>1
       DEF StartPass, table, sched, TypeOK, States, Places, LOW_PRI, HIGH_PRI,
           ForkOwns, InFork
  <2>2. OneCpuPerProcess'
    BY <1>1 DEF StartPass, table, sched, OneCpuPerProcess, TypeOK
  <2>3. ForkOwns'
    BY <1>1
       DEF StartPass, table, sched, OneCpuPerProcess, ForkOwns, InFork, TypeOK
  <2>4. (InitAlive /\ ParentAlive)'
    BY <1>1
       DEF StartPass, table, sched, InitAlive, ParentAlive, Alive,
           OneCpuPerProcess, ForkOwns, InFork, TypeOK
  <2> QED BY <2>1, <2>2, <2>3, <2>4 DEF Ind
<1>2. ASSUME NEW c \in CPU, Dispatch(c) PROVE Ind'
  <2>1. PICK p \in Slot : /\ state[p] = "RUNNABLE"
                         /\ cur' = [cur EXCEPT ![c] = p]
                         /\ pos' = [pos EXCEPT ![c] = p]
                         /\ state' = [state EXCEPT ![p] = "RUNNING"]
    BY <1>2, FirstIn, ZenonT(60) DEF Dispatch, Eligible
  <2>2. /\ cur[c] = Nobody /\ lock = c
        /\ UNCHANGED <<pid, parent, chan, killed, pri, nextpid, lock, search, upc, np>>
    BY <1>2 DEF Dispatch
  <2>3. TypeOK'
    BY <2>1, <2>2 DEF TypeOK, States
  <2>4. OneCpuPerProcess'
    <3>1. \A d \in CPU : cur[d] # p
      BY <2>1, <2>2 DEF OneCpuPerProcess
    <3> QED BY <2>1, <2>2, <3>1 DEF OneCpuPerProcess, TypeOK
  <2>5. ForkOwns'
    BY <2>1, <2>2 DEF TypeOK, ForkOwns, InFork
  <2>6. (InitAlive /\ ParentAlive)'
    BY <2>1, <2>2 DEF TypeOK, InitAlive, ParentAlive, Alive
  <2> QED BY <2>3, <2>4, <2>5, <2>6 DEF Ind
<1>3. ASSUME NEW c \in CPU, EndPass(c) PROVE Ind'
  <2>1. TypeOK'
    BY <1>3
       DEF EndPass, table, sched, TypeOK, States, Places, LOW_PRI, HIGH_PRI,
           ForkOwns, InFork
  <2>2. OneCpuPerProcess'
    BY <1>3 DEF EndPass, table, sched, OneCpuPerProcess, TypeOK
  <2>3. ForkOwns'
    BY <1>3 DEF EndPass, table, sched, OneCpuPerProcess, ForkOwns, InFork, TypeOK
  <2>4. (InitAlive /\ ParentAlive)'
    BY <1>3
       DEF EndPass, table, sched, InitAlive, ParentAlive, Alive, OneCpuPerProcess,
           ForkOwns, InFork, TypeOK
  <2> QED BY <2>1, <2>2, <2>3, <2>4 DEF Ind
<1>4. ASSUME NEW c \in CPU, Sched(c) PROVE Ind'
  <2>1. TypeOK'
    <3>1. cur[c] \in Slot /\ search[c] \in {1, 2} /\ pri[cur[c]] \in {0, 1, 2}
      BY <1>4 DEF Sched, TypeOK, LOW_PRI, HIGH_PRI
    <3>2. pri[cur[c]] > search[c] => pri[cur[c]] \in {1, 2}
      BY <3>1
    <3>3. search' \in [CPU -> {1, 2}]
      BY <1>4, <3>1, <3>2 DEF Sched, KeptPriority, TypeOK, LOW_PRI, HIGH_PRI
    <3> QED BY <1>4, <3>3 DEF Sched, TypeOK, table, LOW_PRI, HIGH_PRI
  <2>2. OneCpuPerProcess'
    BY <1>4 DEF Sched, table, sched, OneCpuPerProcess, TypeOK
  <2>3. ForkOwns'
    BY <1>4 DEF Sched, table, sched, OneCpuPerProcess, ForkOwns, InFork, TypeOK
  <2>4. (InitAlive /\ ParentAlive)'
    BY <1>4
       DEF Sched, table, sched, InitAlive, ParentAlive, Alive, OneCpuPerProcess,
           ForkOwns, InFork, TypeOK
  <2> QED BY <2>1, <2>2, <2>3, <2>4 DEF Ind
<1>5. ASSUME NEW c \in CPU, Resume(c) PROVE Ind'
  <2>1. TypeOK'
    BY <1>5
       DEF Resume, table, sched, TypeOK, States, Places, LOW_PRI, HIGH_PRI,
           ForkOwns, InFork
  <2>2. OneCpuPerProcess'
    BY <1>5 DEF Resume, table, sched, OneCpuPerProcess, TypeOK
  <2>3. ForkOwns'
    BY <1>5 DEF Resume, table, sched, OneCpuPerProcess, ForkOwns, InFork, TypeOK
  <2>4. (InitAlive /\ ParentAlive)'
    BY <1>5
       DEF Resume, table, sched, InitAlive, ParentAlive, Alive, OneCpuPerProcess,
           ForkOwns, InFork, TypeOK
  <2> QED BY <2>1, <2>2, <2>3, <2>4 DEF Ind
<1>6. ASSUME NEW c \in CPU, Yield(c) PROVE Ind'
  <2>1. TypeOK'
    BY <1>6
       DEF Yield, Running, table, sched, TypeOK, States, Places, LOW_PRI,
           HIGH_PRI, ForkOwns, InFork
  <2>2. OneCpuPerProcess'
    BY <1>6 DEF Yield, Running, table, sched, OneCpuPerProcess, TypeOK
  <2>3. ForkOwns'
    BY <1>6
       DEF Yield, Running, table, sched, OneCpuPerProcess, ForkOwns, InFork,
           TypeOK
  <2>4. (InitAlive /\ ParentAlive)'
    BY <1>6
       DEF Yield, Running, table, sched, InitAlive, ParentAlive, Alive,
           OneCpuPerProcess, ForkOwns, InFork, TypeOK
  <2> QED BY <2>1, <2>2, <2>3, <2>4 DEF Ind
<1>7. ASSUME NEW c \in CPU, ForkAlloc(c) PROVE Ind'
  <2>1. PICK q \in Slot : /\ state[q] = "UNUSED"
                         /\ state' = [state EXCEPT ![q] = "EMBRYO"]
                         /\ pid' = [pid EXCEPT ![q] = nextpid]
                         /\ pri' = [pri EXCEPT ![q] = LOW_PRI]
                         /\ np' = [np EXCEPT ![cur[c]] = q]
    BY ONLY <1>7, FirstIn, ZenonT(60) DEF ForkAlloc
  <2>2. /\ cur[c] \in Slot /\ lock = Nobody /\ nextpid <= MaxPid
        /\ nextpid' = nextpid + 1 /\ upc[cur[c]] = "user"
        /\ upc' = [upc EXCEPT ![cur[c]] = "forked"]
        /\ UNCHANGED <<parent, chan, killed, lock, cur, pos, search>>
    BY <1>7 DEF ForkAlloc, MayCall, InUser, Running, TypeOK, sched
  <2>3. TypeOK'
    BY <2>1, <2>2 DEF TypeOK, States, Places, LOW_PRI, HIGH_PRI
  <2>4. OneCpuPerProcess'
    BY <2>1, <2>2 DEF TypeOK, OneCpuPerProcess
  <2>5. ForkOwns'
    BY <2>1, <2>2 DEF TypeOK, ForkOwns, InFork
  <2>6. (InitAlive /\ ParentAlive)'
    BY <2>1, <2>2 DEF TypeOK, InitAlive, ParentAlive, Alive
  <2> QED BY <2>3, <2>4, <2>5, <2>6 DEF Ind
<1>8. ASSUME NEW c \in CPU, ForkFail(c) PROVE Ind'
  <2>1. PICK p \in Slot : p = cur[c] /\ upc[p] = "forked"
    BY <1>8 DEF ForkFail, Running, TypeOK
  <2>2. np[p] \in Slot /\ state[np[p]] = "EMBRYO"
    BY <2>1 DEF ForkOwns, InFork
  <2>3. /\ state' = [state EXCEPT ![np[p]] = "UNUSED"]
        /\ np' = [np EXCEPT ![p] = Nobody]
        /\ upc' = [upc EXCEPT ![p] = "user"]
        /\ UNCHANGED <<pid, parent, chan, killed, pri, nextpid, lock, cur, pos, search>>
    BY <1>8, <2>1 DEF ForkFail, sched
  <2>4. TypeOK'
    BY <2>1, <2>2, <2>3 DEF TypeOK, States, Places
  <2>5. OneCpuPerProcess'
    BY <2>2, <2>3 DEF TypeOK, OneCpuPerProcess
  <2>6. ForkOwns'
    BY <2>1, <2>2, <2>3 DEF TypeOK, ForkOwns, InFork
  <2>7. (InitAlive /\ ParentAlive)'
    BY <2>2, <2>3 DEF TypeOK, InitAlive, ParentAlive, Alive
  <2> QED BY <2>4, <2>5, <2>6, <2>7 DEF Ind
<1>9. ASSUME NEW c \in CPU, ForkCopy(c) PROVE Ind'
  <2>1. PICK p \in Slot : p = cur[c] /\ upc[p] = "forked"
    BY <1>9 DEF ForkCopy, Running, TypeOK
  <2>2. np[p] \in Slot /\ state[np[p]] = "EMBRYO"
    BY <2>1 DEF ForkOwns, InFork
  <2>3. /\ parent' = [parent EXCEPT ![np[p]] = p]
        /\ upc' = [upc EXCEPT ![p] = "copied"]
        /\ UNCHANGED <<state, pid, chan, killed, pri, nextpid, lock, cur, pos, search, np>>
    BY <1>9, <2>1 DEF ForkCopy, sched
  <2>4. TypeOK'
    BY <2>1, <2>2, <2>3 DEF TypeOK, Places
  <2>5. OneCpuPerProcess'
    BY <2>3 DEF OneCpuPerProcess
  <2>6. ForkOwns'
    BY <2>1, <2>2, <2>3 DEF TypeOK, ForkOwns, InFork
  <2>7. (InitAlive /\ ParentAlive)'
    BY <2>2, <2>3 DEF TypeOK, InitAlive, ParentAlive, Alive
  <2> QED BY <2>4, <2>5, <2>6, <2>7 DEF Ind
<1>10. ASSUME NEW c \in CPU, ForkDone(c) PROVE Ind'
  <2>1. PICK p \in Slot : p = cur[c] /\ upc[p] = "copied" /\ lock = Nobody
    BY <1>10 DEF ForkDone, Running, TypeOK
  <2>2. np[p] \in Slot /\ state[np[p]] = "EMBRYO" /\ parent[np[p]] = p
    BY <2>1 DEF ForkOwns, InFork
  <2>3. /\ state' = [state EXCEPT ![np[p]] = "RUNNABLE"]
        /\ pri' = [pri EXCEPT ![np[p]] = LOW_PRI]
        /\ np' = [np EXCEPT ![p] = Nobody]
        /\ upc' = [upc EXCEPT ![p] = "user"]
        /\ UNCHANGED <<pid, parent, chan, killed, nextpid, lock, cur, pos, search>>
    BY <1>10, <2>1 DEF ForkDone, sched
  <2>4. state[p] = "RUNNING"
    BY <2>1 DEF OneCpuPerProcess
  <2>5. TypeOK'
    BY <2>1, <2>2, <2>3 DEF TypeOK, States, Places, LOW_PRI, HIGH_PRI
  <2>6. OneCpuPerProcess'
    BY <2>2, <2>3 DEF TypeOK, OneCpuPerProcess
  <2>7. ForkOwns'
    BY <2>1, <2>2, <2>3 DEF TypeOK, ForkOwns, InFork
  <2>8. (InitAlive /\ ParentAlive)'
    BY <2>2, <2>3, <2>4 DEF TypeOK, InitAlive, ParentAlive, Alive
  <2> QED BY <2>5, <2>6, <2>7, <2>8 DEF Ind
<1>11. ASSUME NEW c \in CPU, Exit(c) PROVE Ind'
  <2>1. PICK p \in Slot : p = cur[c] /\ upc[p] = "user" /\ lock = Nobody /\ p # initproc
    BY <1>11 DEF Exit, InUser, Running, TypeOK
  <2>2. state[p] = "RUNNING" /\ \A d \in CPU : d # c => cur[d] # p
    BY <2>1 DEF OneCpuPerProcess
  <2>3. /\ parent' = [q \in Slot |-> IF parent[q] = p THEN initproc ELSE parent[q]]
        /\ lock' = c
        /\ UNCHANGED <<pid, chan, killed, pri, nextpid, cur, pos, search, upc, np>>
    BY <1>11, <2>1 DEF Exit, sched
  <2>4. /\ state' \in [Slot -> States] /\ state'[p] = "ZOMBIE"
        /\ \A q \in Slot : q # p =>
              state'[q] = state[q] \/ (state[q] = "SLEEPING" /\ state'[q] = "RUNNABLE")
    <3> DEFINE woken == WakeupOn(parent[p], state)
               both == WakeupOn(initproc, woken)
    <3>1. state \in [Slot -> States] /\ "ZOMBIE" \in States
      BY DEF TypeOK, States
    <3>2. /\ woken \in [Slot -> States]
          /\ \A q \in Slot : woken[q] = state[q] \/ (state[q] = "SLEEPING" /\ woken[q] = "RUNNABLE")
      BY <3>1, WakeupFacts
    <3>3. /\ both \in [Slot -> States]
          /\ \A q \in Slot : both[q] = woken[q] \/ (woken[q] = "SLEEPING" /\ both[q] = "RUNNABLE")
      BY <3>2, WakeupFacts
    <3>4. state' = [woken EXCEPT ![p] = "ZOMBIE"] \/ state' = [both EXCEPT ![p] = "ZOMBIE"]
      BY <1>11, <2>1 DEF Exit
    <3> HIDE DEF woken, both
    <3>5. CASE state' = [woken EXCEPT ![p] = "ZOMBIE"]
      BY <2>1, <3>1, <3>2, <3>5
    <3>6. CASE state' = [both EXCEPT ![p] = "ZOMBIE"]
      <4>1. \A q \in Slot : both[q] = state[q] \/ (state[q] = "SLEEPING" /\ both[q] = "RUNNABLE")
        BY <3>2, <3>3
      <4> QED BY <2>1, <3>1, <3>3, <3>6, <4>1
    <3> QED BY <3>4, <3>5, <3>6
  <2>5. TypeOK'
    BY <2>1, <2>3, <2>4 DEF TypeOK
  <2>6. OneCpuPerProcess'
    BY <2>1, <2>2, <2>3, <2>4, ZenonT(180) DEF TypeOK, OneCpuPerProcess
  <2>7. ForkOwns'
    <3>1. \A q \in Slot : InFork(q) => q # p /\ np[q] # p
      BY <2>1, <2>2 DEF ForkOwns, InFork
    <3> QED BY <2>1, <2>3, <2>4, <3>1, ZenonT(60) DEF TypeOK, ForkOwns, InFork
  <2>8. (InitAlive /\ ParentAlive)'
    <3>1. \A q \in Slot : q # p /\ Alive(q) => Alive(q)'
      BY <2>4 DEF Alive
    <3>2. \A q \in Slot : (Alive(q) \/ state[q] = "ZOMBIE")' => Alive(q) \/ state[q] = "ZOMBIE"
      BY <2>2, <2>4 DEF Alive
    <3>3. Alive(initproc)'
      BY <2>1, <3>1 DEF InitAlive
    <3>4. \A q \in Slot : parent'[q] = IF parent[q] = p THEN initproc ELSE parent[q]
      BY <2>3
    <3>5. ParentAlive'
      <4> SUFFICES ASSUME NEW q \in Slot, q # initproc, (Alive(q) \/ state[q] = "ZOMBIE")'
                   PROVE  parent'[q] # Nobody /\ Alive(parent[q])'
        BY DEF ParentAlive
      <4>1. parent[q] \in Slot /\ Alive(parent[q])
        BY <3>2 DEF ParentAlive, TypeOK
      <4>2. CASE parent[q] = p
        <5>1. parent'[q] = initproc
          BY <3>4, <4>2
        <5> QED BY <5>1, <3>3 DEF Alive
      <4>3. CASE parent[q] # p
        <5>1. parent'[q] = parent[q]
          BY <3>4, <4>3
        <5> QED BY <3>1, <4>1, <4>3, <5>1 DEF Alive
      <4> QED BY <4>2, <4>3
    <3> QED BY <3>3, <3>5 DEF InitAlive
  <2> QED BY <2>5, <2>6, <2>7, <2>8 DEF Ind
<1>12. ASSUME NEW c \in CPU, Wait(c) PROVE Ind'
  <2>1. TypeOK'
    BY <1>12
       DEF Wait, MayCall, InUser, Running, table, sched, TypeOK, States, Places,
           LOW_PRI, HIGH_PRI, ForkOwns, InFork
  <2>2. OneCpuPerProcess'
    BY <1>12
       DEF Wait, MayCall, InUser, Running, table, sched, OneCpuPerProcess, TypeOK
  <2>3. ForkOwns'
    BY <1>12
       DEF Wait, MayCall, InUser, Running, table, sched, OneCpuPerProcess,
           ForkOwns, InFork, TypeOK
  <2>4. (InitAlive /\ ParentAlive)'
    BY <1>12
       DEF Wait, MayCall, InUser, Running, table, sched, InitAlive, ParentAlive,
           Alive, OneCpuPerProcess, ForkOwns, InFork, TypeOK
  <2> QED BY <2>1, <2>2, <2>3, <2>4 DEF Ind
<1>13. ASSUME NEW c \in CPU, WaitReap(c) PROVE Ind'
  <2>1. PICK z \in Slot : /\ state[z] = "ZOMBIE"
                         /\ state' = [state EXCEPT ![z] = "UNUSED"]
                         /\ pid' = [pid EXCEPT ![z] = 0]
                         /\ parent' = [parent EXCEPT ![z] = Nobody]
                         /\ killed' = [killed EXCEPT ![z] = FALSE]
    BY <1>13, FirstIn DEF WaitReap, Zombies, Kids
  <2>2. PICK p \in Slot : /\ p = cur[c] /\ state[p] = "RUNNING" /\ upc[p] = "wait"
                         /\ chan' = [chan EXCEPT ![p] = 0]
                         /\ upc' = [upc EXCEPT ![p] = "user"]
    BY <1>13 DEF WaitReap, TypeOK
  <2>3. lock = c /\ lock' = Nobody /\ UNCHANGED <<pri, nextpid, cur, pos, search, np>>
    BY <1>13 DEF WaitReap, sched
  <2>4. TypeOK'
    BY <2>1, <2>2, <2>3 DEF TypeOK, States, Places
  <2>5. OneCpuPerProcess'
    BY <2>1, <2>2, <2>3 DEF TypeOK, OneCpuPerProcess
  <2>6. ForkOwns'
    BY <2>1, <2>2, <2>3 DEF TypeOK, ForkOwns, InFork
  <2>7. (InitAlive /\ ParentAlive)'
    BY <2>1, <2>2, <2>3 DEF TypeOK, InitAlive, ParentAlive, Alive
  <2> QED BY <2>4, <2>5, <2>6, <2>7 DEF Ind
<1>14. ASSUME NEW c \in CPU, WaitNone(c) PROVE Ind'
  <2>1. PICK p \in Slot : p = cur[c] /\ lock = c /\ state[p] = "RUNNING" /\ upc[p] = "wait"
    BY <1>14 DEF WaitNone, TypeOK
  <2>2. UNCHANGED <<pid, parent, killed, pri, nextpid, cur, pos, search, np>>
    BY <1>14 DEF WaitNone, sched
  <2>3. \/ /\ chan' = [chan EXCEPT ![p] = 0] /\ upc' = [upc EXCEPT ![p] = "user"]
           /\ lock' = Nobody /\ state' = state
        \/ /\ chan' = [chan EXCEPT ![p] = p] /\ state' = [state EXCEPT ![p] = "SLEEPING"]
           /\ upc' = upc /\ lock' = lock
    BY <1>14, <2>1 DEF WaitNone
  <2>4. TypeOK'
    BY <2>1, <2>2, <2>3 DEF TypeOK, States, Places
  <2>5. OneCpuPerProcess'
    <3>1. CASE lock' = Nobody /\ state' = state
      BY <2>1, <2>2, <3>1 DEF TypeOK, OneCpuPerProcess
    <3>2. CASE lock' = lock /\ state' = [state EXCEPT ![p] = "SLEEPING"]
      BY <2>1, <2>2, <3>2 DEF TypeOK, OneCpuPerProcess
    <3> QED BY <2>3, <3>1, <3>2
  <2>6. ForkOwns'
    <3>1. \A q \in Slot : InFork(q)' <=> InFork(q) /\ q # p
      BY <2>1, <2>3 DEF TypeOK, InFork
    <3>2. \A q \in Slot : InFork(q) => upc'[q] = upc[q] /\ np[q] # p /\ q # p
      BY <2>1, <2>3 DEF TypeOK, ForkOwns, InFork
    <3>3. \A q \in Slot : q # p => state'[q] = state[q]
      BY <2>1, <2>3 DEF TypeOK
    <3> QED BY <2>2, <3>1, <3>2, <3>3, ZenonT(60) DEF ForkOwns
  <2>7. (InitAlive /\ ParentAlive)'
    BY <2>1, <2>2, <2>3, ZenonT(60) DEF TypeOK, InitAlive, ParentAlive, Alive
  <2> QED BY <2>4, <2>5, <2>6, <2>7 DEF Ind
<1>15. ASSUME NEW c \in CPU, Sleep(c) PROVE Ind'
  <2>1. TypeOK'
    BY <1>15
       DEF Sleep, MayCall, InUser, Running, table, sched, TypeOK, States, Places,
           LOW_PRI, HIGH_PRI, ForkOwns, InFork
  <2>2. OneCpuPerProcess'
    BY <1>15
       DEF Sleep, MayCall, InUser, Running, table, sched, OneCpuPerProcess, TypeOK
  <2>3. ForkOwns'
    BY <1>15
       DEF Sleep, MayCall, InUser, Running, table, sched, OneCpuPerProcess,
           ForkOwns, InFork, TypeOK
  <2>4. (InitAlive /\ ParentAlive)'
    BY <1>15
       DEF Sleep, MayCall, InUser, Running, table, sched, InitAlive, ParentAlive,
           Alive, OneCpuPerProcess, ForkOwns, InFork, TypeOK
  <2> QED BY <2>1, <2>2, <2>3, <2>4 DEF Ind
<1>16. ASSUME NEW c \in CPU, SleepDone(c) PROVE Ind'
  <2>1. TypeOK'
    BY <1>16
       DEF SleepDone, Running, table, sched, TypeOK, States, Places, LOW_PRI,
           HIGH_PRI, ForkOwns, InFork
  <2>2. OneCpuPerProcess'
    BY <1>16 DEF SleepDone, Running, table, sched, OneCpuPerProcess, TypeOK
  <2>3. ForkOwns'
    BY <1>16
       DEF SleepDone, Running, table, sched, OneCpuPerProcess, ForkOwns, InFork,
           TypeOK
  <2>4. (InitAlive /\ ParentAlive)'
    BY <1>16
       DEF SleepDone, Running, table, sched, InitAlive, ParentAlive, Alive,
           OneCpuPerProcess, ForkOwns, InFork, TypeOK
  <2> QED BY <2>1, <2>2, <2>3, <2>4 DEF Ind
<1>17. ASSUME NEW c \in CPU, NEW k \in KillPids, Kill(c, k) PROVE Ind'
  <2>1. PICK q \in Slot : /\ pid[q] = k
                         /\ killed' = [killed EXCEPT ![q] = TRUE]
                         /\ state' = [state EXCEPT ![q] = IF @ = "SLEEPING" THEN "RUNNABLE" ELSE @]
    <3>1. LET named == {q \in Slot : pid[q] = k} IN
          /\ named # {}
          /\ killed' = [killed EXCEPT ![First(named)] = TRUE]
          /\ state' = [state EXCEPT ![First(named)] =
                          IF @ = "SLEEPING" THEN "RUNNABLE" ELSE @]
      BY <1>17 DEF Kill
    <3>2. First({q \in Slot : pid[q] = k}) \in {q \in Slot : pid[q] = k}
      BY <3>1, FirstIn
    <3> QED BY <3>1, <3>2
  <2>2. /\ lock = Nobody
        /\ UNCHANGED <<pid, parent, chan, pri, nextpid, lock, cur, pos, search, upc, np>>
    BY <1>17 DEF Kill, sched
  <2>3. TypeOK'
    BY <2>1, <2>2 DEF TypeOK, States
  <2>4. OneCpuPerProcess'
    BY <2>1, <2>2 DEF TypeOK, OneCpuPerProcess
  <2>5. ForkOwns'
    BY <2>1, <2>2 DEF TypeOK, ForkOwns, InFork
  <2>6. (InitAlive /\ ParentAlive)'
    BY <2>1, <2>2 DEF TypeOK, InitAlive, ParentAlive, Alive
  <2> QED BY <2>3, <2>4, <2>5, <2>6 DEF Ind
<1>18. ASSUME NEW c \in CPU, NEW k \in Priority, Setpri(c, k) PROVE Ind'
  <2>1. TypeOK'
    BY <1>18
       DEF Setpri, MayCall, InUser, Running, table, sched, TypeOK, States, Places,
           LOW_PRI, HIGH_PRI, ForkOwns, InFork
  <2>2. OneCpuPerProcess'
    BY <1>18
       DEF Setpri, MayCall, InUser, Running, table, sched, OneCpuPerProcess,
           TypeOK
  <2>3. ForkOwns'
    BY <1>18
       DEF Setpri, MayCall, InUser, Running, table, sched, OneCpuPerProcess,
           ForkOwns, InFork, TypeOK
  <2>4. (InitAlive /\ ParentAlive)'
    BY <1>18
       DEF Setpri, MayCall, InUser, Running, table, sched, InitAlive, ParentAlive,
           Alive, OneCpuPerProcess, ForkOwns, InFork, TypeOK
  <2> QED BY <2>1, <2>2, <2>3, <2>4 DEF Ind
<1>19. ASSUME Wakeup PROVE Ind'
  <2>1. /\ lock = Nobody
        /\ UNCHANGED <<pid, parent, chan, killed, pri, nextpid, lock, cur, pos, search, upc, np>>
    BY <1>19 DEF Wakeup, sched
  <2>2. /\ state' \in [Slot -> States]
        /\ \A p \in Slot : state'[p] = state[p] \/ (state[p] = "SLEEPING" /\ state'[p] = "RUNNABLE")
    BY <1>19, WakeupFacts DEF Wakeup, TypeOK
  <2>3. TypeOK'
    BY <2>1, <2>2 DEF TypeOK
  <2>4. OneCpuPerProcess'
    <3>1. \A d \in CPU : cur[d] # Nobody => cur[d] \in Slot /\ state[cur[d]] = "RUNNING"
      BY <2>1 DEF TypeOK, OneCpuPerProcess
    <3>2. \A d \in CPU : cur[d] # Nobody => state'[cur[d]] = "RUNNING"
      BY ONLY <2>2, <3>1, ZenonT(60)
    <3>3. \A p \in Slot : state'[p] = "RUNNING" => state[p] = "RUNNING"
      BY <2>2
    <3> QED BY <2>1, <3>2, <3>3 DEF OneCpuPerProcess
  <2>5. ForkOwns'
    BY <2>1, <2>2, ZenonT(60) DEF TypeOK, ForkOwns, InFork
  <2>6. (InitAlive /\ ParentAlive)'
    BY <2>1, <2>2, ZenonT(60) DEF TypeOK, InitAlive, ParentAlive, Alive
  <2> QED BY <2>3, <2>4, <2>5, <2>6 DEF Ind
<1>20. CASE UNCHANGED vars
  BY <1>20
     DEF vars, Ind, States, Places, LOW_PRI, HIGH_PRI, ForkOwns, InFork,
         InitAlive, ParentAlive, Alive, OneCpuPerProcess, ForkOwns, InFork,
         TypeOK
<1> QED
  BY <1>1, <1>2, <1>3, <1>4, <1>5, <1>6, <1>7, <1>8, <1>9, <1>10, <1>11, <1>12,
     <1>13, <1>14, <1>15, <1>16, <1>17, <1>18, <1>19, <1>20
   DEF Next, SchedulerStep, Switch, ForkStep, WaitStep

(* Type correctness. *)
THEOREM TypeCorrect == Spec => []TypeOK
<1>1. Ind => TypeOK
  BY DEF Ind
<1> QED BY <1>1, InitInd, NextInd, PTL DEF Spec

(* On any number of CPUs, a process runs on one CPU at most and its kernel stack
   is never reused before that CPU has switched away from it. *)
THEOREM StacksExclusive == Spec => []OneCpuPerProcess
<1>1. Ind => OneCpuPerProcess
  BY DEF Ind
<1> QED BY <1>1, InitInd, NextInd, PTL DEF Spec

(* However deep the tree of processes, every process, zombies included, has a
   living parent: exit() leaves no orphan behind. *)
THEOREM NoOrphans == Spec => []ParentAlive
<1>1. Ind => ParentAlive
  BY DEF Ind
<1> QED BY <1>1, InitInd, NextInd, PTL DEF Spec

-----------------------------------------------------------------------------
(* No stale parent: wait() clears the field when it frees a slot and a fork()
   that fails has not set it, so nobody counts a free slot as a child.  init
   has no parent and nobody is its own. *)
NoStaleParent ==
    /\ \A p \in Slot : /\ state[p] = "UNUSED" => parent[p] = Nobody
                       /\ upc[p] = "forked" => parent[np[p]] = Nobody
                       /\ parent[p] # p
    /\ parent[initproc] = Nobody

WaitInd == WaitersMustWait /\ NoStaleParent

(* A step that puts nobody to sleep in wait(), kills nobody that stays asleep
   and leaves children and zombies as they are, disturbs no waiter. *)
LEMMA WaitersKept ==
    ASSUME WaitersMustWait,
           \A p \in Slot : state'[p] = "SLEEPING" /\ chan'[p] = p =>
              /\ state[p] = "SLEEPING" /\ chan[p] = p
              /\ ~killed[p] => ~killed'[p]
              /\ \A q \in Slot : parent[q] = p => parent'[q] = p
              /\ \A q \in Slot : parent'[q] = p /\ state'[q] = "ZOMBIE"
                                    => parent[q] = p /\ state[q] = "ZOMBIE"
    PROVE  WaitersMustWait'
BY DEF WaitersMustWait, Kids, Zombies

LEMMA InitWait == Init => WaitInd
BY Constants DEF Init, WaitInd, WaitersMustWait, NoStaleParent

LEMMA NextWait == Ind /\ WaitInd /\ [Next]_vars => WaitInd'
<1> SUFFICES ASSUME TypeOK, OneCpuPerProcess, ForkOwns, WaitersMustWait,
                    NoStaleParent, InitAlive, [Next]_vars
             PROVE  WaitInd'
  BY DEF Ind, WaitInd
<1> USE ProcAssumption, Constants
<1>1. ASSUME UNCHANGED <<state, parent, chan, killed, upc, np>> PROVE WaitInd'
  BY <1>1 DEF WaitInd, WaitersMustWait, NoStaleParent, Kids, Zombies
<1>2. ASSUME NEW c \in CPU,
             StartPass(c) \/ EndPass(c) \/ Sched(c) \/ (\E k \in Priority : Setpri(c, k))
      PROVE  WaitInd'
  BY <1>1, <1>2 DEF StartPass, EndPass, Sched, Setpri, table
<1>3. ASSUME NEW c \in CPU, Dispatch(c) PROVE WaitInd'
  <2>1. PICK p \in Slot : state[p] = "RUNNABLE" /\ state' = [state EXCEPT ![p] = "RUNNING"]
    BY <1>3, FirstIn DEF Dispatch, Eligible
  <2>2. UNCHANGED <<parent, chan, killed, upc, np>>
    BY <1>3 DEF Dispatch
  <2>3. WaitersMustWait'
    BY <2>1, <2>2, WaitersKept DEF TypeOK
  <2>4. NoStaleParent'
    BY <2>1, <2>2 DEF NoStaleParent, TypeOK
  <2> QED BY <2>3, <2>4 DEF WaitInd
<1>4. ASSUME NEW c \in CPU, Resume(c) PROVE WaitInd'
  <2>1. PICK p \in Slot : p = cur[c] /\ state[p] = "RUNNING" /\ chan' = [chan EXCEPT ![p] = 0]
    BY <1>4 DEF Resume, TypeOK
  <2>2. UNCHANGED <<state, parent, killed, upc, np>>
    BY <1>4 DEF Resume
  <2>3. WaitersMustWait'
    BY <2>1, <2>2, WaitersKept DEF TypeOK
  <2>4. NoStaleParent'
    BY <2>2 DEF NoStaleParent
  <2> QED BY <2>3, <2>4 DEF WaitInd
<1>5. ASSUME NEW c \in CPU, Yield(c) PROVE WaitInd'
  <2>1. PICK p \in Slot : p = cur[c] /\ state' = [state EXCEPT ![p] = "RUNNABLE"]
    BY <1>5 DEF Yield, Running, TypeOK
  <2>2. lock = Nobody /\ UNCHANGED <<parent, chan, killed, upc, np>>
    BY <1>5 DEF Yield
  <2>3. WaitersMustWait'
    BY <2>1, <2>2, WaitersKept DEF TypeOK
  <2>4. NoStaleParent'
    BY <2>1, <2>2 DEF NoStaleParent, TypeOK
  <2> QED BY <2>3, <2>4 DEF WaitInd
<1>6. ASSUME NEW c \in CPU, ForkAlloc(c) PROVE WaitInd'
  <2>1. PICK q \in Slot : /\ state[q] = "UNUSED"
                         /\ state' = [state EXCEPT ![q] = "EMBRYO"]
                         /\ np' = [np EXCEPT ![cur[c]] = q]
    BY ONLY <1>6, FirstIn, ZenonT(60) DEF ForkAlloc
  <2>2. /\ cur[c] \in Slot /\ upc' = [upc EXCEPT ![cur[c]] = "forked"]
        /\ UNCHANGED <<parent, chan, killed>>
    BY <1>6 DEF ForkAlloc, MayCall, InUser, Running, TypeOK
  <2>3. WaitersMustWait'
    BY <2>1, <2>2, WaitersKept DEF TypeOK
  <2>4. NoStaleParent'
    BY <2>1, <2>2 DEF NoStaleParent, TypeOK
  <2> QED BY <2>3, <2>4 DEF WaitInd
<1>7. ASSUME NEW c \in CPU, ForkFail(c) PROVE WaitInd'
  <2>1. PICK p \in Slot : p = cur[c] /\ upc[p] = "forked"
    BY <1>7 DEF ForkFail, Running, TypeOK
  <2>2. PICK q \in Slot : q = np[p] /\ state[q] = "EMBRYO" /\ parent[q] = Nobody
    BY <2>1, ZenonT(60) DEF ForkOwns, InFork, NoStaleParent
  <2>3. /\ state' = [state EXCEPT ![q] = "UNUSED"]
        /\ np' = [np EXCEPT ![p] = Nobody]
        /\ upc' = [upc EXCEPT ![p] = "user"]
        /\ UNCHANGED <<parent, chan, killed>>
    BY <1>7, <2>1, <2>2 DEF ForkFail
  <2>4. WaitersMustWait'
    BY <2>3, WaitersKept DEF TypeOK
  <2>5. NoStaleParent'
    BY <2>1, <2>2, <2>3 DEF NoStaleParent, TypeOK
  <2> QED BY <2>4, <2>5 DEF WaitInd
<1>8. ASSUME NEW c \in CPU, ForkCopy(c) PROVE WaitInd'
  <2>1. PICK p \in Slot : p = cur[c] /\ upc[p] = "forked"
    BY <1>8 DEF ForkCopy, Running, TypeOK
  <2>2. PICK q \in Slot : q = np[p] /\ state[q] = "EMBRYO" /\ parent[q] = Nobody
    BY <2>1, ZenonT(60) DEF ForkOwns, InFork, NoStaleParent
  <2>3. /\ parent' = [parent EXCEPT ![q] = p]
        /\ upc' = [upc EXCEPT ![p] = "copied"]
        /\ UNCHANGED <<state, chan, killed, np>>
    BY <1>8, <2>1, <2>2 DEF ForkCopy
  <2>4. WaitersMustWait'
    BY <2>2, <2>3, WaitersKept DEF TypeOK
  <2>5. NoStaleParent'
    <3>1. \A x \in Slot : x # p /\ upc[x] = "forked" => np[x] # q
      BY <2>1, <2>2 DEF ForkOwns, InFork
    <3>2. q # p /\ q # initproc
      BY <2>1, <2>2 DEF OneCpuPerProcess, InitAlive, Alive
    <3> QED BY <2>1, <2>2, <2>3, <3>1, <3>2 DEF NoStaleParent, TypeOK, ForkOwns, InFork
  <2> QED BY <2>4, <2>5 DEF WaitInd
<1>9. ASSUME NEW c \in CPU, ForkDone(c) PROVE WaitInd'
  <2>1. PICK p \in Slot : p = cur[c] /\ upc[p] = "copied"
    BY <1>9 DEF ForkDone, Running, TypeOK
  <2>2. PICK q \in Slot : q = np[p] /\ state[q] = "EMBRYO"
    BY <2>1 DEF ForkOwns, InFork
  <2>3. /\ state' = [state EXCEPT ![q] = "RUNNABLE"]
        /\ np' = [np EXCEPT ![p] = Nobody]
        /\ upc' = [upc EXCEPT ![p] = "user"]
        /\ UNCHANGED <<parent, chan, killed>>
    BY <1>9, <2>1, <2>2 DEF ForkDone
  <2>4. WaitersMustWait'
    BY <2>2, <2>3, WaitersKept DEF TypeOK
  <2>5. NoStaleParent'
    BY <2>1, <2>2, <2>3 DEF NoStaleParent, TypeOK
  <2> QED BY <2>4, <2>5 DEF WaitInd
<1>10. ASSUME NEW c \in CPU, Exit(c) PROVE WaitInd'
  <2>1. PICK p \in Slot : p = cur[c] /\ upc[p] = "user" /\ lock = Nobody /\ p # initproc
    BY <1>10 DEF Exit, InUser, Running, TypeOK
  <2>2. state[p] = "RUNNING"
    BY <2>1 DEF OneCpuPerProcess
  <2>3. /\ parent' = [q \in Slot |-> IF parent[q] = p THEN initproc ELSE parent[q]]
        /\ UNCHANGED <<chan, killed, upc, np>>
    BY <1>10, <2>1 DEF Exit
  <2>4. \A q \in Slot : q # p =>
           state'[q] = IF /\ state[q] = "SLEEPING"
                          /\ \/ chan[q] = parent[p]
                             \/ /\ chan[q] = initproc
                                /\ \E z \in Slot : parent[z] = p /\ state[z] = "ZOMBIE"
                       THEN "RUNNABLE" ELSE state[q]
    BY <1>10, <2>1 DEF Exit, WakeupOn, TypeOK
  <2>5. state'[p] = "ZOMBIE"
    BY <1>10, <2>1 DEF Exit, WakeupOn
  <2>6. ASSUME NEW q \in Slot, state'[q] = "SLEEPING", chan'[q] = q
        PROVE  /\ state[q] = "SLEEPING" /\ chan[q] = q
               /\ ~killed[q] => ~killed'[q]
               /\ \A x \in Slot : parent[x] = q => parent'[x] = q
               /\ \A x \in Slot : parent'[x] = q /\ state'[x] = "ZOMBIE"
                                     => parent[x] = q /\ state[x] = "ZOMBIE"
    <3>1. q # p /\ state[q] = "SLEEPING" /\ chan[q] = q /\ q # parent[p]
      BY <2>3, <2>4, <2>5, <2>6
    <3>2. q = initproc => \A z \in Slot : parent[z] = p => state[z] # "ZOMBIE"
      BY <2>4, <2>6, <3>1
    <3>3. \A x \in Slot : state'[x] = "ZOMBIE" /\ x # p => state[x] = "ZOMBIE"
      BY <2>4
    <3>4. \A x \in Slot : parent'[x] = IF parent[x] = p THEN initproc ELSE parent[x]
      BY <2>3
    <3>5. ASSUME NEW x \in Slot, parent'[x] = q, state'[x] = "ZOMBIE"
          PROVE  parent[x] = q /\ state[x] = "ZOMBIE"
      <4>1. CASE x = p
        BY <3>1, <3>4, <3>5, <4>1 DEF NoStaleParent
      <4>2. CASE x # p
        BY <3>2, <3>3, <3>4, <3>5, <4>2
      <4> QED BY <4>1, <4>2
    <3> QED BY <2>3, <3>1, <3>4, <3>5
  <2>7. WaitersMustWait'
    BY <2>6, WaitersKept
  <2>8. NoStaleParent'
    <3>1. ASSUME NEW q \in Slot, state'[q] = "UNUSED" PROVE parent'[q] = Nobody
      <4>1. q # p /\ state[q] = "UNUSED"
        BY <2>4, <2>5, <3>1
      <4> QED BY <2>1, <2>3, <4>1 DEF NoStaleParent
    <3>2. ASSUME NEW q \in Slot, upc'[q] = "forked" PROVE parent'[np'[q]] = Nobody
      <4>1. np[q] \in Slot /\ parent[np[q]] = Nobody
        BY <2>3, <3>2 DEF NoStaleParent, ForkOwns, InFork
      <4> QED BY <2>1, <2>3, <4>1
    <3>3. parent'[initproc] = Nobody /\ \A q \in Slot : parent'[q] # q
      BY <2>1, <2>3 DEF NoStaleParent
    <3> QED BY <3>1, <3>2, <3>3 DEF NoStaleParent
  <2> QED BY <2>7, <2>8 DEF WaitInd
<1>11. ASSUME NEW c \in CPU, Wait(c) \/ SleepDone(c) PROVE WaitInd'
  <2>1. /\ UNCHANGED <<state, parent, chan, killed, np>>
        /\ \A p \in Slot : upc'[p] = "forked" => upc[p] = "forked"
    BY <1>11 DEF Wait, SleepDone, MayCall, InUser, Running, table, TypeOK
  <2> QED
    BY <2>1 DEF WaitInd, WaitersMustWait, NoStaleParent, Kids, Zombies
<1>12. ASSUME NEW c \in CPU, WaitReap(c) PROVE WaitInd'
  <2>1. PICK p \in Slot : /\ p = cur[c] /\ state[p] = "RUNNING"
                         /\ chan' = [chan EXCEPT ![p] = 0]
                         /\ upc' = [upc EXCEPT ![p] = "user"]
    BY <1>12 DEF WaitReap, TypeOK
  <2>2. PICK z \in Slot : /\ state[z] = "ZOMBIE" /\ parent[z] = p
                         /\ state' = [state EXCEPT ![z] = "UNUSED"]
                         /\ parent' = [parent EXCEPT ![z] = Nobody]
                         /\ killed' = [killed EXCEPT ![z] = FALSE]
    <3>1. /\ Zombies(p) # {} /\ Zombies(p) \subseteq Slot
          /\ state' = [state EXCEPT ![First(Zombies(p))] = "UNUSED"]
          /\ parent' = [parent EXCEPT ![First(Zombies(p))] = Nobody]
          /\ killed' = [killed EXCEPT ![First(Zombies(p))] = FALSE]
      BY <1>12, <2>1 DEF WaitReap, Zombies, Kids
    <3>2. First(Zombies(p)) \in Zombies(p)
      BY <3>1, FirstIn
    <3> QED BY <3>1, <3>2 DEF Zombies, Kids
  <2>3. UNCHANGED np
    BY <1>12 DEF WaitReap
  <2>4. WaitersMustWait'
    BY <2>1, <2>2, WaitersKept DEF TypeOK
  <2>5. NoStaleParent'
    BY <2>1, <2>2, <2>3 DEF NoStaleParent, TypeOK, ForkOwns, InFork
  <2> QED BY <2>4, <2>5 DEF WaitInd
<1>13. ASSUME NEW c \in CPU, WaitNone(c) PROVE WaitInd'
  <2>1. PICK p \in Slot : p = cur[c] /\ state[p] = "RUNNING" /\ upc[p] = "wait"
    BY <1>13 DEF WaitNone, TypeOK
  <2>2. Zombies(p) = {} /\ UNCHANGED <<parent, killed, np>>
    BY <1>13, <2>1 DEF WaitNone
  <2>3. CASE Kids(p) = {} \/ killed[p]
    <3>1. /\ chan' = [chan EXCEPT ![p] = 0] /\ upc' = [upc EXCEPT ![p] = "user"]
          /\ state' = state
      BY <1>13, <2>1, <2>3 DEF WaitNone
    <3>2. WaitersMustWait'
      BY <2>1, <2>2, <3>1, WaitersKept DEF TypeOK
    <3>3. NoStaleParent'
      BY <2>2, <3>1 DEF NoStaleParent, TypeOK
    <3> QED BY <3>2, <3>3 DEF WaitInd
  <2>4. CASE ~(Kids(p) = {} \/ killed[p])
    <3>1. /\ chan' = [chan EXCEPT ![p] = p] /\ upc' = upc
          /\ state' = [state EXCEPT ![p] = "SLEEPING"]
      BY <1>13, <2>1, <2>4 DEF WaitNone
    <3>2. ASSUME NEW q \in Slot, state'[q] = "SLEEPING", chan'[q] = q
          PROVE  Kids(q)' # {} /\ Zombies(q)' = {} /\ ~killed'[q]
      <4>1. Kids(q) # {} /\ Zombies(q) = {} /\ ~killed[q]
        BY <2>1, <2>2, <2>4, <3>1, <3>2 DEF WaitersMustWait, TypeOK
      <4>2. \A x \in Slot : state'[x] = "ZOMBIE" => state[x] = "ZOMBIE"
        BY <3>1 DEF TypeOK
      <4> QED BY <2>2, <4>1, <4>2 DEF Kids, Zombies
    <3>3. WaitersMustWait'
      BY <3>2 DEF WaitersMustWait
    <3>4. NoStaleParent'
      BY <2>2, <3>1 DEF NoStaleParent, TypeOK
    <3> QED BY <3>3, <3>4 DEF WaitInd
  <2> QED BY <2>3, <2>4
<1>14. ASSUME NEW c \in CPU, Sleep(c) PROVE WaitInd'
  <2>1. PICK p \in Slot : /\ p = cur[c]
                         /\ chan' = [chan EXCEPT ![p] = IO]
                         /\ state' = [state EXCEPT ![p] = "SLEEPING"]
                         /\ upc' = [upc EXCEPT ![p] = "io"]
    BY <1>14 DEF Sleep, MayCall, InUser, Running, TypeOK
  <2>2. UNCHANGED <<parent, killed, np>> /\ p # IO
    BY <1>14 DEF Sleep
  <2>3. WaitersMustWait'
    BY <2>1, <2>2, WaitersKept DEF TypeOK
  <2>4. NoStaleParent'
    BY <2>1, <2>2 DEF NoStaleParent, TypeOK
  <2> QED BY <2>3, <2>4 DEF WaitInd
<1>15. ASSUME NEW c \in CPU, NEW k \in KillPids, Kill(c, k) PROVE WaitInd'
  <2>1. PICK q \in Slot : /\ killed' = [killed EXCEPT ![q] = TRUE]
                         /\ state' = [state EXCEPT ![q] = IF @ = "SLEEPING" THEN "RUNNABLE" ELSE @]
    <3>1. LET named == {q \in Slot : pid[q] = k} IN
          /\ named # {}
          /\ killed' = [killed EXCEPT ![First(named)] = TRUE]
          /\ state' = [state EXCEPT ![First(named)] =
                          IF @ = "SLEEPING" THEN "RUNNABLE" ELSE @]
      BY <1>15 DEF Kill
    <3>2. First({q \in Slot : pid[q] = k}) \in {q \in Slot : pid[q] = k}
      BY <3>1, FirstIn
    <3> QED BY <3>1, <3>2
  <2>2. UNCHANGED <<parent, chan, upc, np>>
    BY <1>15 DEF Kill
  <2>3. WaitersMustWait'
    BY <2>1, <2>2, WaitersKept DEF TypeOK
  <2>4. NoStaleParent'
    BY <2>1, <2>2 DEF NoStaleParent, TypeOK
  <2> QED BY <2>3, <2>4 DEF WaitInd
<1>16. ASSUME Wakeup PROVE WaitInd'
  <2>1. \A p \in Slot : state'[p] = state[p] \/ (state[p] = "SLEEPING" /\ state'[p] = "RUNNABLE")
    BY <1>16, WakeupFacts, ZenonT(60) DEF Wakeup, TypeOK
  <2>2. UNCHANGED <<parent, chan, killed, upc, np>>
    BY <1>16 DEF Wakeup
  <2>3. WaitersMustWait'
    BY <2>1, <2>2, WaitersKept
  <2>4. NoStaleParent'
    BY <2>1, <2>2 DEF NoStaleParent
  <2> QED BY <2>3, <2>4 DEF WaitInd
<1>17. CASE UNCHANGED vars
  BY <1>1, <1>17 DEF vars
<1> QED
  BY <1>2, <1>3, <1>4, <1>5, <1>6, <1>7, <1>8, <1>9, <1>10, <1>11, <1>12, <1>13,
     <1>14, <1>15, <1>16, <1>17
   DEF Next, SchedulerStep, Switch, ForkStep, WaitStep

(* No wakeup of wait() is lost: whoever sleeps in it has a child to wait for, none
   of its children has exited, not even one that init has inherited, and it has
   not been killed.  It holds also while ptable.lock is held. *)
THEOREM NoLostExit == Spec => []WaitersMustWait
<1>1. Ind /\ WaitInd => WaitersMustWait
  BY DEF WaitInd
<1> QED BY <1>1, InitInd, NextInd, InitWait, NextWait, PTL DEF Spec

=============================================================================
