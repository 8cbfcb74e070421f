------------------------------ MODULE Console -------------------------------
(***************************************************************************)
(* Console input (console.c): the ring that consoleintr() fills and edits  *)
(* and consoleread() empties, with its three free-running unsigned indices *)
(* r <= w <= e.  cons.lock is given by its holder.  consoleintr() holds it *)
(* from the first key to the last, so one key is one step; a reader holds  *)
(* it except while it sleeps on &input.r, but kill(), which takes          *)
(* ptable.lock only, may overtake it anywhere.                             *)
(***************************************************************************)
EXTENDS Naturals, Sequences

CONSTANTS
    Reader,     \* processes that read the console
    Letter,     \* ordinary characters
    INPUT_BUF,
    UintMod,    \* r, w and e are unsigned integers modulo this
    MaxN,       \* largest n passed to consoleread
    NoProc

(* UintMod stands for 2^32, of which INPUT_BUF is a divisor. *)
ConsoleAssumption ==
    /\ NoProc \notin Reader
    /\ INPUT_BUF \in Nat \ {0} /\ MaxN \in Nat \ {0}
    /\ UintMod \in Nat /\ UintMod % INPUT_BUF = 0 /\ UintMod > INPUT_BUF
    /\ Letter \cap {"\n", "^D"} = {}

Char == Letter \cup {"\n", "^D"}

(* What getc() may return: carriage return, ^U, ^H, ^P and NUL are handled
   or dropped, the others are stored. *)
Key == Char \cup {"\r", "^U", "^H", "^P", "NUL"}

VARIABLES
    buf, r, w, e,    \* input
    lock,            \* holder of cons.lock
    pc,              \* where each process is
    n, target,       \* variables of consoleread
    got,             \* got[p]: characters of this call stored through dst
    killed           \* killed[p]: p->killed

input == <<buf, r, w, e>>
vars == <<buf, r, w, e, lock, pc, n, target, got, killed>>

TypeOK ==
    /\ buf \in [0 .. INPUT_BUF - 1 -> Char]
    /\ {r, w, e} \subseteq 0 .. UintMod - 1
    /\ lock \in Reader \cup {NoProc}
    /\ pc \in [Reader -> {"out", "acquire", "test", "sleep", "asleep", "take"}]
    /\ n \in [Reader -> 0 .. MaxN] /\ target \in [Reader -> 0 .. MaxN]
    /\ got \in [Reader -> Seq(Char)]
    /\ killed \in [Reader -> BOOLEAN]

Init ==
    /\ buf = [j \in 0 .. INPUT_BUF - 1 |-> "\n"]
    /\ r = 0 /\ w = 0 /\ e = 0
    /\ lock = NoProc
    /\ pc = [p \in Reader |-> "out"]
    /\ n = [p \in Reader |-> 0] /\ target = [p \in Reader |-> 0]
    /\ got = [p \in Reader |-> << >>]
    /\ killed = [p \in Reader |-> FALSE]

-----------------------------------------------------------------------------
(* Unsigned arithmetic *)
Plus(a, b) == (a + b) % UintMod

Minus(a, b) == (a + UintMod - b) % UintMod

(* wakeup(&input.r) *)
WakeReaders == [p \in Reader |-> IF pc[p] = "asleep" THEN "acquire" ELSE pc[p]]

(* input.e - input.r < INPUT_BUF *)
Room == Minus(e, r) < INPUT_BUF

FinishedUnlessFull(c) == c \in {"\n", "^D"}

(* The character just stored ends the input that readers may have: it is an
   end of line or of file, or it fills the ring.  e is its index. *)
Finished(c) == c \in {"\n", "^D"} \/ Plus(e, 1) = Plus(r, INPUT_BUF)

(* default: store the character, and commit what has been typed. *)
Store(c) ==
    /\ buf' = [buf EXCEPT ![e % INPUT_BUF] = c]
    /\ e' = Plus(e, 1)
    /\ IF Finished(c) THEN w' = e' /\ pc' = WakeReaders
                      ELSE UNCHANGED <<w, pc>>

(* ^U: e goes back to w, or to just after a newline.  Back(k) is e-k. *)
KillLine ==
    LET Back(k) == Minus(e, k)
        stops == {k \in 0 .. Minus(e, w) :
                     Back(k) = w \/ buf[Minus(Back(k), 1) % INPUT_BUF] = "\n"}
    IN e' = Back(CHOOSE k \in stops : \A j \in stops : k <= j)

(* ^H and DEL take back what has not been committed. *)
Backspace ==
    e' = IF e # w THEN Minus(e, 1) ELSE e

(* consoleintr, for one key.  ^P lists the processes once the lock is free. *)
Consoleintr(key) ==
    /\ lock = NoProc
    /\ LET c == IF key = "\r" THEN "\n" ELSE key
       IN \/ /\ key = "^U" /\ KillLine
             /\ UNCHANGED <<buf, w, pc>>
          \/ /\ key = "^H" /\ Backspace
             /\ UNCHANGED <<buf, w, pc>>
          \/ /\ key \notin {"^U", "^H", "^P", "NUL"}
             /\ IF Room THEN Store(c) ELSE UNCHANGED <<buf, w, e, pc>>
          \/ /\ key \in {"^P", "NUL"}
             /\ UNCHANGED <<buf, w, e, pc>>
    /\ UNCHANGED <<r, lock, n, target, got, killed>>

-----------------------------------------------------------------------------
Goto(p, place) == pc' = [pc EXCEPT ![p] = place]

(* read(fd, dst, k) of the console: consoleread up to its acquire.  A process
   that has been killed makes no more calls (trap.c). *)
Consoleread(p, k) ==
    /\ pc[p] = "out" /\ ~killed[p]
    /\ n' = [n EXCEPT ![p] = k] /\ target' = [target EXCEPT ![p] = k]
    /\ Goto(p, "acquire")
    /\ UNCHANGED <<input, lock, got, killed>>

(* acquire(&cons.lock), at the start and at the end of sleep() *)
Acquire(p) ==
    /\ pc[p] = "acquire" /\ lock = NoProc
    /\ lock' = p
    /\ Goto(p, "test")
    /\ UNCHANGED <<input, n, target, got, killed>>

(* release(&cons.lock) and return: the locals are dead. *)
Return(p) ==
    /\ lock' = NoProc
    /\ Goto(p, "out")
    /\ n' = [n EXCEPT ![p] = 0] /\ target' = [target EXCEPT ![p] = 0]
    /\ got' = [got EXCEPT ![p] = << >>]

(* The two loop tests *)
Test(p) ==
    /\ pc[p] = "test"
    /\ \/ n[p] = 0 /\ Return(p)
       \/ n[p] > 0 /\ r # w /\ Goto(p, "take") /\ UNCHANGED <<lock, n, target, got>>
       \/ n[p] > 0 /\ r = w /\ killed[p] /\ Return(p)
       \/ /\ n[p] > 0 /\ r = w /\ ~killed[p]
          /\ Goto(p, "sleep") /\ UNCHANGED <<lock, n, target, got>>
    /\ UNCHANGED <<input, killed>>

(* sleep(&input.r, &cons.lock) *)
Sleep(p) ==
    /\ pc[p] = "sleep"
    /\ lock' = NoProc
    /\ Goto(p, "asleep")
    /\ UNCHANGED <<input, n, target, got, killed>>

EatEof(p) ==
    /\ r' = Plus(r, 1)
    /\ Return(p)

(* c == C('D'): the index goes back when something has been returned before. *)
AtEof(p) ==
    /\ r' = IF n[p] < target[p] THEN r ELSE Plus(r, 1)
    /\ Return(p)

(* One character *)
Take(p) ==
    LET c == buf[r % INPUT_BUF]
    IN /\ pc[p] = "take"
       /\ IF c = "^D"
          THEN AtEof(p)
          ELSE /\ r' = Plus(r, 1)
               /\ IF c = "\n"
                  THEN Return(p)
                  ELSE /\ got' = [got EXCEPT ![p] = Append(@, c)]
                       /\ n' = [n EXCEPT ![p] = @ - 1]
                       /\ Goto(p, "test")
                       /\ UNCHANGED <<lock, target>>
       /\ UNCHANGED <<buf, w, e, killed>>

(* kill(): set p->killed, and make p runnable if it sleeps. *)
Kill(p) ==
    /\ ~killed[p]
    /\ killed' = [killed EXCEPT ![p] = TRUE]
    /\ pc' = [pc EXCEPT ![p] = IF @ = "asleep" THEN "acquire" ELSE @]
    /\ UNCHANGED <<input, lock, n, target, got>>

(* A killed process exits when it returns to user space; another reader
   takes its place. *)
Exit(p) ==
    /\ killed[p] /\ pc[p] = "out"
    /\ killed' = [killed EXCEPT ![p] = FALSE]
    /\ UNCHANGED <<input, lock, pc, n, target, got>>

Step(p) == Acquire(p) \/ Test(p) \/ Sleep(p) \/ Take(p)

Next ==
    \/ \E key \in Key : Consoleintr(key)
    \/ \E p \in Reader : \/ Step(p) \/ Kill(p) \/ Exit(p)
                         \/ \E k \in 0 .. MaxN : Consoleread(p, k)

Spec == Init /\ [][Next]_vars

-----------------------------------------------------------------------------
(* Properties. *)

(* The committed and the edited characters fit in the ring, in this order,
   also when the indices have wrapped around; and a ring that is full has
   been handed to the readers, else no key could ever empty it. *)
RingInOrder ==
    /\ Minus(w, r) + Minus(e, w) = Minus(e, r)
    /\ Minus(e, r) <= INPUT_BUF
    /\ Minus(e, r) = INPUT_BUF => w = e

(* A reader sleeps only while there is nothing to read: consoleintr wakes
   it, and no reader puts ^D back behind the back of another. *)
ReadersMustWait == \A p \in Reader : pc[p] = "asleep" => r = w

(* The ring with its indices is the line discipline: what is typed arrives
   in order and once, what has been committed can no longer be edited, a
   read returns one line at most, and ^D ends one read that would return
   nothing. *)
Line == INSTANCE LineDiscipline WITH
    Capacity <- INPUT_BUF, Newline <- "\n", Eof <- "^D",
    ready <- [j \in 1 .. Minus(w, r) |-> buf[Plus(r, j - 1) % INPUT_BUF]],
    edit <- [j \in 1 .. Minus(e, w) |-> buf[Plus(w, j - 1) % INPUT_BUF]]

IsLineDiscipline == Line!LSpec

(* What cons.lock protects: three indices in order, and neither a reader nor
   the keyboard that waits for the other in vain. *)
ConsoleInv == TypeOK /\ RingInOrder /\ ReadersMustWait
=============================================================================
