---------------------------- MODULE ByteChannel -----------------------------
(* What a pipe promises: bytes come out in the order in which they went in,
   each of them once, and at most Capacity of them are on their way. *)
EXTENDS Naturals, Sequences

CONSTANTS Byte, Capacity

VARIABLES q,    \* bytes written and not yet read
          last, \* the byte delivered last
          open  \* one end at least is open

cvars == <<q, last, open>>

CInit == q = << >> /\ last \in Byte /\ open = TRUE

Put(b) == open /\ Len(q) < Capacity /\ q' = Append(q, b) /\ UNCHANGED <<last, open>>

Get == open /\ q # << >> /\ last' = Head(q) /\ q' = Tail(q) /\ UNCHANGED open

(* When both ends are closed, and then only, what was not read is lost. *)
Discard == open /\ ~open' /\ q' = << >> /\ UNCHANGED last

(* the page becomes a new pipe *)
Reopen == ~open /\ open' /\ UNCHANGED <<q, last>>

CNext == (\E b \in Byte : Put(b)) \/ Get \/ Discard \/ Reopen

CSpec == CInit /\ [][CNext]_cvars
=============================================================================
