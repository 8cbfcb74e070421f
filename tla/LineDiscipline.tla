--------------------------- MODULE LineDiscipline ---------------------------
(* What the console promises: keys build a line that can be edited until it
   is finished; finished input is delivered once, in the order typed, and at
   most Capacity characters are kept. *)
EXTENDS Naturals, Sequences, SequencesExt

CONSTANTS Reader, Letter, Capacity, Newline, Eof

VARIABLES ready,  \* finished input that nobody has read yet
          edit,   \* the line being edited
          got     \* got[p]: what the current read of p will return

lvars == <<ready, edit, got>>

LInit == ready = << >> /\ edit = << >> /\ got = [p \in Reader |-> << >>]

(* An end of line, an end of file and a full buffer finish the line. *)
Type(c) ==
    /\ Len(ready) + Len(edit) < Capacity
    /\ IF c \in {Newline, Eof} \/ Len(ready) + Len(edit) + 1 = Capacity
       THEN ready' = ready \o Append(edit, c) /\ edit' = << >>
       ELSE edit' = Append(edit, c) /\ UNCHANGED ready
    /\ UNCHANGED got

Erase == edit # << >> /\ edit' = Front(edit) /\ UNCHANGED <<ready, got>>

KillLine == edit' = << >> /\ UNCHANGED <<ready, got>>

(* A read ends: it has n characters, was killed while it waited, or an end of
   file follows what it returns. *)
Return(p) == got' = [got EXCEPT ![p] = << >>] /\ UNCHANGED <<ready, edit>>

(* A read takes one line at most: the newline ends it. *)
Take(p) ==
    /\ ready # << >> /\ Head(ready) # Eof
    /\ got' = [got EXCEPT ![p] = IF Head(ready) = Newline
                                 THEN << >> ELSE Append(@, Head(ready))]
    /\ ready' = Tail(ready)
    /\ UNCHANGED edit

(* The end of file is used up by the read that returns nothing. *)
TakeEof(p) ==
    /\ ready # << >> /\ Head(ready) = Eof /\ got[p] = << >>
    /\ ready' = Tail(ready)
    /\ UNCHANGED <<edit, got>>

LNext ==
    \/ \E c \in Letter \cup {Newline, Eof} : Type(c)
    \/ Erase \/ KillLine
    \/ \E p \in Reader : Return(p) \/ Take(p) \/ TakeEof(p)

LSpec == LInit /\ [][LNext]_lvars
=============================================================================
