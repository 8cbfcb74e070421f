--------------------------- MODULE ConsoleProofs ----------------------------
(***************************************************************************)
(* Proofs about the console, the instance of Console in MCInterrupts, for  *)
(* every size of its ring, modulus of the indices and number of readers.   *)
(***************************************************************************)
EXTENDS MCInterrupts, Remainders, SequenceTheorems, TLAPS

(* The k-th character behind r *)
Cell(k) == buf[(r + k) % INPUT_BUF]

Committed == K!Minus(w, r)
Stored == K!Minus(e, r)

(* cons.lock is held by the reader that is inside consoleread. *)
ConsInside == {"test", "sleep", "take"}
ConsLockHolder ==
    \A p \in ConsReader : conspc[p] \in ConsInside <=> conslock = p

(* What a reader has found out about r and w stays true while it has the lock. *)
ConsTested ==
    \A p \in ConsReader : /\ conspc[p] = "sleep" => r = w
                          /\ conspc[p] = "take" => r # w /\ consn[p] > 0

(* got holds the target - n characters copied so far. *)
ConsCopied ==
    \A p \in ConsReader : /\ Len(got[p]) + consn[p] = target[p]
                          /\ conspc[p] = "out" => got[p] = << >>

(* The line being edited has no end: ^U goes back to w. *)
EditPlain ==
    \A k \in Committed .. Stored - 1 : Cell(k) \notin {"\n", "^D"}

(* RingInOrder in terms of the number of characters in the ring *)
ConsRing ==
    /\ Committed <= Stored /\ Stored <= INPUT_BUF
    /\ Stored = INPUT_BUF => Committed = Stored

ConsInd ==
    /\ K!TypeOK /\ ConsRing /\ K!ReadersMustWait
    /\ ConsLockHolder /\ ConsTested /\ ConsCopied /\ EditPlain

-----------------------------------------------------------------------------
(* The constants, and unsigned arithmetic on the indices. *)

Index == 0 .. ConsUintMod - 1

LEMMA ConsConstants ==
    /\ INPUT_BUF \in Nat \ {0} /\ ConsUintMod \in Nat \ {0} /\ INPUT_BUF < ConsUintMod
    /\ ConsUintMod % INPUT_BUF = 0 /\ ConsMaxN \in Nat \ {0}
    /\ NoProc \notin ConsReader
BY ConsoleConstants DEF K!ConsoleAssumption

LEMMA ConsMinus ==
    ASSUME NEW a \in Index, NEW b \in Index
    PROVE  /\ K!Minus(a, b) = IF b <= a THEN a - b ELSE a + ConsUintMod - b
           /\ K!Minus(a, b) \in Index
<1> DEFINE x == a + ConsUintMod - b
<1>0. ConsUintMod \in Nat \ {0} /\ x \in Nat /\ K!Minus(a, b) = x % ConsUintMod
  BY ConsConstants DEF Index, K!Minus
<1>1. CASE b <= a
  <2>1. ConsUintMod <= x /\ x < 2 * ConsUintMod /\ x - ConsUintMod = a - b
    BY <1>0, <1>1 DEF Index
  <2> HIDE DEF x
  <2>2. x % ConsUintMod = a - b
    BY ONLY <1>0, <2>1, ModOnce
  <2> QED BY <1>0, <1>1, <2>2 DEF Index
<1>2. CASE ~(b <= a)
  <2>1. x \in 0 .. ConsUintMod - 1
    BY <1>0, <1>2 DEF Index
  <2>2. x % ConsUintMod = x
    <3> HIDE DEF x
    <3> QED BY ONLY <1>0, <2>1, ModSmall
  <2> QED BY <1>0, <1>2, <2>1, <2>2 DEF Index
<1> QED BY <1>1, <1>2

LEMMA ConsPlus ==
    ASSUME NEW a \in Index, NEW k \in Index
    PROVE  /\ K!Plus(a, k) = IF a + k < ConsUintMod THEN a + k ELSE a + k - ConsUintMod
           /\ K!Plus(a, k) \in Index
<1> DEFINE x == a + k
<1>0. ConsUintMod \in Nat \ {0} /\ x \in Nat /\ K!Plus(a, k) = x % ConsUintMod
  BY ConsConstants DEF Index, K!Plus
<1>1. CASE x < ConsUintMod
  <2>1. x \in 0 .. ConsUintMod - 1
    BY <1>0, <1>1
  <2>2. x % ConsUintMod = x
    <3> HIDE DEF x
    <3> QED BY ONLY <1>0, <2>1, ModSmall
  <2> QED BY <1>0, <1>1, <2>1, <2>2 DEF Index
<1>2. CASE ~(x < ConsUintMod)
  <2>1. ConsUintMod <= x /\ x < 2 * ConsUintMod
    BY <1>0, <1>2 DEF Index
  <2>2. x % ConsUintMod = x - ConsUintMod
    <3> HIDE DEF x
    <3> QED BY ONLY <1>0, <2>1, ModOnce
  <2> QED BY <1>0, <1>2, <2>1, <2>2 DEF Index
<1> QED BY <1>1, <1>2

(* The ring's size divides the modulus: a wrap-around does not move a cell. *)
LEMMA ConsShift ==
    ASSUME NEW x \in Nat PROVE (x + ConsUintMod) % INPUT_BUF = x % INPUT_BUF
<1> DEFINE k == ConsUintMod \div INPUT_BUF
<1>1. INPUT_BUF \in Nat \ {0} /\ ConsUintMod \in Nat /\ ConsUintMod % INPUT_BUF = 0
  BY ConsConstants
<1>2. ConsUintMod = INPUT_BUF * k /\ k \in Nat
  BY <1>1, ModParts
<1> HIDE DEF k
<1>3. (x + INPUT_BUF * k) % INPUT_BUF = x % INPUT_BUF
  BY <1>1, <1>2, ModShift
<1> QED BY <1>2, <1>3

LEMMA ConsSlot ==
    ASSUME NEW a \in Index, NEW b \in Index, NEW k \in Nat
    PROVE  (b + K!Minus(a, b) + k) % INPUT_BUF = (a + k) % INPUT_BUF
<1>1. CASE b <= a
  <2>1. b + K!Minus(a, b) + k = a + k
    BY <1>1, ConsMinus, ConsConstants DEF Index
  <2> QED BY <2>1
<1>2. CASE ~(b <= a)
  <2>1. b + K!Minus(a, b) + k = (a + k) + ConsUintMod /\ a + k \in Nat
    BY <1>2, ConsMinus, ConsConstants DEF Index
  <2>2. ((a + k) + ConsUintMod) % INPUT_BUF = (a + k) % INPUT_BUF
    BY <2>1, ConsShift
  <2> QED BY <2>1, <2>2
<1> QED BY <1>1, <1>2

LEMMA ConsPlusSlot ==
    ASSUME NEW a \in Index, NEW k \in Index, NEW j \in Nat
    PROVE  (K!Plus(a, k) + j) % INPUT_BUF = (a + k + j) % INPUT_BUF
<1>1. CASE a + k < ConsUintMod
  BY <1>1, ConsPlus
<1>2. CASE ~(a + k < ConsUintMod)
  <2>0. K!Plus(a, k) = a + k - ConsUintMod /\ K!Plus(a, k) \in Index
    BY <1>2, ConsPlus
  <2>1. a + k + j = (K!Plus(a, k) + j) + ConsUintMod /\ K!Plus(a, k) + j \in Nat
    BY <2>0, ConsConstants DEF Index
  <2>2. ((K!Plus(a, k) + j) + ConsUintMod) % INPUT_BUF = (K!Plus(a, k) + j) % INPUT_BUF
    BY <2>1, ConsShift
  <2> QED BY <2>1, <2>2
<1> QED BY <1>1, <1>2

LEMMA ConsDistinct ==
    ASSUME NEW x \in Nat, NEW k \in Nat, NEW j \in Nat, k < j, j < k + INPUT_BUF
    PROVE  (x + k) % INPUT_BUF # (x + j) % INPUT_BUF
<1> DEFINE y == x + k
           d == j - k
<1>1. y \in Nat /\ d \in 1 .. INPUT_BUF - 1 /\ x + j = y + d
  BY ConsConstants
<1>2. (y + d) % INPUT_BUF # y % INPUT_BUF
  <2> HIDE DEF y, d
  <2> QED BY ONLY <1>1, ConsConstants, ModApart
<1> QED BY <1>1, <1>2

-----------------------------------------------------------------------------
(* How far the indices are apart, before and after a step. *)

LEMMA ConsIndices ==
    ASSUME K!TypeOK
    PROVE  /\ r \in Index /\ w \in Index /\ e \in Index
           /\ Committed \in Index /\ Stored \in Index /\ K!Minus(e, w) \in Index
           /\ r = w <=> Committed = 0
<1>1. r \in Index /\ w \in Index /\ e \in Index
  BY DEF K!TypeOK, Index
<1>2. Committed \in Index /\ Stored \in Index /\ K!Minus(e, w) \in Index
  BY <1>1, ConsMinus DEF Committed, Stored
<1>3. Committed = IF r <= w THEN w - r ELSE w + ConsUintMod - r
  BY <1>1, ConsMinus DEF Committed
<1>4. r = w <=> Committed = 0
  BY <1>1, <1>3, ConsConstants DEF Index
<1> QED BY <1>1, <1>2, <1>4

LEMMA ConsCellType ==
    ASSUME K!TypeOK, NEW k \in Nat PROVE Cell(k) \in K!Char
<1>1. r + k \in Nat /\ INPUT_BUF \in Nat \ {0}
  BY ConsConstants, ConsIndices DEF Index
<1>2. (r + k) % INPUT_BUF \in 0 .. INPUT_BUF - 1
  BY ONLY <1>1, ModRange
<1> QED BY <1>2 DEF K!TypeOK, Cell

LEMMA RingIs ==
    ASSUME K!TypeOK
    PROVE  /\ K!RingInOrder <=> ConsRing
           /\ ConsRing => K!Minus(e, w) = Stored - Committed
           /\ w = e <=> Committed = Stored
<1>1. r \in Index /\ w \in Index /\ e \in Index /\ INPUT_BUF \in Nat /\ ConsUintMod \in Nat
  BY ConsIndices, ConsConstants
<1>2. /\ Committed = IF r <= w THEN w - r ELSE w + ConsUintMod - r
      /\ Stored = IF r <= e THEN e - r ELSE e + ConsUintMod - r
      /\ K!Minus(e, w) = IF w <= e THEN e - w ELSE e + ConsUintMod - w
  BY <1>1, ConsMinus DEF Committed, Stored
<1>3. w = e <=> Committed = Stored
  BY <1>1, <1>2 DEF Index
<1>4. Committed + K!Minus(e, w) = Stored <=> Committed <= Stored
  BY <1>1, <1>2 DEF Index
<1>5. Committed \in Nat /\ Stored \in Nat /\ K!Minus(e, w) \in Nat
  BY <1>1, <1>2 DEF Index
<1>6. K!RingInOrder <=> ConsRing
  BY <1>3, <1>4, <1>5 DEF K!RingInOrder, ConsRing, Committed, Stored
<1>7. ConsRing => K!Minus(e, w) = Stored - Committed
  BY <1>4, <1>5 DEF ConsRing
<1> QED BY <1>3, <1>6, <1>7

(* What consoleintr() knows when it stores a character. *)
LEMMA ConsStored ==
    ASSUME K!TypeOK, ConsRing, K!Room, NEW c, K!Store(c), r' = r
    PROVE  /\ Stored < INPUT_BUF
           /\ e' \in Index /\ w' \in Index
           /\ Stored' = Stored + 1
           /\ K!Finished(c) <=> (c \in {"\n", "^D"} \/ Stored + 1 = INPUT_BUF)
           /\ Committed' = IF K!Finished(c) THEN Stored + 1 ELSE Committed
           /\ \A k \in 0 .. Stored - 1 : Cell(k)' = Cell(k)
           /\ \A k \in Nat : k = Stored => Cell(k)' = c
<1>1. /\ r \in Index /\ w \in Index /\ e \in Index /\ INPUT_BUF \in Nat \ {0}
      /\ ConsUintMod \in Nat /\ INPUT_BUF < ConsUintMod /\ Stored \in Index
  BY ConsIndices, ConsConstants
<1>2. Stored < INPUT_BUF
  BY DEF K!Room, Stored
<1>3. e' = K!Plus(e, 1) /\ buf' = [buf EXCEPT ![e % INPUT_BUF] = c]
  BY DEF K!Store
<1>4. 1 \in Index /\ INPUT_BUF \in Index
  BY <1>1 DEF Index
<1>5. e' \in Index /\ e' = IF e + 1 < ConsUintMod THEN e + 1 ELSE e + 1 - ConsUintMod
  BY <1>1, <1>3, <1>4, ConsPlus
<1>6. /\ Stored = IF r <= e THEN e - r ELSE e + ConsUintMod - r
      /\ Stored' = IF r <= e' THEN e' - r ELSE e' + ConsUintMod - r
  BY <1>1, <1>5, ConsMinus DEF Stored
<1>7. Stored' = Stored + 1
  BY <1>1, <1>2, <1>5, <1>6 DEF Index
<1>8. K!Finished(c) <=> (c \in {"\n", "^D"} \/ Stored + 1 = INPUT_BUF)
  <2>1. K!Plus(r, INPUT_BUF) = IF r + INPUT_BUF < ConsUintMod THEN r + INPUT_BUF
                                                        ELSE r + INPUT_BUF - ConsUintMod
    BY <1>1, <1>4, ConsPlus
  <2>2. e' = K!Plus(r, INPUT_BUF) <=> Stored + 1 = INPUT_BUF
    BY <1>1, <1>2, <1>5, <1>6, <2>1 DEF Index
  <2> QED BY <1>3, <2>2 DEF K!Finished
<1>9. w' \in Index /\ Committed' = IF K!Finished(c) THEN Stored + 1 ELSE Committed
  <2>1. K!Finished(c) => w' = e'
    BY DEF K!Store
  <2>2. ~K!Finished(c) => w' = w
    BY DEF K!Store
  <2>3. K!Finished(c) => Committed' = Stored'
    BY <2>1 DEF Committed, Stored
  <2>4. ~K!Finished(c) => Committed' = Committed
    BY <2>2 DEF Committed
  <2> QED BY <1>1, <1>5, <1>7, <2>1, <2>2, <2>3, <2>4
<1>10. e % INPUT_BUF = (r + Stored) % INPUT_BUF
  <2>1. (r + K!Minus(e, r) + 0) % INPUT_BUF = (e + 0) % INPUT_BUF
    BY <1>1, ConsSlot
  <2>2. r + K!Minus(e, r) + 0 = r + Stored /\ e + 0 = e
    BY <1>1 DEF Stored, Index
  <2> QED BY <2>1, <2>2
<1>11. r \in Nat /\ Stored \in Nat
  BY <1>1 DEF Index
<1>12. ASSUME NEW k \in 0 .. Stored - 1 PROVE Cell(k)' = Cell(k)
  <2>1. k \in Nat /\ k < Stored /\ Stored < k + INPUT_BUF
    BY <1>1, <1>2, <1>11, <1>12
  <2>2. (r + k) % INPUT_BUF # (r + Stored) % INPUT_BUF
    BY <1>11, <2>1, ConsDistinct
  <2>3. buf'[(r + k) % INPUT_BUF] = buf[(r + k) % INPUT_BUF]
    <3>1. (r + k) % INPUT_BUF \in 0 .. INPUT_BUF - 1
      <4>1. r + k \in Nat
        BY <1>11, <2>1
      <4> QED BY <4>1, <1>1, ModRange
    <3> QED BY <1>3, <1>10, <2>2, <3>1 DEF K!TypeOK
  <2> QED BY <2>3 DEF Cell
<1>13. ASSUME NEW k \in Nat, k = Stored PROVE Cell(k)' = c
  <2>1. e % INPUT_BUF \in 0 .. INPUT_BUF - 1
    <3>1. e \in Nat
      BY <1>1 DEF Index
    <3> QED BY <3>1, <1>1, ModRange
  <2>2. buf'[e % INPUT_BUF] = c
    BY <1>3, <2>1 DEF K!TypeOK
  <2> QED BY <1>10, <1>13, <2>2 DEF Cell
<1> QED BY <1>2, <1>5, <1>7, <1>8, <1>9, <1>12, <1>13

(* ^H: one character fewer. *)
LEMMA ConsErased ==
    ASSUME K!TypeOK, ConsRing, K!Backspace, UNCHANGED <<buf, r, w>>
    PROVE  /\ e' \in Index
           /\ Committed' = Committed
           /\ Stored' = IF Committed = Stored THEN Stored ELSE Stored - 1
<1>1. /\ r \in Index /\ w \in Index /\ e \in Index /\ INPUT_BUF \in Nat \ {0}
      /\ ConsUintMod \in Nat /\ INPUT_BUF < ConsUintMod /\ Stored \in Index
      /\ Committed \in Index /\ 1 \in Index
  BY ConsIndices, ConsConstants DEF Index
<1>2. Committed' = Committed
  BY DEF Committed
<1>3. w = e <=> Committed = Stored
  BY RingIs
<1>4. CASE e = w
  <2>1. e' = e
    BY <1>4 DEF K!Backspace
  <2>2. Stored' = Stored
    BY <2>1 DEF Stored
  <2> QED BY <1>1, <1>2, <1>3, <1>4, <2>1, <2>2
<1>5. CASE e # w
  <2>1. e' = K!Minus(e, 1)
    BY <1>5 DEF K!Backspace
  <2>2. e' \in Index /\ e' = IF 1 <= e THEN e - 1 ELSE e + ConsUintMod - 1
    BY <1>1, <2>1, ConsMinus
  <2>3. /\ Stored = IF r <= e THEN e - r ELSE e + ConsUintMod - r
        /\ Stored' = IF r <= e' THEN e' - r ELSE e' + ConsUintMod - r
    BY <1>1, <2>2, ConsMinus DEF Stored
  <2>4. Stored # 0
    BY <1>1, <1>3, <1>5 DEF ConsRing, Index
  <2>5. Stored' = Stored - 1
    BY <1>1, <2>2, <2>3, <2>4 DEF Index
  <2> QED BY <1>2, <1>3, <1>5, <2>2, <2>5
<1> QED BY <1>4, <1>5

(* ^U: the loop ends at w, since it meets no newline before. *)
LEMMA ConsKilled ==
    ASSUME K!TypeOK, ConsRing, EditPlain, K!KillLine, UNCHANGED <<buf, r, w>>
    PROVE  e' = w /\ Committed' = Committed /\ Stored' = Committed
<1> DEFINE m == Stored - Committed
           stops == {k \in 0 .. K!Minus(e, w) :
                        \/ K!Minus(e, k) = w
                        \/ buf[K!Minus(K!Minus(e, k), 1) % INPUT_BUF] = "\n"}
<1>1. /\ r \in Index /\ w \in Index /\ e \in Index /\ INPUT_BUF \in Nat \ {0}
      /\ ConsUintMod \in Nat /\ INPUT_BUF < ConsUintMod /\ Stored \in Index
      /\ Committed \in Index /\ 1 \in Index
  BY ConsIndices, ConsConstants DEF Index
<1>2. m = K!Minus(e, w) /\ m \in Index /\ m <= Stored /\ Stored <= INPUT_BUF
  BY <1>1, RingIs, ConsIndices DEF ConsRing, Index
<1>3. m = IF w <= e THEN e - w ELSE e + ConsUintMod - w
  BY <1>1, <1>2, ConsMinus
<1>4. \A k \in 0 .. m : /\ k \in Index
                        /\ K!Minus(e, k) \in Index
                        /\ K!Minus(e, k) = IF k <= e THEN e - k ELSE e + ConsUintMod - k
  <2> TAKE k \in 0 .. m
  <2>1. k \in Index
    <3> HIDE DEF m
    <3> QED BY <1>1, <1>2 DEF Index
  <2> QED BY <1>1, <2>1, ConsMinus
<1>5. K!Minus(e, m) = w
  <2> HIDE DEF m
  <2> QED BY <1>1, <1>2, <1>3, <1>4 DEF Index
<1>6. ASSUME NEW k \in 0 .. m - 1
      PROVE  K!Minus(e, k) # w /\ buf[K!Minus(K!Minus(e, k), 1) % INPUT_BUF] # "\n"
  <2> DEFINE b == K!Minus(e, k)
             x == K!Minus(b, 1)
             j == Stored - k - 1
  <2>1. k \in Nat /\ k < m /\ m \in Nat /\ b \in Index
        /\ b = IF k <= e THEN e - k ELSE e + ConsUintMod - k
    BY <1>2, <1>4, <1>6 DEF Index
  <2>2. b # w
    <3> HIDE DEF m, b
    <3> QED BY <1>1, <1>2, <1>3, <2>1 DEF Index
  <2>3. x \in Index /\ x = IF 1 <= b THEN b - 1 ELSE b + ConsUintMod - 1
    <3> HIDE DEF b
    <3> QED BY <1>1, <2>1, ConsMinus
  <2>4. j \in Committed .. Stored - 1 /\ j \in Nat
    BY <1>1, <2>1 DEF Index
  <2>5. K!Minus(x, r) = j
    <3>1. K!Minus(x, r) = IF r <= x THEN x - r ELSE x + ConsUintMod - r
      <4> HIDE DEF x
      <4> QED BY <1>1, <2>3, ConsMinus
    <3>2. Stored = IF r <= e THEN e - r ELSE e + ConsUintMod - r
      BY <1>1, ConsMinus DEF Stored
    <3>3. k < Stored /\ Stored \in Nat
      BY <1>1, <1>2, <2>1 DEF Index
    <3> HIDE DEF b, x, m
    <3> QED BY <1>1, <2>1, <2>3, <3>1, <3>2, <3>3 DEF Index
  <2>6. x % INPUT_BUF = (r + j) % INPUT_BUF
    <3>1. (r + K!Minus(x, r) + 0) % INPUT_BUF = (x + 0) % INPUT_BUF
      <4> HIDE DEF x
      <4>1. 0 \in Nat /\ x \in Index /\ r \in Index
        BY <1>1, <2>3
      <4> QED BY ONLY <4>1, ConsSlot
    <3>2. r + K!Minus(x, r) + 0 = r + j /\ x + 0 = x
      <4> HIDE DEF x, j
      <4> QED BY <1>1, <2>3, <2>4, <2>5 DEF Index
    <3> QED BY <3>1, <3>2
  <2>7. Cell(j) # "\n"
    BY <2>4 DEF EditPlain
  <2> QED BY <2>2, <2>6, <2>7 DEF Cell
<1>7. stops = {m}
  <2>1. 0 .. K!Minus(e, w) = 0 .. m /\ m \in 0 .. m
    BY <1>2 DEF Index
  <2>2. \A k \in 0 .. m : k = m \/ k \in 0 .. m - 1
    BY <1>2 DEF Index
  <2> HIDE DEF m
  <2> QED BY <1>5, <1>6, <2>1, <2>2
<1>8. e' = K!Minus(e, CHOOSE k \in stops : \A j \in stops : k <= j)
  BY DEF K!KillLine
<1>9. (CHOOSE k \in stops : \A j \in stops : k <= j) = m
  <2>1. m <= m
    BY <1>2 DEF Index
  <2> HIDE DEF m, stops
  <2> QED BY <1>7, <2>1
<1>10. e' = w
  BY <1>5, <1>8, <1>9
<1> QED BY <1>10 DEF Committed, Stored

(* consoleread() takes a character. *)
LEMMA ConsTaken ==
    ASSUME K!TypeOK, ConsRing, r # w, r' = K!Plus(r, 1), UNCHANGED <<buf, w, e>>
    PROVE  /\ r' \in Index
           /\ Committed > 0
           /\ Committed' = Committed - 1 /\ Stored' = Stored - 1
           /\ \A k \in Nat : Cell(k)' = Cell(k + 1)
<1>1. /\ r \in Index /\ w \in Index /\ e \in Index /\ INPUT_BUF \in Nat \ {0}
      /\ ConsUintMod \in Nat /\ INPUT_BUF < ConsUintMod /\ Stored \in Index
      /\ Committed \in Index /\ 1 \in Index /\ Committed # 0
  BY ConsIndices, ConsConstants DEF Index
<1>2. r' \in Index /\ r' = IF r + 1 < ConsUintMod THEN r + 1 ELSE r + 1 - ConsUintMod
  BY <1>1, ConsPlus
<1>3. /\ Committed = IF r <= w THEN w - r ELSE w + ConsUintMod - r
      /\ Stored = IF r <= e THEN e - r ELSE e + ConsUintMod - r
  BY <1>1, ConsMinus DEF Committed, Stored
<1>4. /\ Committed' = IF r' <= w THEN w - r' ELSE w + ConsUintMod - r'
      /\ Stored' = IF r' <= e THEN e - r' ELSE e + ConsUintMod - r'
  BY <1>1, <1>2, ConsMinus DEF Committed, Stored
<1>5. Committed > 0 /\ Stored > 0
  BY <1>1 DEF ConsRing, Index
<1>6. Committed' = Committed - 1 /\ Stored' = Stored - 1
  BY <1>1, <1>2, <1>3, <1>4, <1>5 DEF Index
<1>7. ASSUME NEW k \in Nat PROVE Cell(k)' = Cell(k + 1)
  <2>1. (K!Plus(r, 1) + k) % INPUT_BUF = (r + 1 + k) % INPUT_BUF
    BY <1>1, ConsPlusSlot
  <2>2. r + 1 + k = r + (k + 1)
    BY <1>1 DEF Index
  <2> QED BY <2>1, <2>2 DEF Cell
<1> QED BY <1>2, <1>5, <1>6, <1>7

-----------------------------------------------------------------------------
(* The invariant is inductive. *)

LEMMA ConsInitInd == K!Init => ConsInd
<1> SUFFICES ASSUME K!Init PROVE ConsInd
  OBVIOUS
<1>1. INPUT_BUF \in Nat \ {0} /\ ConsUintMod \in Nat \ {0} /\ ConsMaxN \in Nat
  BY ConsConstants
<1>2. r = 0 /\ w = 0 /\ e = 0
  BY DEF K!Init
<1>3. K!TypeOK
  <2>1. buf \in [0 .. INPUT_BUF - 1 -> K!Char]
    BY DEF K!Init, K!Char
  <2>2. conspc \in [ConsReader -> {"out", "acquire", "test", "sleep", "asleep", "take"}]
    BY DEF K!Init
  <2>3. got \in [ConsReader -> Seq(K!Char)]
    BY DEF K!Init
  <2>4. conskilled \in [ConsReader -> BOOLEAN]
    BY DEF K!Init
  <2>5. /\ consn \in [ConsReader -> 0 .. ConsMaxN] /\ target \in [ConsReader -> 0 .. ConsMaxN]
        /\ conslock \in ConsReader \cup {NoProc} /\ {r, w, e} \subseteq 0 .. ConsUintMod - 1
    BY <1>1 DEF K!Init
  <2> QED BY <2>1, <2>2, <2>3, <2>4, <2>5 DEF K!TypeOK
<1>4. Committed = 0 /\ Stored = 0
  <2>1. 0 \in Index
    BY <1>1 DEF Index
  <2> QED BY <1>2, <2>1, ConsMinus DEF Committed, Stored
<1>5. ConsRing /\ EditPlain
  BY <1>1, <1>4 DEF ConsRing, EditPlain
<1>6. K!ReadersMustWait /\ ConsTested
  BY <1>2 DEF K!Init, K!ReadersMustWait, ConsTested
<1>7. ConsLockHolder
  BY ConsConstants DEF K!Init, ConsLockHolder, ConsInside
<1>8. ConsCopied
  BY DEF K!Init, ConsCopied
<1> QED BY <1>3, <1>5, <1>6, <1>7, <1>8 DEF ConsInd

(* A step of consoleintr(): nobody is inside consoleread, and those who sleep
   are woken unless there is still nothing to read. *)
LEMMA ConsKeyStep ==
    ASSUME ConsInd, conslock = NoProc,
           UNCHANGED <<r, conslock, consn, target, got, conskilled>>,
           buf' \in [0 .. INPUT_BUF - 1 -> K!Char], e' \in Index, w' \in Index,
           ConsRing', EditPlain',
           conspc' = K!WakeReaders \/ (conspc' = conspc /\ w' = w)
    PROVE  ConsInd'
<1>1. \A p \in ConsReader : conspc[p] \notin ConsInside
  BY ConsConstants DEF ConsInd, ConsLockHolder
<1>2. /\ conspc' \in [ConsReader -> {"out", "acquire", "test", "sleep", "asleep", "take"}]
      /\ \A p \in ConsReader : /\ conspc'[p] \notin ConsInside
                               /\ conspc'[p] = "out" => conspc[p] = "out"
                               /\ conspc'[p] = "asleep" => conspc[p] = "asleep" /\ w' = w
  BY <1>1 DEF ConsInd, K!TypeOK, K!WakeReaders, ConsInside
<1>3. K!TypeOK'
  BY <1>2 DEF ConsInd, K!TypeOK, Index
<1>4. K!ReadersMustWait'
  BY <1>2 DEF ConsInd, K!ReadersMustWait
<1>5. ConsLockHolder'
  BY <1>2, ConsConstants DEF ConsLockHolder
<1>6. ConsTested'
  BY <1>2 DEF ConsTested, ConsInside
<1>7. ConsCopied'
  BY <1>2 DEF ConsInd, ConsCopied
<1> QED BY <1>3, <1>4, <1>5, <1>6, <1>7 DEF ConsInd

LEMMA ConsoleintrInd ==
    ASSUME ConsInd, NEW key \in K!Key, K!Consoleintr(key) PROVE ConsInd'
<1> DEFINE c == IF key = "\r" THEN "\n" ELSE key
<1>1. K!TypeOK /\ ConsRing /\ EditPlain
  BY DEF ConsInd
<1>2. /\ Committed \in Nat /\ Stored \in Nat /\ INPUT_BUF \in Nat /\ e \in Index /\ w \in Index
      /\ buf \in [0 .. INPUT_BUF - 1 -> K!Char]
  BY <1>1, ConsIndices, ConsConstants DEF Index, K!TypeOK
<1>3. conslock = NoProc /\ UNCHANGED <<r, conslock, consn, target, got, conskilled>>
  BY DEF K!Consoleintr
<1>4. CASE K!KillLine /\ UNCHANGED <<buf, w, conspc>>
  <2>1. e' = w /\ Committed' = Committed /\ Stored' = Committed
    BY <1>1, <1>3, <1>4, ConsKilled
  <2>2. ConsRing' /\ EditPlain'
    BY <1>1, <1>2, <2>1 DEF ConsRing, EditPlain
  <2> QED BY <1>2, <1>3, <1>4, <2>1, <2>2, ConsKeyStep
<1>5. CASE K!Backspace /\ UNCHANGED <<buf, w, conspc>>
  <2>1. /\ e' \in Index /\ Committed' = Committed
        /\ Stored' = IF Committed = Stored THEN Stored ELSE Stored - 1
    BY <1>1, <1>3, <1>5, ConsErased
  <2>2. ConsRing'
    BY <1>1, <1>2, <2>1 DEF ConsRing
  <2>3. \A k : Cell(k)' = Cell(k)
    BY <1>3, <1>5 DEF Cell
  <2>4. Committed' .. Stored' - 1 \subseteq Committed .. Stored - 1
    BY <1>1, <1>2, <2>1 DEF ConsRing
  <2>5. EditPlain'
    BY <1>1, <2>3, <2>4 DEF EditPlain
  <2> QED BY <1>2, <1>3, <1>5, <2>1, <2>2, <2>5, ConsKeyStep
<1>6. CASE UNCHANGED <<buf, w, e, conspc>>
  <2>1. ConsRing' /\ EditPlain'
    BY <1>1, <1>3, <1>6 DEF ConsRing, EditPlain, Cell, Committed, Stored
  <2> QED BY <1>2, <1>3, <1>6, <2>1, ConsKeyStep
<1>7. CASE key \notin {"^U", "^H", "^P", "NUL"} /\ K!Room /\ K!Store(c)
  <2>1. c \in K!Char
    BY <1>7 DEF K!Key, K!Char
  <2> HIDE DEF c
  <2>2. /\ Stored < INPUT_BUF /\ e' \in Index /\ w' \in Index /\ Stored' = Stored + 1
        /\ K!Finished(c) <=> (c \in {"\n", "^D"} \/ Stored + 1 = INPUT_BUF)
        /\ Committed' = IF K!Finished(c) THEN Stored + 1 ELSE Committed
        /\ \A k \in 0 .. Stored - 1 : Cell(k)' = Cell(k)
        /\ \A k \in Nat : k = Stored => Cell(k)' = c
    BY <1>1, <1>3, <1>7, ConsStored
  <2>3. buf' \in [0 .. INPUT_BUF - 1 -> K!Char]
    BY <1>2, <1>7, <2>1 DEF K!Store
  <2>4. conspc' = K!WakeReaders \/ (conspc' = conspc /\ w' = w)
    BY <1>7 DEF K!Store
  <2>5. ConsRing'
    BY <1>1, <1>2, <2>2 DEF ConsRing
  <2>6. EditPlain'
    <3> SUFFICES ASSUME NEW k \in Committed' .. Stored' - 1
                 PROVE  Cell(k)' \notin {"\n", "^D"}
      BY DEF EditPlain
    <3>1. ~K!Finished(c) /\ k \in Committed .. Stored /\ c \notin {"\n", "^D"}
      BY <1>2, <2>2
    <3>2. k \in Nat /\ (k = Stored \/ k \in Committed .. Stored - 1)
      BY <1>2, <3>1
    <3>3. CASE k = Stored
      BY <2>2, <3>1, <3>2, <3>3
    <3>4. CASE k \in Committed .. Stored - 1
      <4>1. k \in 0 .. Stored - 1
        BY <1>2, <3>4
      <4>2. Cell(k)' = Cell(k)
        BY <2>2, <4>1
      <4> QED BY <1>1, <3>4, <4>2 DEF EditPlain
    <3> QED BY <3>2, <3>3, <3>4
  <2> QED BY <1>3, <2>2, <2>3, <2>4, <2>5, <2>6, ConsKeyStep
<1> QED BY <1>4, <1>5, <1>6, <1>7 DEF K!Consoleintr

(* A step of reader p that leaves the ring alone: only what is said of p itself
   has to be shown. *)
LEMMA ConsReaderStep ==
    ASSUME ConsInd, NEW p \in ConsReader, UNCHANGED <<buf, r, w, e>>, K!TypeOK',
           \A q \in ConsReader : q # p => /\ conspc'[q] = conspc[q] /\ consn'[q] = consn[q]
                                          /\ target'[q] = target[q] /\ got'[q] = got[q],
           \/ conslock' = conslock /\ (conspc[p] \in ConsInside <=> conspc'[p] \in ConsInside)
           \/ conslock = NoProc /\ conslock' = p /\ conspc'[p] \in ConsInside
           \/ conslock = p /\ conslock' = NoProc /\ conspc'[p] \notin ConsInside,
           conspc'[p] \in {"sleep", "asleep"} => r = w,
           conspc'[p] = "take" => r # w /\ consn'[p] > 0,
           Len(got'[p]) + consn'[p] = target'[p],
           conspc'[p] = "out" => got'[p] = << >>
    PROVE  ConsInd'
<1>1. ConsRing' /\ EditPlain'
  BY DEF ConsInd, ConsRing, EditPlain, Cell, Committed, Stored
<1>2. K!ReadersMustWait'
  BY DEF ConsInd, K!ReadersMustWait
<1>3. ConsTested'
  BY DEF ConsInd, ConsTested
<1>4. ConsLockHolder'
  BY ConsConstants DEF ConsInd, ConsLockHolder
<1>5. ConsCopied'
  BY DEF ConsInd, ConsCopied
<1> QED BY <1>1, <1>2, <1>3, <1>4, <1>5 DEF ConsInd

LEMMA ConsolereadInd ==
    ASSUME ConsInd, NEW p \in ConsReader, NEW k \in 0 .. ConsMaxN, K!Consoleread(p, k)
    PROVE  ConsInd'
<1>1. /\ conspc[p] = "out" /\ conspc' = [conspc EXCEPT ![p] = "acquire"]
      /\ consn' = [consn EXCEPT ![p] = k] /\ target' = [target EXCEPT ![p] = k]
      /\ UNCHANGED <<buf, r, w, e, conslock, got, conskilled>>
  BY DEF K!Consoleread, K!Goto, K!input
<1>2. K!TypeOK
  BY DEF ConsInd
<1>3. K!TypeOK'
  BY <1>1, <1>2 DEF K!TypeOK
<1>4. /\ conspc'[p] = "acquire" /\ consn'[p] = k /\ target'[p] = k
      /\ \A q \in ConsReader : q # p => /\ conspc'[q] = conspc[q] /\ consn'[q] = consn[q]
                                        /\ target'[q] = target[q] /\ got'[q] = got[q]
  BY <1>1, <1>2 DEF K!TypeOK
<1>5. Len(got'[p]) + consn'[p] = target'[p]
  BY <1>1, <1>4 DEF ConsInd, ConsCopied
<1> QED BY <1>1, <1>3, <1>4, <1>5, ConsReaderStep DEF ConsInside

LEMMA ConsAcquireInd ==
    ASSUME ConsInd, NEW p \in ConsReader, K!Acquire(p) \/ K!Sleep(p) PROVE ConsInd'
<1>1. K!TypeOK
  BY DEF ConsInd
<1>2. \/ /\ conspc[p] = "acquire" /\ conslock = NoProc /\ conslock' = p
         /\ conspc' = [conspc EXCEPT ![p] = "test"]
      \/ /\ conspc[p] = "sleep" /\ conslock' = NoProc
         /\ conspc' = [conspc EXCEPT ![p] = "asleep"]
  BY DEF K!Acquire, K!Sleep, K!Goto
<1>3. UNCHANGED <<buf, r, w, e, consn, target, got, conskilled>>
  BY DEF K!Acquire, K!Sleep, K!input
<1>4. /\ conspc'[p] \in {"test", "asleep"}
      /\ \A q \in ConsReader : q # p => conspc'[q] = conspc[q]
      /\ conspc'[p] = "asleep" => conspc[p] = "sleep"
  BY <1>1, <1>2 DEF K!TypeOK
<1>5. K!TypeOK'
  BY <1>1, <1>2, <1>3 DEF K!TypeOK
<1>6. conspc'[p] = "asleep" => r = w
  BY <1>4 DEF ConsInd, ConsTested
<1>7. \/ conslock = NoProc /\ conslock' = p /\ conspc'[p] \in ConsInside
      \/ conslock = p /\ conslock' = NoProc /\ conspc'[p] \notin ConsInside
  BY <1>1, <1>2 DEF ConsInd, ConsLockHolder, ConsInside, K!TypeOK
<1>8. Len(got'[p]) + consn'[p] = target'[p]
  BY <1>3 DEF ConsInd, ConsCopied
<1> QED BY <1>3, <1>4, <1>5, <1>6, <1>7, <1>8, ConsReaderStep

(* release(&cons.lock) and return *)
LEMMA ConsReturned ==
    ASSUME ConsInd, NEW p \in ConsReader, K!Return(p), conspc[p] \in ConsInside
    PROVE  /\ conslock = p /\ conslock' = NoProc /\ conspc'[p] = "out"
           /\ consn'[p] = 0 /\ target'[p] = 0 /\ got'[p] = << >>
           /\ \A q \in ConsReader : q # p => /\ conspc'[q] = conspc[q] /\ consn'[q] = consn[q]
                                             /\ target'[q] = target[q] /\ got'[q] = got[q]
           /\ conspc' \in [ConsReader -> {"out", "acquire", "test", "sleep", "asleep", "take"}]
           /\ consn' \in [ConsReader -> 0 .. ConsMaxN] /\ target' \in [ConsReader -> 0 .. ConsMaxN]
           /\ got' \in [ConsReader -> Seq(K!Char)]
<1>1. K!TypeOK
  BY DEF ConsInd
<1>2. /\ conslock' = NoProc /\ conspc' = [conspc EXCEPT ![p] = "out"]
      /\ consn' = [consn EXCEPT ![p] = 0] /\ target' = [target EXCEPT ![p] = 0]
      /\ got' = [got EXCEPT ![p] = << >>]
  BY DEF K!Return, K!Goto
<1>3. << >> \in Seq(K!Char) /\ 0 \in 0 .. ConsMaxN
  BY ConsConstants
<1>4. got' \in [ConsReader -> Seq(K!Char)] /\ got'[p] = << >>
      /\ \A q \in ConsReader : q # p => got'[q] = got[q]
  BY <1>1, <1>2, <1>3 DEF K!TypeOK
<1>5. conslock = p
  BY DEF ConsInd, ConsLockHolder
<1> QED BY <1>1, <1>2, <1>3, <1>4, <1>5 DEF K!TypeOK

LEMMA ConsTestInd == ASSUME ConsInd, NEW p \in ConsReader, K!Test(p) PROVE ConsInd'
<1>1. K!TypeOK /\ conspc[p] = "test" /\ UNCHANGED <<buf, r, w, e, conskilled>>
  BY DEF ConsInd, K!Test, K!input
<1>2. CASE K!Return(p)
  <2>1. /\ conslock = p /\ conslock' = NoProc /\ conspc'[p] = "out"
        /\ consn'[p] = 0 /\ target'[p] = 0 /\ got'[p] = << >>
        /\ \A q \in ConsReader : q # p => /\ conspc'[q] = conspc[q] /\ consn'[q] = consn[q]
                                          /\ target'[q] = target[q] /\ got'[q] = got[q]
        /\ conspc' \in [ConsReader -> {"out", "acquire", "test", "sleep", "asleep", "take"}]
        /\ consn' \in [ConsReader -> 0 .. ConsMaxN] /\ target' \in [ConsReader -> 0 .. ConsMaxN]
        /\ got' \in [ConsReader -> Seq(K!Char)]
    BY <1>1, <1>2, ConsReturned DEF ConsInside
  <2>2. K!TypeOK'
    BY <1>1, <2>1 DEF K!TypeOK
  <2>3. Len(got'[p]) + consn'[p] = target'[p]
    BY <2>1
  <2> QED BY <1>1, <2>1, <2>2, <2>3, ConsReaderStep DEF ConsInside
<1>3. CASE \/ consn[p] > 0 /\ r # w /\ K!Goto(p, "take") /\ UNCHANGED <<conslock, consn, target, got>>
           \/ consn[p] > 0 /\ r = w /\ K!Goto(p, "sleep") /\ UNCHANGED <<conslock, consn, target, got>>
  <2>1. UNCHANGED <<conslock, consn, target, got>>
    BY <1>3
  <2>2. \/ conspc' = [conspc EXCEPT ![p] = "take"] /\ r # w /\ consn[p] > 0
        \/ conspc' = [conspc EXCEPT ![p] = "sleep"] /\ r = w
    BY <1>3 DEF K!Goto
  <2>3. /\ \/ conspc'[p] = "take" /\ r # w /\ consn[p] > 0
           \/ conspc'[p] = "sleep" /\ r = w
        /\ \A q \in ConsReader : q # p => conspc'[q] = conspc[q]
    BY <1>1, <2>2 DEF K!TypeOK
  <2>4. K!TypeOK'
    BY <1>1, <2>1, <2>2 DEF K!TypeOK
  <2>5. Len(got'[p]) + consn'[p] = target'[p]
    BY <2>1 DEF ConsInd, ConsCopied
  <2> QED BY <1>1, <2>1, <2>3, <2>4, <2>5, ConsReaderStep DEF ConsInside
<1> QED BY <1>2, <1>3 DEF K!Test

LEMMA ConsKillInd ==
    ASSUME ConsInd, NEW p \in ConsReader, K!Kill(p) \/ K!Exit(p) PROVE ConsInd'
<1>1. K!TypeOK
  BY DEF ConsInd
<1>2. /\ UNCHANGED <<buf, r, w, e, conslock, consn, target, got>>
      /\ conskilled' \in [ConsReader -> BOOLEAN]
      /\ conspc' = [conspc EXCEPT ![p] = IF @ = "asleep" THEN "acquire" ELSE @] \/ conspc' = conspc
  <2>1. CASE K!Kill(p)
    BY <1>1, <2>1 DEF K!Kill, K!input, K!TypeOK
  <2>2. CASE K!Exit(p)
    BY <1>1, <2>2 DEF K!Exit, K!input, K!TypeOK
  <2> QED BY <2>1, <2>2
<1>3. /\ conspc'[p] = conspc[p] \/ (conspc[p] = "asleep" /\ conspc'[p] = "acquire")
      /\ \A q \in ConsReader : q # p => conspc'[q] = conspc[q]
      /\ conspc' \in [ConsReader -> {"out", "acquire", "test", "sleep", "asleep", "take"}]
  BY <1>1, <1>2 DEF K!TypeOK
<1>4. K!TypeOK'
  BY <1>1, <1>2, <1>3 DEF K!TypeOK
<1>5. /\ Len(got'[p]) + consn'[p] = target'[p]
      /\ conspc'[p] = "out" => got'[p] = << >>
  BY <1>2, <1>3 DEF ConsInd, ConsCopied
<1>6. /\ conspc'[p] \in {"sleep", "asleep"} => r = w
      /\ conspc'[p] = "take" => r # w /\ consn'[p] > 0
  BY <1>2, <1>3 DEF ConsInd, ConsTested, K!ReadersMustWait
<1> QED BY <1>2, <1>3, <1>4, <1>5, <1>6, ConsReaderStep DEF ConsInside

(* The ways in which consoleread() handles a character *)
LEMMA ConsTakeCases ==
    ASSUME ConsInd, NEW p \in ConsReader, K!Take(p)
    PROVE  /\ conspc[p] = "take" /\ r # w /\ consn[p] > 0 /\ conslock = p
           /\ UNCHANGED <<buf, w, e, conskilled>>
           /\ \/ /\ Cell(0) = "^D" /\ consn[p] < target[p] /\ r' = r /\ K!Return(p)
              \/ /\ Cell(0) = "^D" /\ consn[p] = target[p] /\ r' = K!Plus(r, 1) /\ K!Return(p)
              \/ /\ Cell(0) = "\n" /\ r' = K!Plus(r, 1) /\ K!Return(p)
              \/ /\ Cell(0) \notin {"\n", "^D"} /\ r' = K!Plus(r, 1)
                 /\ got' = [got EXCEPT ![p] = Append(got[p], Cell(0))]
                 /\ consn' = [consn EXCEPT ![p] = consn[p] - 1]
                 /\ conspc' = [conspc EXCEPT ![p] = "test"]
                 /\ UNCHANGED <<conslock, target>>
<1>1. K!TypeOK
  BY DEF ConsInd
<1>2. conspc[p] = "take"
  BY DEF K!Take
<1>3. r # w /\ consn[p] > 0 /\ conslock = p
  BY <1>2 DEF ConsInd, ConsTested, ConsLockHolder, ConsInside
<1>4. buf[r % INPUT_BUF] = Cell(0)
  <2>1. r + 0 = r
    BY <1>1, ConsIndices DEF Index
  <2> QED BY <2>1 DEF Cell
<1>5. consn[p] <= target[p] /\ consn[p] \in Nat /\ target[p] \in Nat
  <2>1. Len(got[p]) \in Nat
    BY <1>1 DEF K!TypeOK
  <2> QED BY <1>1, <2>1 DEF ConsInd, ConsCopied, K!TypeOK
<1>6. UNCHANGED <<buf, w, e, conskilled>>
  BY DEF K!Take
<1>7. CASE Cell(0) = "^D"
  <2>1. K!AtEof(p)
    BY <1>4, <1>7 DEF K!Take
  <2> QED BY <1>2, <1>3, <1>5, <1>6, <1>7, <2>1 DEF K!AtEof
<1>8. CASE Cell(0) = "\n"
  BY <1>2, <1>3, <1>4, <1>6, <1>8 DEF K!Take
<1>9. CASE Cell(0) \notin {"\n", "^D"}
  BY <1>2, <1>3, <1>4, <1>6, <1>9 DEF K!Take, K!Goto
<1> QED BY <1>7, <1>8, <1>9

LEMMA ConsTakeInd == ASSUME ConsInd, NEW p \in ConsReader, K!Take(p) PROVE ConsInd'
<1>1. /\ K!TypeOK /\ ConsRing /\ EditPlain
      /\ conspc[p] = "take" /\ r # w /\ consn[p] > 0 /\ conslock = p
      /\ UNCHANGED <<buf, w, e, conskilled>>
  BY ConsTakeCases DEF ConsInd
<1>2. \A q \in ConsReader : q # p => conspc[q] \notin ConsInside /\ conspc[q] # "asleep"
  BY <1>1 DEF ConsInd, ConsLockHolder, K!ReadersMustWait
<1>3. /\ \/ /\ conslock' = NoProc /\ conspc'[p] = "out" /\ got'[p] = << >>
            /\ consn'[p] = 0 /\ target'[p] = 0
         \/ /\ conslock' = p /\ conspc'[p] = "test" /\ r' = K!Plus(r, 1)
            /\ got'[p] = Append(got[p], Cell(0)) /\ consn'[p] = consn[p] - 1
            /\ target'[p] = target[p]
      /\ \A q \in ConsReader : q # p => /\ conspc'[q] = conspc[q] /\ consn'[q] = consn[q]
                                        /\ target'[q] = target[q] /\ got'[q] = got[q]
      /\ conspc' \in [ConsReader -> {"out", "acquire", "test", "sleep", "asleep", "take"}]
      /\ consn' \in [ConsReader -> 0 .. ConsMaxN] /\ target' \in [ConsReader -> 0 .. ConsMaxN]
      /\ got' \in [ConsReader -> Seq(K!Char)]
  <2>1. CASE K!Return(p)
    BY <1>1, <2>1, ConsReturned DEF ConsInside
  <2>2. CASE /\ r' = K!Plus(r, 1) /\ got' = [got EXCEPT ![p] = Append(got[p], Cell(0))]
             /\ consn' = [consn EXCEPT ![p] = consn[p] - 1]
             /\ conspc' = [conspc EXCEPT ![p] = "test"]
             /\ UNCHANGED <<conslock, target>>
    <3>1. Cell(0) \in K!Char
      BY <1>1, ConsCellType
    <3>2. Append(got[p], Cell(0)) \in Seq(K!Char)
      BY <1>1, <3>1 DEF K!TypeOK
    <3>3. /\ got' \in [ConsReader -> Seq(K!Char)] /\ got'[p] = Append(got[p], Cell(0))
          /\ \A q \in ConsReader : q # p => got'[q] = got[q]
      BY <1>1, <2>2, <3>2 DEF K!TypeOK
    <3>4. consn[p] - 1 \in 0 .. ConsMaxN
      BY <1>1, ConsConstants DEF K!TypeOK
    <3> QED BY <1>1, <2>2, <3>3, <3>4 DEF K!TypeOK
  <2> QED BY <2>1, <2>2, ConsTakeCases
<1>4. \/ r' = r \/ r' = K!Plus(r, 1)
  BY ConsTakeCases
<1>5. r' \in Index /\ ConsRing' /\ EditPlain'
  <2>1. CASE r' = r
    BY <1>1, <2>1, ConsIndices DEF ConsRing, EditPlain, Cell, Committed, Stored
  <2>2. CASE r' = K!Plus(r, 1)
    <3>1. /\ r' \in Index /\ Committed > 0
          /\ Committed' = Committed - 1 /\ Stored' = Stored - 1
          /\ \A k \in Nat : Cell(k)' = Cell(k + 1)
      BY <1>1, <2>2, ConsTaken
    <3>2. Committed \in Nat /\ Stored \in Nat /\ INPUT_BUF \in Nat
      BY <1>1, ConsIndices, ConsConstants DEF Index
    <3>3. ConsRing'
      BY <1>1, <3>1, <3>2 DEF ConsRing
    <3>4. EditPlain'
      <4> SUFFICES ASSUME NEW k \in Committed' .. Stored' - 1
                   PROVE  Cell(k)' \notin {"\n", "^D"}
        BY DEF EditPlain
      <4>1. k \in Nat /\ k + 1 \in Committed .. Stored - 1
        BY <3>1, <3>2
      <4> QED BY <1>1, <3>1, <4>1 DEF EditPlain
    <3> QED BY <3>1, <3>3, <3>4
  <2> QED BY <1>4, <2>1, <2>2
<1>6. K!TypeOK'
  BY <1>1, <1>3, <1>5, SMTT(30) DEF K!TypeOK, Index
<1>7. K!ReadersMustWait'
  BY <1>2, <1>3 DEF K!ReadersMustWait
<1>8. ConsLockHolder'
  BY <1>1, <1>2, <1>3, ConsConstants, ZenonT(60) DEF ConsLockHolder, ConsInside
<1>9. ConsTested'
  BY <1>2, <1>3 DEF ConsTested, ConsInside
<1>10. ConsCopied'
  <2>1. Len(got[p]) + consn[p] = target[p] /\ Len(got[p]) \in Nat /\ consn[p] \in Nat
    BY <1>1 DEF ConsInd, ConsCopied, K!TypeOK
  <2>2. Len(Append(got[p], Cell(0))) = Len(got[p]) + 1
    BY <1>1 DEF K!TypeOK
  <2>3. Len(got'[p]) + consn'[p] = target'[p] /\ (conspc'[p] = "out" => got'[p] = << >>)
    <3>1. CASE /\ conspc'[p] = "out" /\ got'[p] = << >>
               /\ consn'[p] = 0 /\ target'[p] = 0
      <4>1. Len(got'[p]) = 0
        BY <3>1
      <4> QED BY <3>1, <4>1
    <3>2. CASE /\ conspc'[p] = "test" /\ got'[p] = Append(got[p], Cell(0))
               /\ consn'[p] = consn[p] - 1 /\ target'[p] = target[p]
      <4>1. Len(got'[p]) = Len(got[p]) + 1
        BY <2>2, <3>2
      <4>2. target[p] \in Nat
        BY <1>1 DEF K!TypeOK
      <4>3. Len(got'[p]) + consn'[p] = target'[p]
        BY <2>1, <3>2, <4>1, <4>2
      <4> QED BY <3>2, <4>3
    <3> QED BY <1>3, <3>1, <3>2
  <2> QED BY <1>3, <2>3 DEF ConsInd, ConsCopied
<1> QED BY <1>5, <1>6, <1>7, <1>8, <1>9, <1>10 DEF ConsInd

LEMMA ConsNextInd == ConsInd /\ (K!Next \/ UNCHANGED consvars) => ConsInd'
<1> SUFFICES ASSUME ConsInd, K!Next \/ UNCHANGED consvars PROVE ConsInd'
  OBVIOUS
<1>1. CASE UNCHANGED consvars
  BY <1>1 DEF ConsInd, consvars, K!TypeOK, ConsRing, K!ReadersMustWait, ConsLockHolder,
              ConsTested, ConsCopied, EditPlain, Cell, Committed, Stored
<1>2. CASE K!Next
  BY <1>2, ConsoleintrInd, ConsolereadInd, ConsAcquireInd, ConsTestInd, ConsTakeInd,
     ConsKillInd DEF K!Next, K!Step
<1> QED BY <1>1, <1>2

LEMMA ConsSteps ==
    /\ MCInit => K!Init
    /\ [MCNext]_all => K!Next \/ UNCHANGED consvars
BY DEF MCInit, MCNext, Halted, all, consvars

(* For any number of readers, any ring and indices that wrap: the committed and
   the edited characters fit in the ring in order, a full ring has been handed
   to the readers, and no reader sleeps while there is something to read. *)
THEOREM ConsoleCorrect == MCSpec => []ConsoleInv
<1>1. ConsInd => ConsoleInv
  BY RingIs DEF ConsInd, ConsoleInv, K!ConsoleInv
<1>2. MCInit => ConsInd
  BY ConsSteps, ConsInitInd
<1>3. ConsInd /\ [MCNext]_all => ConsInd'
  BY ConsSteps, ConsNextInd
<1> QED BY <1>1, <1>2, <1>3, PTL DEF MCSpec

-----------------------------------------------------------------------------
(* The line discipline. *)

(* The sequences that Console maps the ring to *)
Ready == [j \in 1 .. K!Minus(w, r) |-> buf[K!Plus(r, j - 1) % INPUT_BUF]]
Edited == [j \in 1 .. K!Minus(e, w) |-> buf[K!Plus(w, j - 1) % INPUT_BUF]]

(* They are the characters of the ring, counted from r. *)
LineIs ==
    /\ Committed \in Nat /\ Stored \in Nat /\ Committed <= Stored
    /\ Ready \in Seq(K!Char) /\ Len(Ready) = Committed
    /\ \A j \in 1 .. Committed : Ready[j] = Cell(j - 1)
    /\ Edited \in Seq(K!Char) /\ Len(Edited) = Stored - Committed
    /\ \A j \in 1 .. Stored - Committed : Edited[j] = Cell(Committed + j - 1)

LEMMA ConsLineIs == ConsInd => LineIs
<1> SUFFICES ASSUME ConsInd PROVE LineIs
  OBVIOUS
<1>1. K!TypeOK /\ ConsRing
  BY DEF ConsInd
<1>2. /\ r \in Index /\ w \in Index /\ e \in Index
      /\ Committed \in Nat /\ Stored \in Nat /\ Committed <= Stored
      /\ K!Minus(e, w) = Stored - Committed /\ K!Minus(w, r) = Committed
      /\ Committed \in Index /\ Stored \in Index
  BY <1>1, ConsIndices, RingIs DEF Index, ConsRing, Committed
<1>3. ASSUME NEW j \in 1 .. Committed
      PROVE  buf[K!Plus(r, j - 1) % INPUT_BUF] = Cell(j - 1) /\ Cell(j - 1) \in K!Char
  <2>1. j - 1 \in Index /\ 0 \in Nat /\ j - 1 \in Nat
    BY <1>2, ConsConstants DEF Index
  <2>2. (K!Plus(r, j - 1) + 0) % INPUT_BUF = (r + (j - 1) + 0) % INPUT_BUF
    BY <1>2, <2>1, ConsPlusSlot
  <2>3. K!Plus(r, j - 1) + 0 = K!Plus(r, j - 1) /\ r + (j - 1) + 0 = r + (j - 1)
    BY <1>2, <2>1, ConsPlus DEF Index
  <2> QED BY <1>1, <2>1, <2>2, <2>3, ConsCellType DEF Cell
<1>4. ASSUME NEW j \in 1 .. Stored - Committed
      PROVE  /\ buf[K!Plus(w, j - 1) % INPUT_BUF] = Cell(Committed + j - 1)
             /\ Cell(Committed + j - 1) \in K!Char
  <2>1. j - 1 \in Index /\ 0 \in Nat /\ j - 1 \in Nat /\ Committed + j - 1 \in Nat
    BY <1>2, ConsConstants DEF Index
  <2>2. (K!Plus(w, j - 1) + 0) % INPUT_BUF = (w + (j - 1) + 0) % INPUT_BUF
    BY <1>2, <2>1, ConsPlusSlot
  <2>3. K!Plus(w, j - 1) + 0 = K!Plus(w, j - 1) /\ w + (j - 1) + 0 = w + (j - 1)
    BY <1>2, <2>1, ConsPlus DEF Index
  <2>4. (r + K!Minus(w, r) + (j - 1)) % INPUT_BUF = (w + (j - 1)) % INPUT_BUF
    BY <1>2, <2>1, ConsSlot
  <2>5. r + K!Minus(w, r) + (j - 1) = r + (Committed + j - 1)
    BY <1>2, <2>1 DEF Index
  <2> QED BY <1>1, <2>1, <2>2, <2>3, <2>4, <2>5, ConsCellType DEF Cell
<1>5. /\ Ready \in Seq(K!Char) /\ Len(Ready) = Committed
      /\ \A j \in 1 .. Committed : Ready[j] = Cell(j - 1)
  BY <1>2, <1>3 DEF Ready
<1>6. /\ Edited \in Seq(K!Char) /\ Len(Edited) = Stored - Committed
      /\ \A j \in 1 .. Stored - Committed : Edited[j] = Cell(Committed + j - 1)
  BY <1>2, <1>4 DEF Edited
<1> QED BY <1>2, <1>5, <1>6 DEF LineIs

LEMMA ConsLineIsNext == ConsInd' => LineIs'
BY ConsLineIs, PTL

(* The actions of the line discipline, over Ready and Edited *)
LEMMA LineActions ==
    /\ \A c : /\ Len(Ready) + Len(Edited) < INPUT_BUF
              /\ \/ /\ c \in {"\n", "^D"} \/ Len(Ready) + Len(Edited) + 1 = INPUT_BUF
                    /\ Ready' = Ready \o Append(Edited, c) /\ Edited' = << >>
                 \/ /\ ~(c \in {"\n", "^D"} \/ Len(Ready) + Len(Edited) + 1 = INPUT_BUF)
                    /\ Edited' = Append(Edited, c) /\ Ready' = Ready
              /\ got' = got
              => K!Line!Type(c)
    /\ Edited # << >> /\ Edited' = SubSeq(Edited, 1, Len(Edited) - 1) /\ Ready' = Ready /\ got' = got
       => K!Line!Erase
    /\ Edited' = << >> /\ Ready' = Ready /\ got' = got => K!Line!KillLine
    /\ Edited' = Edited /\ Ready' = Ready /\ got' = got => UNCHANGED K!Line!lvars
    /\ \A p : /\ got' = [got EXCEPT ![p] = << >>] /\ Ready' = Ready /\ Edited' = Edited
              => K!Line!Return(p)
    /\ \A p : /\ Ready # << >> /\ Head(Ready) # "^D" /\ Ready' = Tail(Ready) /\ Edited' = Edited
              /\ got' = [got EXCEPT ![p] = IF Head(Ready) = "\n"
                                           THEN << >> ELSE Append(got[p], Head(Ready))]
              => K!Line!Take(p)
    /\ \A p : /\ Ready # << >> /\ Head(Ready) = "^D" /\ got[p] = << >>
              /\ Ready' = Tail(Ready) /\ Edited' = Edited /\ got' = got
              => K!Line!TakeEof(p)
BY ONLY ZenonT(60) DEF Ready, Edited, K!Line!Type, K!Line!Erase, K!Line!KillLine,
   K!Line!lvars, K!Line!Return, K!Line!Take, K!Line!TakeEof, K!Line!Front

(* A key in the ring is a key in the line. *)
LEMMA StoreIsType ==
    ASSUME ConsInd, ConsInd', K!Room, NEW c \in K!Char, K!Store(c), UNCHANGED <<r, got>>
    PROVE  K!Line!Type(c)
<1>1. K!TypeOK /\ ConsRing /\ LineIs /\ LineIs' /\ INPUT_BUF \in Nat
  BY ConsLineIs, ConsLineIsNext, ConsConstants DEF ConsInd
<1>2. /\ Stored < INPUT_BUF /\ Stored' = Stored + 1
      /\ K!Finished(c) <=> (c \in {"\n", "^D"} \/ Stored + 1 = INPUT_BUF)
      /\ Committed' = IF K!Finished(c) THEN Stored + 1 ELSE Committed
      /\ \A k \in 0 .. Stored - 1 : Cell(k)' = Cell(k)
      /\ \A k \in Nat : k = Stored => Cell(k)' = c
  BY <1>1, ConsStored
<1>3. /\ Append(Edited, c) \in Seq(K!Char) /\ Len(Append(Edited, c)) = Stored - Committed + 1
      /\ \A j \in 1 .. Stored - Committed + 1 :
            Append(Edited, c)[j] = IF j = Stored - Committed + 1 THEN c ELSE Cell(Committed + j - 1)
  <2>1. /\ Edited \in Seq(K!Char) /\ Len(Edited) = Stored - Committed
        /\ Committed \in Nat /\ Stored \in Nat /\ Committed <= Stored
        /\ \A j \in 1 .. Stored - Committed : Edited[j] = Cell(Committed + j - 1)
    BY <1>1 DEF LineIs
  <2>2. /\ Append(Edited, c) \in Seq(K!Char) /\ Len(Append(Edited, c)) = Len(Edited) + 1
        /\ Append(Edited, c)[Len(Edited) + 1] = c
        /\ \A j \in 1 .. Len(Edited) : Append(Edited, c)[j] = Edited[j]
    BY <2>1
  <2>3. ASSUME NEW j \in 1 .. Stored - Committed + 1, j # Stored - Committed + 1
        PROVE  Append(Edited, c)[j] = Cell(Committed + j - 1)
    <3>1. j \in 1 .. Stored - Committed
      BY <2>1, <2>3
    <3> QED BY <2>1, <2>2, <3>1
  <2> QED BY <2>1, <2>2, <2>3
<1>4. Len(Ready) + Len(Edited) = Stored
  BY <1>1 DEF LineIs
<1>5. CASE K!Finished(c)
  <2> DEFINE s == Ready \o Append(Edited, c)
  <2>1. /\ s \in Seq(K!Char) /\ Len(s) = Stored + 1
        /\ \A j \in 1 .. Stored + 1 : s[j] = IF j <= Committed THEN Ready[j]
                                             ELSE Append(Edited, c)[j - Committed]
    <3>1. Ready \in Seq(K!Char) /\ Append(Edited, c) \in Seq(K!Char)
      BY <1>1, <1>3 DEF LineIs
    <3>2. Len(Ready) = Committed /\ Len(Ready) + Len(Append(Edited, c)) = Stored + 1
      BY <1>1, <1>3 DEF LineIs
    <3> QED BY <3>1, <3>2, ConcatProperties, ZenonT(60)
  <2> HIDE DEF s
  <2>2. Committed' = Stored + 1 /\ Stored' = Stored + 1 /\ Committed \in Nat /\ Stored \in Nat
        /\ Committed <= Stored
    BY <1>1, <1>2, <1>5 DEF LineIs
  <2>3. ASSUME NEW j \in 1 .. Stored + 1 PROVE Ready'[j] = s[j]
    <3>1. Ready'[j] = Cell(j - 1)'
      BY <1>1, <2>2 DEF LineIs
    <3>2. CASE j <= Committed
      <4>1. s[j] = Ready[j] /\ Ready[j] = Cell(j - 1) /\ j - 1 \in 0 .. Stored - 1
        BY <1>1, <2>1, <2>2, <3>2, SMTT(30) DEF LineIs
      <4> QED BY <1>2, <3>1, <4>1
    <3>3. CASE Committed < j /\ j <= Stored
      <4>0. s[j] = Append(Edited, c)[j - Committed]
        <5>1. ~(j <= Committed)
          BY <2>2, <3>3
        <5> QED BY <2>1, <5>1
      <4>1. /\ j - 1 \in 0 .. Stored - 1
            /\ j - Committed \in 1 .. Stored - Committed + 1
            /\ j - Committed # Stored - Committed + 1
            /\ Committed + (j - Committed) - 1 = j - 1
        BY <2>2, <3>3
      <4>2. s[j] = Cell(j - 1)
        BY <1>3, <4>0, <4>1
      <4> QED BY <1>2, <3>1, <4>1, <4>2
    <3>4. CASE j = Stored + 1
      <4>0. s[j] = Append(Edited, c)[j - Committed]
        <5>1. ~(j <= Committed)
          BY <2>2, <3>4
        <5> QED BY <2>1, <5>1
      <4>1. /\ j - 1 = Stored /\ j - 1 \in Nat
            /\ j - Committed \in 1 .. Stored - Committed + 1
            /\ j - Committed = Stored - Committed + 1
        BY <2>2, <3>4
      <4>2. s[j] = c
        BY <1>3, <4>0, <4>1
      <4> QED BY <1>2, <3>1, <4>1, <4>2
    <3> QED BY <2>2, <3>2, <3>3, <3>4
  <2>4. Ready' \in Seq(K!Char) /\ Len(Ready') = Stored + 1
    BY <1>1, <2>2 DEF LineIs, K!Char
  <2>5. Ready' = s
    BY <2>1, <2>3, <2>4, SeqEqual
  <2>6. Edited' = << >>
    <3>1. Edited' \in Seq(K!Char) /\ Len(Edited') = 0
      BY <1>1, <2>2 DEF LineIs, K!Char
    <3> QED BY <3>1, EmptySeq
  <2>7. c \in {"\n", "^D"} \/ Len(Ready) + Len(Edited) + 1 = INPUT_BUF
    BY <1>2, <1>4, <1>5
  <2> QED BY <1>2, <1>4, <2>5, <2>6, <2>7, LineActions DEF s
<1>6. CASE ~K!Finished(c)
  <2>2. Committed' = Committed /\ Stored' = Stored + 1 /\ Committed \in Nat /\ Stored \in Nat
        /\ Committed <= Stored
    BY <1>1, <1>2, <1>6 DEF LineIs
  <2>3. Ready' \in Seq(K!Char) /\ Ready \in Seq(K!Char)
        /\ Len(Ready') = Committed /\ Len(Ready) = Committed
    BY <1>1, <2>2 DEF LineIs, K!Char
  <2>4. ASSUME NEW j \in 1 .. Committed PROVE Ready'[j] = Ready[j]
    <3>1. Ready'[j] = Cell(j - 1)' /\ Ready[j] = Cell(j - 1) /\ j - 1 \in 0 .. Stored - 1
      BY <1>1, <2>2 DEF LineIs
    <3> QED BY <1>2, <3>1
  <2>5. Ready' = Ready
    BY <2>3, <2>4, SeqEqual
  <2>6. Edited' \in Seq(K!Char) /\ Len(Edited') = Stored - Committed + 1
    BY <1>1, <2>2 DEF LineIs, K!Char
  <2>7. ASSUME NEW j \in 1 .. Stored - Committed + 1 PROVE Edited'[j] = Append(Edited, c)[j]
    <3>0. PICK k \in Nat : k = Committed + j - 1
      BY <2>2
    <3>1. Edited'[j] = Cell(k)'
      BY <1>1, <2>2, <3>0 DEF LineIs, Cell
    <3>2. CASE j = Stored - Committed + 1
      <4>1. k = Stored
        BY <2>2, <3>0, <3>2
      <4> QED BY <1>2, <1>3, <3>1, <3>2, <4>1
    <3>3. CASE j # Stored - Committed + 1
      <4>1. k \in 0 .. Stored - 1
        BY <2>2, <3>0, <3>3
      <4> QED BY <1>2, <1>3, <3>0, <3>1, <3>3, <4>1
    <3> QED BY <3>2, <3>3
  <2>8. Edited' = Append(Edited, c)
    BY <1>3, <2>6, <2>7, SeqEqual
  <2>9. ~(c \in {"\n", "^D"} \/ Len(Ready) + Len(Edited) + 1 = INPUT_BUF)
    BY <1>2, <1>4, <1>6
  <2> QED BY <1>2, <1>4, <2>5, <2>8, <2>9, LineActions
<1> QED BY <1>5, <1>6

(* Backspace and kill take characters from the end of the line only. *)
LEMMA ShortenIsErase ==
    ASSUME ConsInd, ConsInd', UNCHANGED <<buf, r, w, got>>,
           Committed' = Committed,
           \/ Stored' = Committed
           \/ Stored' = Stored
           \/ Stored' = Stored - 1
    PROVE  K!Line!KillLine \/ K!Line!Erase \/ UNCHANGED K!Line!lvars
<1>1. LineIs /\ LineIs'
  BY ConsLineIs, ConsLineIsNext
<1>2. \A k : Cell(k)' = Cell(k)
  BY DEF Cell
<1>3. /\ Committed \in Nat /\ Stored \in Nat /\ Committed <= Stored /\ Stored' \in Nat
      /\ Committed <= Stored'
      /\ Edited \in Seq(K!Char) /\ Len(Edited) = Stored - Committed
      /\ Edited' \in Seq(K!Char) /\ Len(Edited') = Stored' - Committed
      /\ \A j \in 1 .. Stored - Committed : Edited[j] = Cell(Committed + j - 1)
      /\ \A j \in 1 .. Stored' - Committed : Edited'[j] = Cell(Committed + j - 1)
  BY <1>1, <1>2 DEF LineIs, K!Char
<1>4. Ready' = Ready
  BY DEF Ready
<1>5. CASE Stored' = Committed
  <2>1. Edited' = << >>
    BY <1>3, <1>5, EmptySeq
  <2> QED BY <1>4, <2>1, LineActions
<1>6. CASE Stored' = Stored
  <2>1. Edited' = Edited
    BY <1>3, <1>6, SeqEqual
  <2> QED BY <1>4, <2>1, LineActions
<1>7. CASE Stored' = Stored - 1
  <2> DEFINE f == SubSeq(Edited, 1, Len(Edited) - 1)
  <2>1. Len(Edited) > 0 /\ Len(Edited) \in Nat
    BY <1>3, <1>7, SMTT(30)
  <2>2. /\ f \in Seq(K!Char) /\ Len(f) = Len(Edited) - 1
        /\ \A j \in 1 .. Len(Edited) - 1 : f[j] = Edited[j]
    BY ONLY <1>3, <2>1, SMTT(30)
  <2>3. \A j \in 1 .. Len(Edited) - 1 : Edited'[j] = Edited[j]
    BY <1>3, <1>7
  <2>4. Len(Edited') = Len(Edited) - 1
    BY <1>3, <1>7
  <2> HIDE DEF f
  <2>5. Edited' = f
    BY <1>3, <2>2, <2>3, <2>4, SeqEqual
  <2>6. Edited # << >>
    BY <2>1
  <2> QED BY <1>4, <2>5, <2>6, LineActions DEF f
<1> QED BY <1>5, <1>6, <1>7

(* A character taken from the ring is the first of the finished input. *)
LEMMA TakenIsHead ==
    ASSUME ConsInd, ConsInd', r # w, r' = K!Plus(r, 1), UNCHANGED <<buf, w, e>>
    PROVE  /\ Ready # << >> /\ Head(Ready) = Cell(0)
           /\ Ready' = Tail(Ready) /\ Edited' = Edited
<1>1. K!TypeOK /\ ConsRing /\ LineIs /\ LineIs'
  BY ConsLineIs, ConsLineIsNext DEF ConsInd
<1>2. /\ Committed > 0 /\ Committed' = Committed - 1
      /\ \A k \in Nat : Cell(k)' = Cell(k + 1)
  BY <1>1, ConsTaken
<1>3. /\ Committed \in Nat /\ Ready \in Seq(K!Char) /\ Len(Ready) = Committed
      /\ \A j \in 1 .. Committed : Ready[j] = Cell(j - 1)
  BY <1>1 DEF LineIs
<1>4. /\ Ready' \in Seq(K!Char) /\ Len(Ready') = Committed - 1
      /\ \A j \in 1 .. Committed - 1 : Ready'[j] = Cell(j - 1)'
  BY <1>1, <1>2 DEF LineIs, K!Char
<1>5. Ready # << >>
  BY <1>2, <1>3
<1>6. Head(Ready) = Cell(0)
  <2>1. 1 \in 1 .. Committed /\ 1 - 1 = 0
    BY <1>2, <1>3
  <2>2. Ready[1] = Cell(0)
    BY <1>3, <2>1
  <2> QED BY <1>3, <1>5, <2>2
<1>7. /\ Tail(Ready) \in Seq(K!Char) /\ Len(Tail(Ready)) = Committed - 1
      /\ \A j \in 1 .. Committed - 1 : Tail(Ready)[j] = Ready[j + 1]
  BY <1>3, <1>5, HeadTailProperties
<1>8. ASSUME NEW j \in 1 .. Committed - 1 PROVE Ready'[j] = Tail(Ready)[j]
  <2>1. j - 1 \in Nat /\ j + 1 \in 1 .. Committed /\ (j - 1) + 1 = (j + 1) - 1
    BY <1>3
  <2>2. Ready'[j] = Cell((j - 1) + 1)
    BY <1>2, <1>4, <2>1
  <2>3. Tail(Ready)[j] = Cell((j + 1) - 1)
    BY <1>3, <1>7, <2>1
  <2> QED BY <2>1, <2>2, <2>3
<1>9. Ready' = Tail(Ready)
  BY <1>4, <1>7, <1>8, SeqEqual
<1> QED BY <1>5, <1>6, <1>9 DEF Edited

LEMMA ConsLineStep ==
    ConsInd /\ (K!Next \/ UNCHANGED consvars) => [K!Line!LNext]_(K!Line!lvars)
<1> SUFFICES ASSUME ConsInd, K!Next \/ UNCHANGED consvars
             PROVE  K!Line!LNext \/ UNCHANGED K!Line!lvars
  OBVIOUS
<1>0. ConsInd' /\ K!TypeOK /\ ConsRing /\ EditPlain
  BY ConsNextInd DEF ConsInd
<1>1. ASSUME UNCHANGED <<buf, r, w, e, got>> PROVE UNCHANGED K!Line!lvars
  BY <1>1, LineActions DEF Ready, Edited
<1>2. ASSUME NEW key \in K!Key, K!Consoleintr(key)
      PROVE  K!Line!LNext \/ UNCHANGED K!Line!lvars
  <2> DEFINE c == IF key = "\r" THEN "\n" ELSE key
  <2>1. UNCHANGED <<r, got>>
    BY <1>2 DEF K!Consoleintr
  <2>2. CASE K!KillLine /\ UNCHANGED <<buf, w, conspc>>
    <3>1. Committed' = Committed /\ Stored' = Committed
      BY <1>0, <2>1, <2>2, ConsKilled
    <3> QED BY <1>0, <2>1, <2>2, <3>1, ShortenIsErase DEF K!Line!LNext
  <2>3. CASE K!Backspace /\ UNCHANGED <<buf, w, conspc>>
    <3>1. Committed' = Committed /\ (Stored' = Stored \/ Stored' = Stored - 1)
      BY <1>0, <2>1, <2>3, ConsErased
    <3> QED BY <1>0, <2>1, <2>3, <3>1, ShortenIsErase DEF K!Line!LNext
  <2>4. CASE UNCHANGED <<buf, w, e, conspc>>
    BY <1>1, <2>1, <2>4
  <2>5. CASE key \notin {"^U", "^H", "^P", "NUL"} /\ K!Room /\ K!Store(c)
    <3>1. c \in K!Char
      BY <2>5 DEF K!Key, K!Char
    <3> HIDE DEF c
    <3>2. K!Line!Type(c)
      BY <1>0, <2>1, <2>5, <3>1, StoreIsType
    <3> QED BY <3>1, <3>2 DEF K!Line!LNext, K!Char
  <2> QED BY <1>2, <2>2, <2>3, <2>4, <2>5 DEF K!Consoleintr
<1>3. ASSUME NEW p \in ConsReader, K!Return(p), UNCHANGED <<buf, r, w, e>>
      PROVE  K!Line!LNext
  <2>1. got' = [got EXCEPT ![p] = << >>] /\ Ready' = Ready /\ Edited' = Edited
    BY <1>3 DEF K!Return, Ready, Edited
  <2>2. K!Line!Return(p)
    BY <2>1, LineActions
  <2> QED BY <2>2 DEF K!Line!LNext
<1>4. ASSUME NEW p \in ConsReader, K!Take(p) PROVE K!Line!LNext
  <2>1. r # w /\ UNCHANGED <<buf, w, e>>
    BY <1>4, ConsTakeCases
  <2>2. CASE r' = r /\ K!Return(p)
    BY <1>3, <2>1, <2>2
  <2>3. CASE r' = K!Plus(r, 1)
    <3>1. /\ Ready # << >> /\ Head(Ready) = Cell(0)
          /\ Ready' = Tail(Ready) /\ Edited' = Edited
      BY <1>0, <2>1, <2>3, TakenIsHead
    <3>2. CASE Cell(0) = "^D" /\ consn[p] = target[p] /\ K!Return(p)
      <4>1. got[p] = << >>
        <5>1. /\ Len(got[p]) + consn[p] = target[p] /\ got[p] \in Seq(K!Char)
              /\ consn[p] \in Nat
          BY <1>0 DEF ConsInd, ConsCopied, K!TypeOK
        <5>2. Len(got[p]) = 0
          BY <3>2, <5>1
        <5> QED BY <5>1, <5>2, EmptySeq
      <4>2. got' = got
        BY <1>0, <3>2, <4>1 DEF K!Return, K!TypeOK
      <4>3. K!Line!TakeEof(p)
        BY <3>1, <3>2, <4>1, <4>2, LineActions
      <4> QED BY <4>3 DEF K!Line!LNext
    <3>3. CASE \/ Cell(0) = "\n" /\ K!Return(p)
               \/ /\ Cell(0) \notin {"\n", "^D"}
                  /\ got' = [got EXCEPT ![p] = Append(got[p], Cell(0))]
      <4>1. got' = [got EXCEPT ![p] = IF Head(Ready) = "\n"
                                      THEN << >> ELSE Append(got[p], Head(Ready))]
        BY <3>1, <3>3 DEF K!Return
      <4>2. K!Line!Take(p)
        BY <3>1, <3>3, <4>1, LineActions
      <4> QED BY <4>2 DEF K!Line!LNext
    <3> QED BY <1>4, <2>2, <3>2, <3>3, ConsTakeCases
  <2> QED BY <1>4, <2>2, <2>3, ConsTakeCases
<1>5. ASSUME NEW p \in ConsReader, K!Test(p)
      PROVE  K!Line!LNext \/ UNCHANGED K!Line!lvars
  BY <1>1, <1>3, <1>5 DEF K!Test, K!input
<1>6. ASSUME NEW p \in ConsReader,
             K!Acquire(p) \/ K!Sleep(p) \/ K!Kill(p) \/ K!Exit(p)
                \/ \E k \in 0 .. ConsMaxN : K!Consoleread(p, k)
      PROVE  UNCHANGED K!Line!lvars
  BY <1>1, <1>6 DEF K!Acquire, K!Sleep, K!Kill, K!Exit, K!Consoleread, K!input
<1>7. CASE UNCHANGED consvars
  BY <1>1, <1>7 DEF consvars
<1> QED BY <1>2, <1>4, <1>5, <1>6, <1>7 DEF K!Next, K!Step

LEMMA ConsLineInit == K!Init => K!Line!LInit
<1> SUFFICES ASSUME K!Init PROVE K!Line!LInit
  OBVIOUS
<1>1. LineIs /\ r = w /\ w = e /\ K!TypeOK
  BY ConsInitInd, ConsLineIs DEF K!Init, ConsInd
<1>2. Committed = 0 /\ Stored = 0
  BY <1>1, ConsIndices, RingIs
<1>3. Ready = << >> /\ Edited = << >>
  <2>1. Len(Ready) = 0 /\ Len(Edited) = 0 /\ Ready \in Seq(K!Char) /\ Edited \in Seq(K!Char)
    BY <1>1, <1>2 DEF LineIs
  <2> QED BY <2>1, EmptySeq
<1> QED BY <1>3 DEF K!Init, K!Line!LInit, Ready, Edited

(* The ring of console.c, edited by interrupts while readers sleep in the
   middle of a copy, implements the line discipline for every size of the ring
   and also when r, w and e wrap around: each character of a finished line is
   read once and in order, what is finished can no longer be edited, a read
   gets at most one line, and ^D ends exactly one read that returns nothing. *)
THEOREM ConsoleIsLineDiscipline == MCSpec => IsLineDiscipline
<1>1. MCInit => ConsInd /\ K!Line!LInit
  BY ConsSteps, ConsInitInd, ConsLineInit
<1>2. ConsInd /\ [MCNext]_all => ConsInd'
  BY ConsSteps, ConsNextInd
<1>3. ConsInd /\ [MCNext]_all => [K!Line!LNext]_(K!Line!lvars)
  BY ConsSteps, ConsLineStep
<1> QED BY <1>1, <1>2, <1>3, PTL DEF MCSpec, IsLineDiscipline, K!IsLineDiscipline, K!Line!LSpec
=============================================================================
