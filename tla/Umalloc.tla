------------------------------ MODULE Umalloc -------------------------------
(***************************************************************************)
(* The memory allocator of user programs (umalloc.c): a circular list of   *)
(* free blocks in order of address, with the roving pointer freep, fed by  *)
(* sbrk().  Addresses are counted in headers: base, the static list head,  *)
(* is 0 and lies below the heap, whose units are 1 .. HEAP.  The user may  *)
(* call sbrk() too, so that what morecore() gets need not adjoin the heap  *)
(* it had.  One call of malloc() or free() is one step: a program has one  *)
(* thread.                                                                 *)
(***************************************************************************)
EXTENDS Naturals, FiniteSets

CONSTANTS
    HEAP,       \* units that sbrk() can hand out
    MORE,       \* least number of units that morecore() asks for
    HDR,        \* sizeof(Header)
    Bytes,      \* values of nbytes passed to malloc
    UintMod,    \* nbytes and nunits are unsigned integers modulo this
    Null

UmallocAssumption ==
    /\ HEAP \in Nat \ {0} /\ MORE \in Nat \ {0} /\ HDR \in Nat \ {0}
    /\ UintMod \in Nat \ {0} /\ Bytes \subseteq 0 .. UintMod - 1
    /\ Null \notin 0 .. HEAP

base == 0
Unit == 1 .. HEAP
Addr == {base} \cup Unit

VARIABLES
    ptr, size,  \* ptr[a], size[a]: the header at a, if there is one
    freep,
    brk,        \* first unit that sbrk() has not handed out
    used,       \* blocks that malloc has returned and free has not had back
    asked,      \* asked[a]: nbytes of the call that returned block a
    sbrked      \* units that the user got from sbrk() itself

vars == <<ptr, size, freep, brk, used, asked, sbrked>>

TypeOK ==
    /\ ptr \in [Addr -> Addr] /\ size \in [Addr -> 0 .. HEAP]
    /\ freep \in Addr \cup {Null}
    /\ brk \in 1 .. HEAP + 1
    /\ used \subseteq Unit /\ asked \in [Unit -> 0 .. UintMod - 1]
    /\ sbrked \subseteq Unit

Init ==
    /\ ptr = [a \in Addr |-> base] /\ size = [a \in Addr |-> 0]
    /\ freep = Null
    /\ brk = 1
    /\ used = {} /\ asked = [a \in Unit |-> 0]
    /\ sbrked = {}

-----------------------------------------------------------------------------
(* The walks.  chain(pt, a)[k]: the block k links after a. *)
Chain(pt, a) == LET c[k \in 0 .. HEAP + 1] == IF k = 0 THEN a ELSE pt[c[k - 1]]
                IN c

(* The first block on the chain from a, among the first n, for which Stop
   holds; Null when there is none. *)
FirstOn(pt, a, n, Stop(_)) ==
    LET c == Chain(pt, a)
        hits == {k \in 0 .. n - 1 : Stop(c[k])}
    IN IF hits = {} THEN Null ELSE c[CHOOSE k \in hits : \A j \in hits : k <= j]

(* free: p such that bp belongs between p and p->s.ptr, where p may be the
   last block of the list. *)
Spot(pt, fp, bp) ==
    FirstOn(pt, fp, HEAP + 1,
        LAMBDA p : \/ bp > p /\ bp < pt[p]
                   \/ p >= pt[p] /\ (bp > p \/ bp < pt[p]))

(* A header that is no longer the start of a block is not read again; to keep
   the states few it is set to 0. *)
Clear(f, dead) == [a \in Addr |-> IF a \in dead THEN 0 ELSE f[a]]

(* The rest of free: the block is joined with the one above and with the one
   below.  Returns the list; it is also the tail of morecore. *)
FreeInto(pt, sz, fp, bp) ==
    LET p == Spot(pt, fp, bp)
        up == bp + sz[bp] = pt[p]
        bsize == IF up THEN sz[bp] + sz[pt[p]] ELSE sz[bp]
        bptr == IF up THEN pt[pt[p]] ELSE pt[p]
        down == p + sz[p] = bp
        dead == {a \in Unit : (down /\ a = bp) \/ (up /\ a = pt[p])}
        pt1 == [pt EXCEPT ![bp] = bptr, ![p] = IF down THEN bptr ELSE bp]
        sz1 == [sz EXCEPT ![bp] = bsize, ![p] = IF down THEN @ + bsize ELSE @]
    IN [ptr |-> Clear(pt1, dead), size |-> Clear(sz1, dead), freep |-> p]

NUnitsRoundDown(nbytes) == (nbytes \div HDR + 1) % UintMod

(* Unsigned arithmetic: a count near the largest wraps around. *)
NUnits(nbytes) == (((nbytes + HDR - 1) % UintMod) \div HDR + 1) % UintMod

(* The blocks that malloc looks at: all of the list, from the one after freep
   to freep itself, before it asks for more core. *)
Fit(pt, sz, fp, nunits) ==
    LET c == Chain(pt, pt[fp])
        len == CHOOSE k \in 0 .. HEAP + 1 :
                   c[k] = fp /\ \A j \in 0 .. k - 1 : c[j] # fp
    IN FirstOn(pt, pt[fp], len + 1, LAMBDA p : sz[p] >= nunits)

(* prevp when malloc has stopped at p: the block before it on the list *)
Before(pt, p) == CHOOSE a \in Addr :
    pt[a] = p /\ \E k \in 0 .. HEAP + 1 : Chain(pt, p)[k] = a

(* Block p is large enough: it leaves the list, or its tail end is cut off. *)
TakeFrom(pt, sz, p, nunits) ==
    LET q == p + sz[p] - nunits
    IN IF sz[p] = nunits
       THEN [ptr |-> Clear([pt EXCEPT ![Before(pt, p)] = pt[p]], {p}), size |-> sz,
             freep |-> Before(pt, p), block |-> p]
       ELSE [ptr |-> pt, size |-> [sz EXCEPT ![p] = @ - nunits, ![q] = nunits],
             freep |-> Before(pt, p), block |-> q]

(* The first call makes base the list. *)
FreepOnEntry == IF freep = Null THEN base ELSE freep

(* malloc found p, in the list pt, sz. *)
Allocate(pt, sz, p, nbytes) ==
    LET m == TakeFrom(pt, sz, p, NUnits(nbytes))
    IN /\ ptr' = m.ptr /\ size' = m.size /\ freep' = m.freep
       /\ used' = used \cup {m.block}
       /\ asked' = [asked EXCEPT ![m.block] = nbytes]

MallocFound(nbytes) ==
    LET p == Fit(ptr, size, FreepOnEntry, NUnits(nbytes))
    IN /\ p # Null
       /\ Allocate(ptr, size, p, nbytes)
       /\ UNCHANGED <<brk, sbrked>>

(* morecore: sbrk, and free the whole of it; malloc goes on from the new
   freep, and now finds a block. *)
MallocMoreCore(nbytes) ==
    LET nu == IF NUnits(nbytes) < MORE THEN MORE ELSE NUnits(nbytes)
        m == FreeInto(ptr, [size EXCEPT ![brk] = nu], FreepOnEntry, brk)
    IN /\ Fit(ptr, size, FreepOnEntry, NUnits(nbytes)) = Null
       /\ brk + nu <= HEAP + 1
       /\ brk' = brk + nu
       /\ Allocate(m.ptr, m.size, Fit(m.ptr, m.size, m.freep, NUnits(nbytes)), nbytes)
       /\ UNCHANGED sbrked

(* sbrk fails, at the end of memory or before: malloc returns 0. *)
MallocFails(nbytes) ==
    /\ Fit(ptr, size, FreepOnEntry, NUnits(nbytes)) = Null
    /\ freep' = FreepOnEntry
    /\ UNCHANGED <<ptr, size, brk, used, asked, sbrked>>

Malloc(nbytes) ==
    MallocFound(nbytes) \/ MallocMoreCore(nbytes) \/ MallocFails(nbytes)

Free(bp) ==
    /\ bp \in used
    /\ LET m == FreeInto(ptr, size, freep, bp)
       IN ptr' = m.ptr /\ size' = m.size /\ freep' = m.freep
    /\ used' = used \ {bp}
    /\ asked' = [asked EXCEPT ![bp] = 0]
    /\ UNCHANGED <<brk, sbrked>>

(* The program calls sbrk(n) itself. *)
Sbrk(k) ==
    /\ brk + k <= HEAP + 1
    /\ brk' = brk + k
    /\ sbrked' = sbrked \cup brk .. brk + k - 1
    /\ UNCHANGED <<ptr, size, freep, used, asked>>

Next ==
    \/ \E nbytes \in Bytes : Malloc(nbytes)
    \/ \E bp \in used : Free(bp)
    \/ Sbrk(1)

Spec == Init /\ [][Next]_vars

-----------------------------------------------------------------------------
(* Properties. *)

(* The blocks on the free list, base among them *)
FreeList == IF freep = Null THEN {base}
            ELSE {Chain(ptr, freep)[k] : k \in 0 .. HEAP + 1}

Extent(a) == a .. a + size[a] - 1

(* The list is circular and in order of address with one descent, so that
   free() finds the place of every block and malloc() sees every one of them
   before it asks for more; no two neighbours are left apart. *)
ListOrdered ==
    freep # Null =>
        /\ base \in FreeList
        /\ \E k \in 1 .. HEAP + 1 : Chain(ptr, freep)[k] = freep
        /\ Cardinality({a \in FreeList : ptr[a] <= a}) = 1
        /\ \A a \in FreeList : ptr[a] > a => a + size[a] < ptr[a]

(* Everything that sbrk() handed out is in exactly one free block, one block
   in use, or with the user who asked for it. *)
HeapTiled ==
    LET blocks == (FreeList \ {base}) \cup used
    IN /\ UNION {Extent(a) : a \in blocks} \cup sbrked = 1 .. brk - 1
       /\ FreeList \cap used = {}
       /\ \A a \in blocks : Extent(a) \cap sbrked = {}
       /\ \A a, b \in blocks : a # b => Extent(a) \cap Extent(b) = {}

(* A block in use has room for what its owner asked for after its header. *)
RoomForRequest == \A a \in used : (size[a] - 1) * HDR >= asked[a]

(* The heap of a program after any mallocs, frees and sbrks: an ordered free
   list, no unit lost or in two blocks, and room for every request. *)
HeapInv == TypeOK /\ ListOrdered /\ HeapTiled /\ RoomForRequest
=============================================================================
