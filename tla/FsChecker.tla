----------------------------- MODULE FsChecker ------------------------------
(***************************************************************************)
(* The file system checker (linux/fsChecker.c): the checks of main(), in   *)
(* its order, on the image of a disk.  An image is what the checker reads: *)
(* inodes, blocks and the bitmap.  A block is seen as a directory, as an   *)
(* indirect block or as file data, whichever the inode that leads to it    *)
(* makes of it; the data of files are zeros.                               *)
(***************************************************************************)
EXTENDS Integers, Sequences, FiniteSets

CONSTANTS
    SIZE, NINODES,        \* sb.size, sb.ninodes
    BMAPSTART,            \* sb.bmapstart, the only bitmap block
    NDIRECT, NINDIRECT, DPB,
    Name,                 \* names in directories, "" among them
    Images,               \* images that mkfs and the kernel leave
    MaxFaults             \* most fields of an image that are then damaged

Inum == 0 .. NINODES - 1
Address == 0 .. SIZE - 1
DataBlock == BMAPSTART + 1 .. SIZE - 1
Dirent == [name : Name, inum : Inum]
InodeType == {"UNALLOC", "DIR", "FILE", "DEV", "BAD"}

(* An inode number read from a directory indexes an array of the checker; so
   do block numbers, when an indirect block is read as a directory. *)
FsCheckerAssumption ==
    /\ SIZE <= NINODES /\ 1 < BMAPSTART /\ BMAPSTART < SIZE
    /\ {"", ".", ".."} \subseteq Name
    /\ \A v \in {NDIRECT, NINDIRECT, DPB} : v \in Nat \ {0}

VARIABLES
    img,      \* the image
    faults,   \* how many fields have been damaged
    verdict   \* what main() has printed

vars == <<img, faults, verdict>>

NoEntry == [name |-> "", inum |-> 0]

TypeOK ==
    /\ img.type \in [Inum -> InodeType] /\ img.nlink \in [Inum -> Nat]
    /\ img.addrs \in [Inum -> [1 .. NDIRECT + 1 -> 0 .. SIZE]]
    /\ img.bitmap \subseteq Address
    /\ DOMAIN img.content = DataBlock
    /\ faults \in 0 .. MaxFaults

Init == img \in Images /\ faults = 0 /\ verdict = "none"

-----------------------------------------------------------------------------
(* Reading the image *)

(* The dirents of block b.  Two pointers of an indirect block are an inode
   number and the start of an empty name. *)
Dirents(b) ==
    LET c == img.content[b]
    IN CASE c.kind = "dir" -> c.entries
         [] c.kind = "indirect" ->
              [k \in 1 .. DPB |-> IF k = 1 THEN [NoEntry EXCEPT !.inum = c.ptrs[1]]
                                           ELSE NoEntry]
         [] OTHER -> [k \in 1 .. DPB |-> NoEntry]

(* The pointers of block b.  A dirent and the bits of the bitmap, read as
   pointers, are beyond every disk. *)
Pointers(b) ==
    IF b = BMAPSTART THEN [j \in 1 .. NINDIRECT |-> SIZE] ELSE
    LET c == img.content[b]
    IN CASE c.kind = "indirect" -> c.ptrs
         [] c.kind = "dir" /\ \E k \in 1 .. DPB : c.entries[k] # NoEntry ->
              [j \in 1 .. NINDIRECT |-> SIZE]
         [] OTHER -> [j \in 1 .. NINDIRECT |-> 0]

Indirect(i) == img.addrs[i][NDIRECT + 1]

(* The block addresses of inode i, with the place each of them is in: k, or
   NDIRECT + 1 for the indirect block, or NDIRECT + 1 + j in there. *)
Direct(i) == {k \in 1 .. NDIRECT : img.addrs[i][k] # 0}
InIndirect(i) ==
    IF Indirect(i) = 0 THEN {}
    ELSE {NDIRECT + 1 + j : j \in {j \in 1 .. NINDIRECT : Pointers(Indirect(i))[j] # 0}}
AddrAt(i, k) == IF k <= NDIRECT + 1 THEN img.addrs[i][k]
                ELSE Pointers(Indirect(i))[k - NDIRECT - 1]

(* Where the entries of directory i are, in the order of the two loops that
   every check repeats, and the entry there *)
Slots(i) == {k * (DPB + 1) + s : k \in Direct(i) \cup InIndirect(i), s \in 1 .. DPB}
EntryAt(i, x) == Dirents(AddrAt(i, x \div (DPB + 1)))[x % (DPB + 1)]

InUse == {i \in Inum : img.type[i] # "UNALLOC"}
Directories == {i \in Inum : img.type[i] = "DIR"}

getInum(i, name) ==
    LET hits == {x \in Slots(i) : EntryAt(i, x).name = name}
    IN IF img.type[i] # "DIR" THEN 0
       ELSE IF hits = {} THEN -1
       ELSE EntryAt(i, CHOOSE x \in hits : \A y \in hits : x <= y).inum

-----------------------------------------------------------------------------
(* The checks: each is TRUE when the function returns 1. *)

checkBadInode ==
    /\ \A i \in Inum : img.type[i] # "BAD"
    /\ img.type[1] \in {"UNALLOC", "DIR"}

(* mininum is BBLOCK(sb.size), the bitmap block; free inodes are checked too. *)
checkValidAddr ==
    LET valid(a) == a = 0 \/ a \in BMAPSTART .. SIZE - 1
    IN \A i \in Inum :
          /\ \A k \in 1 .. NDIRECT + 1 : valid(img.addrs[i][k])
          /\ Indirect(i) # 0 =>
                \A j \in 1 .. NINDIRECT : valid(Pointers(Indirect(i))[j])

checkDirFormat(name) == \A i \in Directories : getInum(i, name) # -1

(* Every entry of the directory, "." and ".." among them, is taken for the
   child that has to point back.  getInum's -1 is a large unsigned number. *)
checkParentDir ==
    \A i \in Directories : \A x \in Slots(i) :
        getInum(EntryAt(i, x).inum, "..") \in {0, i}

(* addresses[b] *)
Uses(b) ==
    LET at(i) == {k \in Direct(i) \cup {NDIRECT + 1} \cup InIndirect(i) : AddrAt(i, k) = b}
    IN Cardinality(UNION {{i} \X at(i) : i \in InUse})

(* The bit of the indirect block itself is not looked at. *)
checkBitmap ==
    \A i \in InUse : \A k \in Direct(i) \cup InIndirect(i) :
        AddrAt(i, k) \in img.bitmap

checkUsedBlock ==
    \A b \in BMAPSTART + 1 .. SIZE - 1 : b \in img.bitmap => Uses(b) # 0

checkUsedTimes == \A b \in Address \ {0} : Uses(b) <= 1

(* The loop that looks for inodes without an entry uses the variable of the
   loop over the directories, so the latter ends after the first one. *)
Counted == {i \in Directories : \A d \in Directories : i <= d}

(* ins[m] after checkInodeRef *)
Ins(m) ==
    LET to(i) == {x \in Slots(i) : /\ EntryAt(i, x).inum = m /\ m # 0
                                   /\ EntryAt(i, x).name \notin {".", ".."}}
    IN Cardinality(UNION {{i} \X to(i) : i \in Counted})

checkInodeRef ==
    Counted # {} => \A i \in InUse : i >= 2 => Ins(i) # 0

checekValidDir(ins) == \A m \in Inum : ins[m] > 0 => img.type[m] # "UNALLOC"

checkBadLinksAtLeast == \A i \in Inum : img.type[i] = "FILE" => img.nlink[i] >= Ins(i)

checkBadLinks == \A i \in Inum : img.type[i] = "FILE" => img.nlink[i] = Ins(i)

checkExtraLink == \A i \in Directories : Ins(i) <= 1

(* main(): the first check that fails ends it.  checekValidDir is called before
   checkInodeRef has filled its array, which is all 0. *)
AllTestPassed ==
    /\ checkBadInode
    /\ checkValidAddr
    /\ checkDirFormat(".") /\ checkDirFormat("..")
    /\ checkParentDir
    /\ checkBitmap
    /\ checkUsedBlock
    /\ checkUsedTimes
    /\ checekValidDir([m \in Inum |-> 0])
    /\ checkInodeRef
    /\ checkBadLinks
    /\ checkExtraLink

Main ==
    /\ verdict = "none"
    /\ verdict' = IF AllTestPassed THEN "passed" ELSE "rejected"
    /\ UNCHANGED <<img, faults>>

(* One field of the image changes.  No directory is made to read the bitmap
   as dirents: the inode numbers there would not be inode numbers. *)
Damage(new) ==
    /\ verdict = "none" /\ faults < MaxFaults
    /\ img' = new
    /\ \A i \in Inum : new.type[i] = "DIR" =>
           \A k \in 1 .. NDIRECT : new.addrs[i][k] # BMAPSTART
    /\ faults' = faults + 1
    /\ UNCHANGED verdict

(* The damage is done to the inodes in use and to the first one that is free. *)
Damaged == {i \in Inum : i > 0 /\ \A j \in 1 .. i - 1 : img.type[j] # "UNALLOC"}

Next ==
    \/ Main
    \/ \E i \in Damaged, t \in InodeType : Damage([img EXCEPT !.type[i] = t])
    \/ \E i \in Damaged, l \in 0 .. 2 : Damage([img EXCEPT !.nlink[i] = l])
    \/ \E i \in Damaged, k \in 1 .. NDIRECT + 1, a \in Address :
           Damage([img EXCEPT !.addrs[i][k] = a])
    \/ \E b \in Address : Damage([img EXCEPT !.bitmap =
           IF b \in img.bitmap THEN @ \ {b} ELSE @ \cup {b}])
    \/ \E b \in DataBlock, s \in 1 .. DPB, nm \in Name :
           /\ img.content[b].kind = "dir"
           /\ Damage([img EXCEPT !.content[b].entries[s].name = nm])
    \/ \E b \in DataBlock, s \in 1 .. DPB, m \in Inum :
           /\ img.content[b].kind = "dir"
           /\ Damage([img EXCEPT !.content[b].entries[s].inum = m])
    \/ \E b \in DataBlock, j \in 1 .. NINDIRECT, a \in Address \ {BMAPSTART} :
           /\ img.content[b].kind = "indirect"
           /\ Damage([img EXCEPT !.content[b].ptrs[j] = a])

Spec == Init /\ [][Next]_vars

-----------------------------------------------------------------------------
(* Properties. *)

(* What the README lists as the goals of the checker, read from the image
   without the checker's loops *)
Entries(d) == {EntryAt(d, x) : x \in Slots(d)}
References(m) ==
    UNION {{d} \X {x \in Slots(d) : /\ EntryAt(d, x).inum = m
                                    /\ EntryAt(d, x).name \notin {".", ".."}} :
             d \in Directories}
AllAddresses(i) == Direct(i) \cup InIndirect(i)
                   \cup IF Indirect(i) # 0 THEN {NDIRECT + 1} ELSE {}

AddressesValid == \A i \in InUse :
    /\ \A k \in 1 .. NDIRECT + 1 : img.addrs[i][k] \in DataBlock \cup {0}
    /\ \A k \in InIndirect(i) : AddrAt(i, k) \in DataBlock
DotEntries == \A d \in Directories :
    \A nm \in {".", ".."} : \E en \in Entries(d) : en.name = nm
DotDotIsParent == \A d \in Directories \ {1} : \A en \in Entries(d) :
    en.name = ".." => \E ref \in References(d) : ref[1] = en.inum
BlocksMarked == \A i \in InUse : \A k \in AllAddresses(i) : AddrAt(i, k) \in img.bitmap
MarkedAreUsed == \A b \in DataBlock \cap img.bitmap :
    \E i \in InUse : \E k \in AllAddresses(i) : AddrAt(i, k) = b
UsedOnce == \A i, j \in InUse : \A k \in AllAddresses(i), l \in AllAddresses(j) :
    AddrAt(i, k) = AddrAt(j, l) => i = j /\ k = l
InodesFound == \A i \in InUse \ {0, 1} : References(i) # {}
ReferredInUse == \A d \in Directories : \A en \in Entries(d) :
    en.inum # 0 => img.type[en.inum] # "UNALLOC"
LinkCounts == \A i \in Inum :
    img.type[i] = "FILE" => img.nlink[i] = Cardinality(References(i))
DirectoriesOnce == \A d \in Directories : Cardinality(References(d)) <= 1

Consistent ==
    /\ \A i \in Inum : img.type[i] # "BAD"
    /\ img.type[1] = "DIR" /\ img.type[0] = "UNALLOC"
    /\ AddressesValid /\ DotEntries /\ ReferredInUse /\ DotDotIsParent
    /\ BlocksMarked /\ MarkedAreUsed /\ UsedOnce
    /\ InodesFound /\ LinkCounts /\ DirectoriesOnce
    /\ \A d \in Directories : \A en \in Entries(d) :
          /\ en.name = "" => en.inum = 0
          /\ en.name = "." => en.inum = d
          /\ d = 1 /\ en.name = ".." => en.inum = 1
    /\ \A i \in Inum \ InUse : \A k \in 1 .. NDIRECT + 1 : img.addrs[i][k] = 0

(* An image that passes and whose only directory is the root has the
   properties that the checker does establish, although it counts the uses of
   blocks before it knows what they are for, and reads blocks as whatever the
   inode says they are. *)
PassedIsSound ==
    verdict = "passed" /\ Directories = {1} =>
        /\ \A i \in Inum : img.type[i] # "BAD"
        /\ DotEntries /\ MarkedAreUsed /\ UsedOnce
        /\ \A i \in InUse : \A k \in AllAddresses(i) \ {NDIRECT + 1} :
               AddrAt(i, k) \in img.bitmap
        /\ InodesFound /\ LinkCounts /\ DirectoriesOnce

(* No image with a subdirectory passes, unless its ".." is an entry without
   an inode: "." and ".." are taken for children, whose parent they are not. *)
PassedIsFlat ==
    verdict = "passed" =>
        Cardinality({d \in Directories : getInum(d, "..") # 0}) <= 1

(* A consistent image with one directory is never rejected. *)
FlatIsPassed ==
    verdict = "rejected" /\ Cardinality(Directories) = 1 => ~Consistent

(* For images whose only directory is the root, what the checker accepts is
   sound and what is consistent it accepts; it accepts no others. *)
VerdictRight == TypeOK /\ PassedIsSound /\ PassedIsFlat /\ FlatIsPassed
=============================================================================
