----------------------------- MODULE MCStorage ------------------------------
(***************************************************************************)
(* What is on the disk: the log (Log), once with few calls of two blocks   *)
(* each, once with more calls and a log that they could fill up, the file  *)
(* system calls above it (FileSystem) and the checker of the images they   *)
(* leave (FsChecker).                                                      *)
(*                                                                         *)
(* FileSystem has its own abstraction of the log, and the checker runs     *)
(* when the system is down, so TLC explores the four side by side, not     *)
(* interleaved: a behaviour belongs to one of them, and the others keep    *)
(* their initial state.                                                    *)
(***************************************************************************)
EXTENDS MCLog

CONSTANTS
    SmallProc, SmallLOGSIZE, SmallMAXOPBLOCKS, SmallOpBlocks,          \* the small log
    NoProc, Name, Programs, NINODES, NBLOCKS, NINODE, NOFILE, MaxFile, \* FileSystem
    Requests, MaxCalls, MaxCrashes,
    SIZE, ImgInodes, BMAPSTART, NDIRECT, NINDIRECT, DPB, ImgName,      \* FsChecker
    Images, MaxFaults

VARIABLES
    which,                                                       \* the one that runs
    shome, slogblk, shdr, scache, sdirty, slh, soutstanding,     \* the small log
    scommitting, spc, sblk, swrote, sphase, stail, spanicked,
    fsdisk, committed, icache, proc, fscalls, crashes,           \* FileSystem
    img, faults, verdict                                         \* FsChecker

S == INSTANCE Log WITH
    Proc <- SmallProc, Val <- {CHOOSE v \in Val : TRUE}, WriteThrough <- FALSE,
    LOGSIZE <- SmallLOGSIZE, MAXOPBLOCKS <- SmallMAXOPBLOCKS,
    LogBlocks <- SmallLOGSIZE, OpBlocks <- SmallOpBlocks,
    home <- shome, logblk <- slogblk, hdr <- shdr, cache <- scache, dirty <- sdirty,
    lh <- slh, outstanding <- soutstanding, committing <- scommitting, pc <- spc,
    blk <- sblk, wrote <- swrote, phase <- sphase, tail <- stail, panicked <- spanicked
F == INSTANCE MCFileSystem WITH disk <- fsdisk, calls <- fscalls
K == INSTANCE MCFsChecker WITH NINODES <- ImgInodes, Name <- ImgName

ASSUME ConstantsAssumed == S!LogAssumption /\ F!FileSystemAssumption /\ K!FsCheckerAssumption

smallvars == <<shome, slogblk, shdr, scache, sdirty, slh, soutstanding, scommitting,
               spc, sblk, swrote, sphase, stail, spanicked>>
fsvars == <<fsdisk, committed, icache, proc, fscalls, crashes>>
imgvars == <<img, faults, verdict>>
all == <<which, vars, smallvars, fsvars, imgvars>>

(* Where the log starts from one of several states, it is parked in one. *)
MCInit ==
    /\ which \in {"log", "small log", "files", "checker"}
    /\ Init /\ S!Init /\ F!Init /\ K!Init
    /\ which # "log" =>
          LET v == CHOOSE v \in Val : TRUE
          IN (\A b \in Block : home[b] = v) /\ (\A i \in 1 .. LOGSIZE : logblk[i] = v)
    /\ which # "checker" => img = CHOOSE i \in Images : TRUE

(* The checker ends, and the file system calls can block each other for ever
   (see CirclesNeedIput). *)
Halted ==
    /\ \/ which = "checker" /\ verdict # "none"
       \/ which = "files" /\ ~ENABLED F!Next
    /\ UNCHANGED all

MCNext ==
    \/ which = "log" /\ Next /\ UNCHANGED <<which, smallvars, fsvars, imgvars>>
    \/ which = "small log" /\ S!Next /\ UNCHANGED <<which, vars, fsvars, imgvars>>
    \/ which = "files" /\ F!Next /\ UNCHANGED <<which, vars, smallvars, imgvars>>
    \/ which = "checker" /\ K!Next /\ UNCHANGED <<which, vars, smallvars, fsvars>>
    \/ Halted

MCSpec == MCInit /\ [][MCNext]_all

(* The calls and images that MCFileSystem and MCFsChecker define, for the
   constants of the instances. *)
F0 == INSTANCE MCFileSystem WITH
    disk <- fsdisk, calls <- fscalls, Programs <- <<>>, Requests <- {}
K0 == INSTANCE MCFsChecker WITH NINODES <- ImgInodes, Name <- ImgName, Images <- {}

MCPrograms == F0!MCPrograms
MCCalls == F0!MCCalls
MCImages == K0!MCImages

-----------------------------------------------------------------------------
(* The properties of the instances; each is stated in its module. *)

(* begin_op admits no call that could overrun the log: no call meets the panic "too
   big a transaction" of log_write(), which wants room even for a block that is in
   the header already, nor that of end_op(), "log.committing". *)
LogNeverPanics == NoPanic /\ S!NoPanic

(* The inode cache, through every error path of every call: references are
   counted exactly, an inode is cached once, and unlocked copies are current. *)
IcacheInv == which = "files" => F!IcacheInv

(* A block is marked in the bitmap exactly when one inode, and only one, has
   it: no file can see the blocks of another, none is lost. *)
BlocksOwnedOnce == which = "files" => F!BlocksOwnedOnce

(* No process meets the panic of ilock ("no type") or of sys_unlink
   ("nlink < 1"): a name or a pointer never leads to a freed inode.  MCCalls has
   no path with "..", which may lead out of a removed directory to a freed one. *)
NoInodePanic == which = "files" => F!NoInodePanic

(* What a crash leaves is a tree: names lead to inodes in use whose link count
   is at least the number of names, a directory has one name, its dots are
   right, and its link count covers its subdirectories. *)
CommittedTree == which = "files" => F!CommittedTree

(* Path lookup, create, link and unlink lock a directory before what it has
   names for, and so never wait for each other in a circle.  A circle is
   closed by iput alone, which locks the directory again while create() and
   sys_unlink() still hold the lock of the entry's inode. *)
CirclesNeedIput == which = "files" => F!CirclesNeedIput

(* For images whose only directory is the root, what the checker accepts is
   sound and what is consistent it accepts; it accepts no others. *)
VerdictRight == which = "checker" => K!VerdictRight
=============================================================================
