----------------------------- MODULE FileSystem -----------------------------
(***************************************************************************)
(* The file system above the log: block bitmap, inodes and their cache,    *)
(* directories and path names (fs.c), open files (file.c) and the system   *)
(* calls that change them (sysfile.c), by several processes, with crashes. *)
(*                                                                         *)
(* A process is interrupted wherever another one can interfere: between    *)
(* the operations on icache.lock and on the sleep locks of inodes.  disk   *)
(* is what bread() returns (Bcache, Log); it reaches the medium when the   *)
(* last call of a group ends, and a crash falls back to that image.        *)
(*                                                                         *)
(* A directory entry is a name and an inode number in a data block.  The   *)
(* contents of files, the order of their blocks and the indirect block are *)
(* left out.  Where the code panics, the step does not take place: when    *)
(* inodes, blocks or cache slots run out, and in ilock of an inode without *)
(* type, which is what NoInodePanic is about.                              *)
(***************************************************************************)
EXTENDS Integers, Sequences, FiniteSets, FiniteSetsExt, Functions

CONSTANTS
    Proc, NoProc,
    Name,       \* names of files and directories, "." and ".." apart
    Programs,   \* the names that mkfs puts in the root directory
    NINODES, NBLOCKS,  \* inodes and data blocks on disk
    NINODE,     \* slots of icache
    NOFILE,     \* open files of a process
    MaxFile,    \* blocks of a file
    Requests,       \* the calls that programs make: [op, path, new]
    MaxCalls,   \* bound on the number of calls
    MaxCrashes  \* bound on the number of crashes

(* the calls on a path; "open" is sys_open with O_WRONLY or O_RDWR, "openrd"
   with O_RDONLY, "creat" with O_CREATE | O_WRONLY *)
Ops == {"open", "openrd", "creat", "mkdir", "unlink", "link", "chdir"}

FileSystemAssumption ==
    /\ NoProc \notin Proc /\ IsFiniteSet(Proc)
    /\ NINODES \in Nat \ {0} /\ NBLOCKS \in Nat \ {0} /\ NINODE \in Nat \ {0}
    /\ NOFILE \in Nat /\ MaxFile \in Nat /\ MaxCalls \in Nat /\ MaxCrashes \in Nat
    /\ "." \notin Name /\ ".." \notin Name
    /\ Programs \in Seq(Name) /\ Len(Programs) < NINODES /\ Len(Programs) < NBLOCKS
    /\ LET Path == Seq(Name \cup {".", ".."})
       IN Requests \subseteq [op : Ops, path : Path, relative : BOOLEAN, new : Path]

VARIABLES
    disk,       \* inodes, data blocks and bitmap as the calls see them
    committed,  \* the image that a crash leaves
    icache,     \* struct inode of each slot
    proc,       \* the calls in progress, open files and current directories
    calls, crashes  \* how many there have been

vars == <<disk, committed, icache, proc, calls, crashes>>

ROOTINO == 1
Inum == 1 .. NINODES
DataBlock == 1 .. NBLOCKS
Slot == 1 .. NINODE
Fd == 1 .. NOFILE
DirName == Name \cup {".", ".."}

(* nlink is a short; NoInodePanic says that it does not become negative *)
Dinode == [type : {"none", "dir", "file"}, nlink : Int, addrs : SUBSET DataBlock]
FreeDinode == [type |-> "none", nlink |-> 0, addrs |-> {}]
Zeroed == [n \in DirName |-> 0]
(* what a file has in its blocks; as a directory it would be nonsense *)
Written == [n \in DirName |-> NINODES]

Image == [inode : [Inum -> Dinode], data : [DataBlock -> [DirName -> 0 .. NINODES]],
          used : SUBSET DataBlock]

PCs == {"idle", "namex", "lookup", "iput", "itrunc", "iref", "open", "openfd",
        "create", "createfound", "createnew", "unlink", "unlinkboth",
        "unlinkdone", "unlinkbad", "link", "linknew", "linkexists", "linkdone",
        "linkbad", "chdir", "write", "mkdirdone", "end"}

(* struct inode.  A call in progress: where it is, its arguments, the inodes
   that its local variables point to; ret: where it goes on after iput *)
Inode == [inum : 0 .. NINODES, ref : Nat, valid : BOOLEAN, lock : Proc \cup {NoProc},
          din : Dinode]
Call == [pc : PCs, ok : PCs, bad : PCs, ret : PCs, op : Ops \cup {"none", "write", "close"},
         path : Seq(DirName), new : Seq(DirName),
         cur : 0 .. NINODE, ip : 0 .. NINODE, put : 0 .. NINODE,
         cwd : 0 .. NINODE, ofile : [Fd -> 0 .. NINODE], writable : SUBSET Fd]

TypeOK ==
    /\ disk \in Image /\ committed \in Image
    /\ icache \in [Slot -> Inode] /\ proc \in [Proc -> Call]
    /\ calls \in Nat /\ crashes \in Nat

-----------------------------------------------------------------------------
(* The bitmap *)

FirstFree(d) == Min(DataBlock \ d.used)

BallocNoBzero(d) == [d EXCEPT !.used = @ \cup {FirstFree(d)}]

(* balloc: the first free block, zeroed *)
Balloc(d) ==
    LET b == FirstFree(d)
    IN [d EXCEPT !.used = @ \cup {b}, !.data[b] = Zeroed]

BfreeForgets(d, bs) == d

(* bfree of the blocks bs *)
Bfree(d, bs) == [d EXCEPT !.used = @ \ bs]

-----------------------------------------------------------------------------
(* Inodes *)

Iupdate(d, i, din) == [d EXCEPT !.inode[i] = din]

FreeInodes(d) == {i \in Inum : d.inode[i].type = "none"}

(* iget: the slot that caches the inode, or else the first free one *)
Cached(i) == {s \in Slot : icache[s].ref > 0 /\ icache[s].inum = i}

IgetSlot(i) ==
    IF Cached(i) # {} THEN CHOOSE s \in Cached(i) : TRUE
    ELSE Min({s \in Slot : icache[s].ref = 0})

Iget(ic, i) ==
    LET s == IgetSlot(i)
    IN IF Cached(i) # {} THEN [ic EXCEPT ![s].ref = @ + 1]
       ELSE [ic EXCEPT ![s].inum = i, ![s].ref = 1, ![s].valid = FALSE]

Idup(ic, s) == [ic EXCEPT ![s].ref = @ + 1]

(* bound: iget finds a slot *)
CacheHasRoom(i) == Cached(i) # {} \/ \E s \in Slot : icache[s].ref = 0

CanLock(s) == icache[s].lock = NoProc

(* ilock: with the lock, the contents of the inode, read if not valid; an
   inode without a type panics *)
Loaded(s) ==
    IF icache[s].valid THEN icache[s].din ELSE disk.inode[icache[s].inum]
CanIlock(s) == CanLock(s) /\ Loaded(s).type # "none"
Ilock(p, s) ==
    [icache EXCEPT ![s].lock = p, ![s].valid = TRUE, ![s].din = Loaded(s)]

Iunlock(ic, s) == [ic EXCEPT ![s].lock = NoProc]

(* the inode of slot s is locked, changed to din, written back *)
Store(ic, s, din) == [ic EXCEPT ![s].din = din]

(* iput(s), then go on at r *)
IputThen(q, s, r) == [q EXCEPT !.put = s, !.ret = r, !.pc = "iput"]

IputIgnoresRef(s) ==
    /\ icache[s].valid /\ icache[s].din.nlink = 0

(* the first half of iput: an inode without links and without other users is
   truncated and freed on disk, with its lock held *)
IputLastUse(s) ==
    /\ icache[s].valid /\ icache[s].din.nlink = 0 /\ icache[s].ref = 1

IputFree(p) ==
    LET s == proc[p].put
    IN /\ proc[p].pc = "iput" /\ CanLock(s) /\ IputLastUse(s)
       /\ disk' = Iupdate(Bfree(disk, icache[s].din.addrs), icache[s].inum,
                          FreeDinode)
       /\ icache' = [icache EXCEPT ![s].lock = p, ![s].din = FreeDinode]
       /\ proc' = [proc EXCEPT ![p].pc = "itrunc"]
       /\ UNCHANGED <<committed, calls, crashes>>

IputFreed(p) ==
    LET s == proc[p].put
    IN /\ proc[p].pc = "itrunc"
       /\ icache' = [icache EXCEPT ![s].valid = FALSE, ![s].lock = NoProc]
       /\ proc' = [proc EXCEPT ![p].pc = "iref"]
       /\ UNCHANGED <<disk, committed, calls, crashes>>

IputKeep(p) ==
    LET s == proc[p].put
    IN /\ proc[p].pc = "iput" /\ CanLock(s) /\ ~IputLastUse(s)
       /\ proc' = [proc EXCEPT ![p].pc = "iref"]
       /\ UNCHANGED <<disk, committed, icache, calls, crashes>>

(* the second half of iput: ref-- *)
IputRef(p) ==
    /\ proc[p].pc = "iref"
    /\ icache' = [icache EXCEPT ![proc[p].put].ref = @ - 1]
    /\ proc' = [proc EXCEPT ![p].pc = proc[p].ret, ![p].put = 0]
    /\ UNCHANGED <<disk, committed, calls, crashes>>

-----------------------------------------------------------------------------
(* Directories *)

(* dirlookup: the inode number of a name in the directory din, or 0 *)
Dirlookup(d, din, n) ==
    LET bs == {b \in din.addrs : d.data[b][n] # 0}
    IN IF bs = {} THEN 0 ELSE d.data[CHOOSE b \in bs : TRUE][n]

(* dirlink and the writei of unlink: the entry of name n becomes i *)
HasBlock(d, din) == IF din.addrs = {} THEN Balloc(d) ELSE d
BallocFinds(d, din) == din.addrs # {} \/ d.used # DataBlock
DirBlock(d, din) ==
    IF din.addrs = {} THEN FirstFree(d) ELSE CHOOSE b \in din.addrs : TRUE
WriteEntry(d, din, n, i) ==
    [HasBlock(d, din) EXCEPT !.data[DirBlock(d, din)][n] = i]
WithBlock(d, din) == [din EXCEPT !.addrs = @ \cup {DirBlock(d, din)}]

(* isdirempty *)
IsDirEmpty(d, din) == \A n \in Name : Dirlookup(d, din, n) = 0

-----------------------------------------------------------------------------
(* Path names.  namex walks with proc[p].cur; it goes on at ok with the inode
   (or, for nameiparent, its parent) in cur, or at bad *)

Namex(q, path, ok, bad) ==
    [q EXCEPT !.pc = "namex", !.path = path, !.ok = ok, !.bad = bad]

WantsParent(q) == q.ok \in {"create", "unlink", "linknew"}

NamexDone(p) ==
    /\ proc[p].pc = "namex" /\ proc[p].path = <<>>
    /\ IF WantsParent(proc[p])
       THEN proc' = [proc EXCEPT ![p] =
                       IputThen([@ EXCEPT !.cur = 0], proc[p].cur, proc[p].bad)]
       ELSE proc' = [proc EXCEPT ![p].pc = proc[p].ok]
    /\ UNCHANGED <<disk, committed, icache, calls, crashes>>

NamexLock(p) ==
    LET s == proc[p].cur
    IN /\ proc[p].pc = "namex" /\ proc[p].path # <<>> /\ CanIlock(s)
       /\ icache' = Ilock(p, s)
       /\ proc' = [proc EXCEPT ![p].pc = "lookup"]
       /\ UNCHANGED <<disk, committed, calls, crashes>>

LastElement(q) == WantsParent(q) /\ Len(q.path) = 1

(* stop one level early *)
NamexParent(p) ==
    LET s == proc[p].cur
    IN /\ proc[p].pc = "lookup"
       /\ icache[s].din.type = "dir" /\ LastElement(proc[p])
       /\ icache' = Iunlock(icache, s)
       /\ proc' = [proc EXCEPT ![p].pc = proc[p].ok]
       /\ UNCHANGED <<disk, committed, calls, crashes>>

NamexNext(p) ==
    LET s == proc[p].cur
        i == Dirlookup(disk, icache[s].din, Head(proc[p].path))
    IN /\ proc[p].pc = "lookup"
       /\ icache[s].din.type = "dir" /\ ~LastElement(proc[p])
       /\ i # 0 /\ CacheHasRoom(i)
       /\ icache' = Iunlock(Iget(icache, i), s)
       /\ proc' = [proc EXCEPT ![p] =
                     IputThen([@ EXCEPT !.cur = IgetSlot(i),
                                        !.path = Tail(proc[p].path)], s, "namex")]
       /\ UNCHANGED <<disk, committed, calls, crashes>>

NamexFail(p) ==
    LET s == proc[p].cur
    IN /\ proc[p].pc = "lookup"
       /\ \/ icache[s].din.type # "dir"
          \/ /\ ~LastElement(proc[p])
             /\ Dirlookup(disk, icache[s].din, Head(proc[p].path)) = 0
       /\ icache' = Iunlock(icache, s)
       /\ proc' = [proc EXCEPT ![p] =
                     IputThen([@ EXCEPT !.cur = 0], s, proc[p].bad)]
       /\ UNCHANGED <<disk, committed, calls, crashes>>

-----------------------------------------------------------------------------
(* System calls *)

(* a call on a path: begin_op, then namex from the root or, when the path is
   relative, from the current directory *)
OnPath(op) == CASE op \in {"open", "openrd"} -> "open"
                [] op \in {"chdir", "link", "unlink"} -> op
                [] OTHER -> "create"

Begin(p) ==
    \E c \in Requests :
       /\ proc[p].pc = "idle" /\ calls < MaxCalls
       /\ c.relative \/ CacheHasRoom(ROOTINO)
       /\ calls' = calls + 1
       /\ icache' = IF c.relative THEN Idup(icache, proc[p].cwd)
                    ELSE Iget(icache, ROOTINO)
       /\ proc' = [proc EXCEPT ![p] =
                     Namex([@ EXCEPT !.op = c.op, !.new = c.new,
                               !.cur = IF c.relative THEN proc[p].cwd
                                       ELSE IgetSlot(ROOTINO)],
                           c.path, OnPath(c.op), "end")]
       /\ UNCHANGED <<disk, committed, crashes>>

(* end_op: the last call of a group commits, see Log *)
End(p) ==
    /\ proc[p].pc = "end"
    /\ proc' = [proc EXCEPT ![p] = [@ EXCEPT !.pc = "idle", !.op = "none",
                  !.path = <<>>, !.new = <<>>, !.cur = 0, !.ip = 0,
                  !.ok = "end", !.bad = "end", !.ret = "end"]]
    /\ committed' = IF \A q \in Proc \ {p} : proc[q].pc = "idle"
                    THEN disk ELSE committed
    /\ UNCHANGED <<disk, icache, calls, crashes>>

(* sys_open without O_CREATE: a directory is opened for reading only *)
Open(p) ==
    LET s == proc[p].cur
        fine == proc[p].op = "openrd" \/ Loaded(s).type # "dir"
    IN /\ proc[p].pc = "open" /\ CanIlock(s)
       /\ icache' = IF fine THEN Ilock(p, s) ELSE Iunlock(Ilock(p, s), s)
       /\ proc' = [proc EXCEPT ![p] =
             IF fine THEN [@ EXCEPT !.pc = "openfd", !.ip = s, !.cur = 0]
             ELSE IputThen([@ EXCEPT !.cur = 0], s, "end")]
       /\ UNCHANGED <<disk, committed, calls, crashes>>

(* fdalloc's descriptor, with f->writable *)
OpenFile(q, fd, s) ==
    [q EXCEPT !.ip = 0, !.pc = "end", !.ofile[fd] = s,
              !.writable = IF q.op = "openrd" THEN @ ELSE @ \cup {fd}]

OpenFdLeaks(p) ==
    LET s == proc[p].ip
        free == {fd \in Fd : proc[p].ofile[fd] = 0}
    IN /\ proc[p].pc = "openfd"
       /\ icache' = Iunlock(icache, s)
       /\ proc' = [proc EXCEPT ![p] =
             IF free = {} THEN [@ EXCEPT !.ip = 0, !.pc = "end"]
             ELSE OpenFile(@, Min(free), s)]
       /\ UNCHANGED <<disk, committed, calls, crashes>>

(* filealloc, fdalloc: the reference in ip passes to the open file, or is
   dropped when there is no file or descriptor left *)
OpenFd(p) ==
    LET s == proc[p].ip
        free == {fd \in Fd : proc[p].ofile[fd] = 0}
    IN /\ proc[p].pc = "openfd"
       /\ icache' = Iunlock(icache, s)
       /\ proc' = [proc EXCEPT ![p] =
             IF free = {} THEN IputThen([@ EXCEPT !.ip = 0], s, "end")
             ELSE OpenFile(@, Min(free), s)]
       /\ UNCHANGED <<disk, committed, calls, crashes>>

(* create: lock the parent, look the name up *)
CreateFound(p) ==
    LET s == proc[p].cur
        i == Dirlookup(disk, Loaded(s), Head(proc[p].path))
    IN /\ proc[p].pc = "create" /\ CanIlock(s) /\ i # 0 /\ CacheHasRoom(i)
       /\ icache' = Iunlock(Iget(Ilock(p, s), i), s)
       /\ proc' = [proc EXCEPT ![p] =
             IputThen([@ EXCEPT !.cur = 0, !.ip = IgetSlot(i)], s, "createfound")]
       /\ UNCHANGED <<disk, committed, calls, crashes>>

(* an existing file may be opened; anything else is an error *)
CreateExists(p) ==
    LET s == proc[p].ip
        fine == proc[p].op = "creat" /\ Loaded(s).type = "file"
    IN /\ proc[p].pc = "createfound" /\ CanIlock(s)
       /\ icache' = IF fine THEN Ilock(p, s) ELSE Iunlock(Ilock(p, s), s)
       /\ proc' = [proc EXCEPT ![p] =
             IF fine THEN [@ EXCEPT !.pc = "openfd"]
             ELSE IputThen([@ EXCEPT !.ip = 0], s, "end")]
       /\ UNCHANGED <<disk, committed, calls, crashes>>

(* ialloc: the parent stays locked, the new inode has no link yet *)
CreateIalloc(p) ==
    LET s == proc[p].cur
        i == Min(FreeInodes(disk))
        type == IF proc[p].op = "mkdir" THEN "dir" ELSE "file"
    IN /\ proc[p].pc = "create" /\ CanIlock(s)
       /\ Dirlookup(disk, Loaded(s), Head(proc[p].path)) = 0
       /\ FreeInodes(disk) # {} /\ CacheHasRoom(i)
       /\ disk' = Iupdate(disk, i, [FreeDinode EXCEPT !.type = type])
       /\ icache' = Iget(Ilock(p, s), i)
       /\ proc' = [proc EXCEPT ![p].pc = "createnew", ![p].ip = IgetSlot(i)]
       /\ UNCHANGED <<committed, calls, crashes>>

(* the new inode gets its link, for a directory its dots, and its entry *)
CreateFile(p) ==
    LET s == proc[p].ip
        dp == proc[p].cur
        din == [Loaded(s) EXCEPT !.nlink = 1]
        d == WriteEntry(Iupdate(disk, icache[s].inum, din), icache[dp].din,
                        Head(proc[p].path), icache[s].inum)
        ddin == WithBlock(disk, icache[dp].din)
    IN /\ proc[p].pc = "createnew" /\ proc[p].op # "mkdir" /\ CanIlock(s)
       /\ BallocFinds(disk, icache[dp].din)
       /\ disk' = Iupdate(d, icache[dp].inum, ddin)
       /\ icache' = Iunlock(Store(Store(Ilock(p, s), s, din), dp, ddin), dp)
       /\ proc' = [proc EXCEPT ![p] =
             IputThen([@ EXCEPT !.cur = 0], dp, "openfd")]
       /\ UNCHANGED <<committed, calls, crashes>>

CreateDir(p) ==
    LET s == proc[p].ip
        dp == proc[p].cur
        i == icache[s].inum
        dir == icache[dp].inum
        ddin == [icache[dp].din EXCEPT !.nlink = @ + 1]
        d1 == WriteEntry(WriteEntry(disk, Loaded(s), ".", i),
                         WithBlock(disk, Loaded(s)), "..", dir)
        din == [WithBlock(disk, Loaded(s)) EXCEPT !.nlink = 1]
        d2 == WriteEntry(d1, ddin, Head(proc[p].path), i)
    IN /\ proc[p].pc = "createnew" /\ proc[p].op = "mkdir" /\ CanIlock(s)
       /\ BallocFinds(disk, Loaded(s)) /\ BallocFinds(d1, ddin)
       /\ disk' = Iupdate(Iupdate(d2, i, din), dir, WithBlock(d1, ddin))
       /\ icache' = Iunlock(Store(Store(Ilock(p, s), s, din), dp,
                                  WithBlock(d1, ddin)), dp)
       /\ proc' = [proc EXCEPT ![p] =
             IputThen([@ EXCEPT !.cur = 0], dp, "mkdirdone")]
       /\ UNCHANGED <<committed, calls, crashes>>

MkdirDone(p) ==
    LET s == proc[p].ip
    IN /\ proc[p].pc = "mkdirdone"
       /\ icache' = Iunlock(icache, s)
       /\ proc' = [proc EXCEPT ![p] = IputThen([@ EXCEPT !.ip = 0], s, "end")]
       /\ UNCHANGED <<disk, committed, calls, crashes>>

(* sys_unlink: lock the parent, look the name up *)
Unlink(p) ==
    LET s == proc[p].cur
        n == Head(proc[p].path)
        i == Dirlookup(disk, Loaded(s), n)
    IN /\ proc[p].pc = "unlink" /\ CanIlock(s)
       /\ \/ /\ n \in {".", ".."} \/ i = 0
             /\ icache' = Iunlock(Ilock(p, s), s)
             /\ proc' = [proc EXCEPT ![p] =
                           IputThen([@ EXCEPT !.cur = 0], s, "end")]
          \/ /\ n \in Name /\ i # 0 /\ CacheHasRoom(i)
             /\ icache' = Iget(Ilock(p, s), i)
             /\ proc' = [proc EXCEPT ![p].pc = "unlinkboth", ![p].ip = IgetSlot(i)]
       /\ UNCHANGED <<disk, committed, calls, crashes>>

NotEmpty(s) == Loaded(s).type = "dir" /\ ~IsDirEmpty(disk, Loaded(s))

(* with both inodes locked, the entry goes; iput of the parent follows with
   the lock of the file still held *)
UnlinkEntry(p) ==
    LET s == proc[p].ip
        dp == proc[p].cur
        d == WriteEntry(disk, icache[dp].din, Head(proc[p].path), 0)
        ddin == [icache[dp].din EXCEPT
                   !.nlink = IF Loaded(s).type = "dir" THEN @ - 1 ELSE @]
    IN /\ proc[p].pc = "unlinkboth" /\ CanIlock(s) /\ ~NotEmpty(s)
       /\ BallocFinds(disk, icache[dp].din)
       /\ disk' = Iupdate(d, icache[dp].inum, ddin)
       /\ icache' = Iunlock(Store(Ilock(p, s), dp, ddin), dp)
       /\ proc' = [proc EXCEPT ![p] =
             IputThen([@ EXCEPT !.cur = 0], dp, "unlinkdone")]
       /\ UNCHANGED <<committed, calls, crashes>>

UnlinkNotEmpty(p) ==
    LET s == proc[p].ip
    IN /\ proc[p].pc = "unlinkboth" /\ CanIlock(s) /\ NotEmpty(s)
       /\ icache' = Iunlock(Ilock(p, s), s)
       /\ proc' = [proc EXCEPT ![p] =
             IputThen([@ EXCEPT !.ip = 0], s, "unlinkbad")]
       /\ UNCHANGED <<disk, committed, calls, crashes>>

UnlinkNlink(p) ==
    LET s == proc[p].ip
        din == [icache[s].din EXCEPT !.nlink = @ - 1]
    IN /\ proc[p].pc = "unlinkdone"
       /\ disk' = Iupdate(disk, icache[s].inum, din)
       /\ icache' = Iunlock(Store(icache, s, din), s)
       /\ proc' = [proc EXCEPT ![p] = IputThen([@ EXCEPT !.ip = 0], s, "end")]
       /\ UNCHANGED <<committed, calls, crashes>>

(* iunlockput of the parent, at bad: *)
UnlinkBad(p) ==
    LET s == proc[p].cur
    IN /\ proc[p].pc = "unlinkbad"
       /\ icache' = Iunlock(icache, s)
       /\ proc' = [proc EXCEPT ![p] = IputThen([@ EXCEPT !.cur = 0], s, "end")]
       /\ UNCHANGED <<disk, committed, calls, crashes>>

(* ip stays locked during the walk *)
LinkKeepsLock(p) ==
    LET s == proc[p].cur
        din == [Loaded(s) EXCEPT !.nlink = @ + 1]
    IN /\ proc[p].pc = "link" /\ CanIlock(s) /\ Loaded(s).type # "dir"
       /\ CacheHasRoom(ROOTINO)
       /\ disk' = Iupdate(disk, icache[s].inum, din)
       /\ icache' = Iget(Store(Ilock(p, s), s, din), ROOTINO)
       /\ proc' = [proc EXCEPT ![p] =
             Namex([@ EXCEPT !.ip = s, !.cur = IgetSlot(ROOTINO)],
                   proc[p].new, "linknew", "linkbad")]
       /\ UNCHANGED <<committed, calls, crashes>>

(* sys_link: count the link, then walk to the parent of the new name *)
Link(p) ==
    LET s == proc[p].cur
        din == [Loaded(s) EXCEPT !.nlink = @ + 1]
    IN /\ proc[p].pc = "link" /\ CanIlock(s) /\ Loaded(s).type # "dir"
       /\ CacheHasRoom(ROOTINO)
       /\ disk' = Iupdate(disk, icache[s].inum, din)
       /\ icache' = Iget(Iunlock(Store(Ilock(p, s), s, din), s), ROOTINO)
       /\ proc' = [proc EXCEPT ![p] =
             Namex([@ EXCEPT !.ip = s, !.cur = IgetSlot(ROOTINO)],
                   proc[p].new, "linknew", "linkbad")]
       /\ UNCHANGED <<committed, calls, crashes>>

LinkDir(p) ==
    LET s == proc[p].cur
    IN /\ proc[p].pc = "link" /\ CanIlock(s) /\ Loaded(s).type = "dir"
       /\ icache' = Iunlock(Ilock(p, s), s)
       /\ proc' = [proc EXCEPT ![p] = IputThen([@ EXCEPT !.cur = 0], s, "end")]
       /\ UNCHANGED <<disk, committed, calls, crashes>>

(* dirlink of the new name *)
LinkEntry(p) ==
    LET dp == proc[p].cur
        n == Head(proc[p].path)
        d == WriteEntry(disk, Loaded(dp), n, icache[proc[p].ip].inum)
        ddin == WithBlock(disk, Loaded(dp))
    IN /\ proc[p].pc = "linknew" /\ CanIlock(dp)
       /\ Dirlookup(disk, Loaded(dp), n) = 0 /\ BallocFinds(disk, Loaded(dp))
       /\ disk' = Iupdate(d, icache[dp].inum, ddin)
       /\ icache' = Iunlock(Store(Ilock(p, dp), dp, ddin), dp)
       /\ proc' = [proc EXCEPT ![p] =
             IputThen([@ EXCEPT !.cur = 0], dp, "linkdone")]
       /\ UNCHANGED <<committed, calls, crashes>>

(* the name exists: dirlink drops the inode it found, with the directory
   still locked *)
LinkExists(p) ==
    LET dp == proc[p].cur
        i == Dirlookup(disk, Loaded(dp), Head(proc[p].path))
    IN /\ proc[p].pc = "linknew" /\ CanIlock(dp) /\ i # 0 /\ CacheHasRoom(i)
       /\ icache' = Iget(Ilock(p, dp), i)
       /\ proc' = [proc EXCEPT ![p] = IputThen(@, IgetSlot(i), "linkexists")]
       /\ UNCHANGED <<disk, committed, calls, crashes>>

LinkUnlockParent(p) ==
    LET dp == proc[p].cur
    IN /\ proc[p].pc = "linkexists"
       /\ icache' = Iunlock(icache, dp)
       /\ proc' = [proc EXCEPT ![p] =
             IputThen([@ EXCEPT !.cur = 0], dp, "linkbad")]
       /\ UNCHANGED <<disk, committed, calls, crashes>>

LinkDone(p) ==
    /\ proc[p].pc = "linkdone"
    /\ proc' = [proc EXCEPT ![p] = IputThen([@ EXCEPT !.ip = 0], proc[p].ip, "end")]
    /\ UNCHANGED <<disk, committed, icache, calls, crashes>>

(* bad: take the link back *)
LinkBad(p) ==
    LET s == proc[p].ip
        din == [Loaded(s) EXCEPT !.nlink = @ - 1]
    IN /\ proc[p].pc = "linkbad" /\ CanIlock(s)
       /\ disk' = Iupdate(disk, icache[s].inum, din)
       /\ icache' = Iunlock(Store(Ilock(p, s), s, din), s)
       /\ proc' = [proc EXCEPT ![p] = IputThen([@ EXCEPT !.ip = 0], s, "end")]
       /\ UNCHANGED <<committed, calls, crashes>>

Chdir(p) ==
    LET s == proc[p].cur
        dir == Loaded(s).type = "dir"
    IN /\ proc[p].pc = "chdir" /\ CanIlock(s)
       /\ icache' = Iunlock(Ilock(p, s), s)
       /\ proc' = [proc EXCEPT ![p] =
             IF dir THEN IputThen([@ EXCEPT !.cur = 0, !.cwd = s], proc[p].cwd, "end")
             ELSE IputThen([@ EXCEPT !.cur = 0], s, "end")]
       /\ UNCHANGED <<disk, committed, calls, crashes>>

(* sys_write, for a block that the file does not have yet: bmap allocates it,
   writei fills it *)
Write(p) ==
    \E fd \in Fd :
       LET s == proc[p].ofile[fd]
           din == [Loaded(s) EXCEPT !.addrs = @ \cup {FirstFree(disk)}]
       IN /\ proc[p].pc = "idle" /\ calls < MaxCalls
          /\ fd \in proc[p].writable /\ CanIlock(s)
          /\ Cardinality(Loaded(s).addrs) < MaxFile /\ disk.used # DataBlock
          /\ disk' = [Iupdate(Balloc(disk), icache[s].inum, din) EXCEPT
                        !.data[FirstFree(disk)] = Written]
          /\ icache' = Iunlock(Store(Ilock(p, s), s, din), s)
          /\ proc' = [proc EXCEPT ![p].pc = "end", ![p].op = "write"]
          /\ calls' = calls + 1
          /\ UNCHANGED <<committed, crashes>>

(* sys_close, fileclose; exit() closes in the same way *)
Close(p) ==
    \E fd \in Fd :
       /\ proc[p].pc = "idle" /\ proc[p].ofile[fd] # 0
       /\ proc' = [proc EXCEPT ![p] =
             IputThen([@ EXCEPT !.ofile[fd] = 0, !.writable = @ \ {fd}, !.op = "close"],
                      proc[p].ofile[fd], "end")]
       /\ UNCHANGED <<disk, committed, icache, calls, crashes>>

-----------------------------------------------------------------------------
(* Boot: mkfs has put the programs in the root directory; each process runs
   in it *)

MkfsDisk ==
    [inode |-> [i \in Inum |->
        CASE i = ROOTINO -> [type |-> "dir", nlink |-> 1, addrs |-> {i}]
          [] i - 1 \in DOMAIN Programs ->
                [type |-> "file", nlink |-> 1, addrs |-> {i}]
          [] OTHER -> FreeDinode],
     data |-> [b \in DataBlock |-> [n \in DirName |->
        CASE b - 1 \in DOMAIN Programs -> Written[n]
          [] b # 1 -> 0
          [] n \in {".", ".."} -> ROOTINO
          [] n \in Range(Programs) ->
                1 + CHOOSE k \in DOMAIN Programs : Programs[k] = n
          [] OTHER -> 0]],
     used |-> 1 .. 1 + Len(Programs)]

BootCache ==
    [s \in Slot |-> [inum |-> IF s = 1 THEN ROOTINO ELSE 0,
                     ref |-> IF s = 1 THEN Cardinality(Proc) ELSE 0,
                     valid |-> FALSE, lock |-> NoProc, din |-> FreeDinode]]

BootProc ==
    [p \in Proc |->
       [pc |-> "idle", op |-> "none", path |-> <<>>, new |-> <<>>,
        cur |-> 0, ip |-> 0, put |-> 0, ok |-> "end", bad |-> "end",
        ret |-> "end", cwd |-> 1, ofile |-> [fd \in Fd |-> 0],
        writable |-> {}]]

Init ==
    /\ disk = MkfsDisk /\ committed = MkfsDisk
    /\ icache = BootCache /\ proc = BootProc
    /\ calls = 0 /\ crashes = 0

Crash ==
    /\ crashes < MaxCrashes
    /\ disk' = committed
    /\ icache' = BootCache /\ proc' = BootProc
    /\ crashes' = crashes + 1
    /\ UNCHANGED <<committed, calls>>

Step(p) ==
    \/ Begin(p) \/ End(p)
    \/ IputFree(p) \/ IputFreed(p) \/ IputKeep(p) \/ IputRef(p)
    \/ NamexDone(p) \/ NamexLock(p) \/ NamexParent(p) \/ NamexNext(p)
    \/ NamexFail(p)
    \/ Open(p) \/ OpenFd(p) \/ Write(p) \/ Close(p) \/ Chdir(p)
    \/ CreateFound(p) \/ CreateExists(p) \/ CreateIalloc(p) \/ CreateFile(p)
    \/ CreateDir(p) \/ MkdirDone(p)
    \/ Unlink(p) \/ UnlinkEntry(p) \/ UnlinkNotEmpty(p) \/ UnlinkNlink(p)
    \/ UnlinkBad(p)
    \/ Link(p) \/ LinkDir(p) \/ LinkEntry(p) \/ LinkExists(p)
    \/ LinkUnlockParent(p) \/ LinkDone(p) \/ LinkBad(p)

AllIdle == \A p \in Proc : proc[p].pc = "idle"

Next == (\E p \in Proc : Step(p)) \/ Crash

Spec == Init /\ [][Next]_vars

-----------------------------------------------------------------------------
(* Properties *)

(* the pointers to the inode in slot s that a call has, and all *)
Pointers(q, s) == ({f \in {"cur", "ip", "put", "cwd"} : q[f] = s} \X {0})
                     \cup ({"ofile"} \X {fd \in Fd : q.ofile[fd] = s})
References(table, s) == UNION {{p} \X Pointers(table[p], s) : p \in Proc}

(* "ip->ref tracks the number of in-memory pointers to the entry" (fs.c): on
   every error path of every call too, so that no slot is recycled in use or
   kept for ever *)
RefTracksPointers ==
    \A s \in Slot : icache[s].ref = Cardinality(References(proc, s))

(* The inode cache never has two copies of an inode in use. *)
OneSlotPerInode ==
    \A s, t \in Slot :
       (icache[s].ref > 0 /\ icache[t].ref > 0 /\ icache[s].inum = icache[t].inum)
          => s = t

(* "i-node cache is write-through": what a process reads of an inode that
   nobody has locked is what is on disk. *)
CacheCoherent ==
    \A s \in Slot :
       (icache[s].ref > 0 /\ icache[s].valid /\ icache[s].lock = NoProc)
          => icache[s].din = disk.inode[icache[s].inum]

(* A block is marked in the bitmap exactly when one inode, and only one, has
   it: no file can see the blocks of another, none is lost. *)
BlocksOwnedOnce ==
    /\ disk.used = UNION {disk.inode[i].addrs : i \in Inum}
    /\ \A i, j \in Inum : i # j => disk.inode[i].addrs \cap disk.inode[j].addrs = {}

(* No process meets the panic of ilock ("no type") or of sys_unlink
   ("nlink < 1"): a name or a pointer never leads to a freed inode.  The ".." of
   a directory that is removed but in use is no such name: nothing keeps the
   parent, and a call that follows it may find the parent freed. *)
NoInodePanic ==
    /\ \A p \in Proc :
          /\ \A s \in Slot :
                (icache[s].lock = p /\ proc[p].pc # "itrunc")
                   => icache[s].din.type # "none"
          /\ \A s \in ({proc[p].cur, proc[p].ip, proc[p].cwd} \cup Range(proc[p].ofile)) \ {0} :
                CanLock(s) => Loaded(s).type # "none"
          /\ proc[p].pc = "unlinkdone" => icache[proc[p].ip].din.nlink >= 1
          /\ (proc[p].pc = "unlinkboth" /\ CanIlock(proc[p].ip))
                => Loaded(proc[p].ip).nlink >= 1
    /\ \A i \in Inum : disk.inode[i].nlink >= 0

Entry(d, i, n) ==
    IF d.inode[i].type = "dir" THEN Dirlookup(d, d.inode[i], n) ELSE 0

(* the directories that names lead to *)
Reachable(d) ==
    LET reach[k \in 0 .. NINODES] ==
          IF k = 0 THEN {ROOTINO}
          ELSE reach[k - 1] \cup
                 ({Entry(d, i, n) : i \in reach[k - 1], n \in Name} \ {0})
    IN reach[NINODES]

NamesOf(d, dirs, i) == UNION {{j} \X {n \in Name : Entry(d, j, n) = i} : j \in dirs}
Subdirs(d, dirs, i) ==
    {j \in dirs \ {i} : d.inode[j].type = "dir" /\ Entry(d, j, "..") = i}

(* What a crash leaves is a tree: names lead to inodes in use whose link count
   is at least the number of names, a directory has one name, its dots are
   right, and its link count covers its subdirectories. *)
CommittedTree ==
    LET d == committed
        r == Reachable(d)
    IN \A i \in r :
          /\ d.inode[i].type # "none"
          /\ d.inode[i].nlink >= Cardinality(NamesOf(d, r, i))
          /\ d.inode[i].type = "dir" =>
                /\ Entry(d, i, ".") = i
                /\ Entry(d, i, "..") \in r
                /\ i # ROOTINO => Cardinality(NamesOf(d, r, i)) = 1
                /\ i # ROOTINO => i \in {Entry(d, Entry(d, i, ".."), n) : n \in Name}
                /\ d.inode[i].nlink >= 1 + Cardinality(Subdirs(d, r, i))

(* When no call is in progress and there was no crash, an inode without links
   that nobody has open has been freed. *)
UnlinkedIsFreed ==
    (AllIdle /\ crashes = 0) =>
       \A i \in Inum :
          (disk.inode[i].type # "none" /\ disk.inode[i].nlink = 0)
             => Cached(i) # {}

(* the inode whose lock p is about to take *)
Wants(p) ==
    LET q == proc[p]
    IN CASE q.pc = "iput" -> q.put
         [] q.pc \in {"createfound", "createnew", "unlinkboth", "linkbad"} -> q.ip
         [] q.pc \in {"open", "create", "unlink", "link", "linknew", "chdir"} -> q.cur
         [] q.pc = "namex" /\ q.path # <<>> -> q.cur
         [] OTHER -> 0
Blocked(p, ps) == Wants(p) # 0 /\ icache[Wants(p)].lock \in ps

(* Path lookup, create, link and unlink lock a directory before what it has
   names for, and so never wait for each other in a circle.  A circle is
   closed by iput alone, which locks the directory again while create() and
   sys_unlink() still hold the lock of the entry's inode. *)
CirclesNeedIput ==
    \A ps \in SUBSET Proc :
       (ps # {} /\ \A p \in ps : Blocked(p, ps)) => \E p \in ps : proc[p].pc = "iput"

(* The inode cache, through every error path of every call: references are
   counted exactly, an inode is cached once, and unlocked copies are current. *)
IcacheInv == TypeOK /\ RefTracksPointers /\ OneSlotPerInode /\ CacheCoherent
=============================================================================
