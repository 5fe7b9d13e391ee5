---------------------------------- MODULE Fs ----------------------------------
(***************************************************************************)
(* Inodes, directories, path names, open files and the system calls on     *)
(* them: fs.c, file.c, sysfile.c.                                          *)
(*                                                                         *)
(* A function of the code that runs under an inode's lock is an operator   *)
(* on the file system fs; a step goes from one ilock() to the next, or is  *)
(* a critical section of itable.lock.  (The bitmap and inode blocks are    *)
(* changed under their buffer locks, one whole change at a time: Bcache.)  *)
(* Operations commit together when the last one ends, and a crash leaves   *)
(* what was committed: Log shows that log.c does this.                     *)
(*                                                                         *)
(* Sizes and offsets count directory entries; a block has BSIZE of them, a *)
(* byte of a file is a unit too.  A unit is <<name, number>>.              *)
(***************************************************************************)
EXTENDS Integers, Sequences, FiniteSets, FiniteSetsExt, Functions

CONSTANTS
    Proc, Init1,            \* processes; the first one
    NINODES, NBLOCK,        \* inodes and blocks on disk
    NINODE, NFILE, NOFILE,  \* tables in memory
    NDIRECT, BSIZE,
    NDEV,
    MaxWrite,               \* what filewrite() writes in a transaction
    Image,                  \* disks to start from, a directory on each, and calls
    MaxCalls, MaxCrashes    \* bounds

ROOTINO == 1
Inum == 1 .. NINODES
Block == 1 .. NBLOCK
NINDIRECT == BSIZE
MAXFILE == NDIRECT + NINDIRECT
Entry == 1 .. NINODE
File == 1 .. NFILE
None == "none"

VARIABLES
    fs,             \* inodes, bitmap and blocks as the buffers show them; itable
    safe,           \* inodes, bitmap and blocks as a crash leaves them
    outstanding,    \* operations in progress (log.c)
    ftable, pr,     \* open files; each process
    image, calls, crashes

vars == <<fs, safe, outstanding, ftable, pr, image, calls, crashes>>

NoInode == [type |-> None, major |-> 0, nlink |-> 0, size |-> 0, addrs |-> [i \in 0 .. NDIRECT |-> 0]]
NoEntry == [inum |-> 0, ref |-> 0, valid |-> FALSE, lock |-> None, d |-> NoInode]
NoFile == [type |-> None, ref |-> 0, ip |-> 0, off |-> 0, readable |-> FALSE, writable |-> FALSE]
Zero == <<"", 0>>
Zeros == [i \in 0 .. BSIZE - 1 |-> Zero]

Disk(w) == [din |-> w.din, used |-> w.used, blk |-> w.blk, lost |-> w.lost, leaked |-> w.leaked]
Panic(w, why) == IF w.panic = "" THEN [w EXCEPT !.panic = why] ELSE w

-----------------------------------------------------------------------------
(* Blocks *)
balloc(w) ==
    IF w.used = Block THEN [w |-> w, b |-> 0]
    ELSE LET b == Min(Block \ w.used)
         IN [w |-> [w EXCEPT !.used = @ \cup {b}, !.blk[b] = Zeros], b |-> b]

iupdate(w, e) == [w EXCEPT !.din[w.t[e].inum] = w.t[e].d]

(* The blocks of an inode, and the one that bn is in, 0 if none. *)
BlockAt(w, d, bn) ==
    IF bn < NDIRECT THEN d.addrs[bn]
    ELSE IF d.addrs[NDIRECT] = 0 THEN 0 ELSE w.blk[d.addrs[NDIRECT]][bn - NDIRECT][2]
BlocksOf(w, d) == ({BlockAt(w, d, bn) : bn \in 0 .. MAXFILE - 1} \cup {d.addrs[NDIRECT]}) \ {0}

(* bmap(), where a block found or allocated for a place is [w, b].  A      *)
(* place that stays 0 is written with 0.                                   *)
SetAddr(a, e, bn) == [a EXCEPT !.w.t[e].d.addrs[bn] = a.b]
InIndirect(i, a, bn) == [a EXCEPT !.w.blk[i][bn - NDIRECT] = <<"", a.b>>]
ThenIndirect(i, bn) == IF i.b = 0 THEN i ELSE InIndirect(i.b, balloc(i.w), bn)
bmap(w, e, bn) ==
    IF BlockAt(w, w.t[e].d, bn) # 0 THEN [w |-> w, b |-> BlockAt(w, w.t[e].d, bn)]
    ELSE IF bn < NDIRECT THEN SetAddr(balloc(w), e, bn)
    ELSE ThenIndirect(IF w.t[e].d.addrs[NDIRECT] = 0 THEN SetAddr(balloc(w), e, NDIRECT)
                      ELSE [w |-> w, b |-> w.t[e].d.addrs[NDIRECT]], bn)

itrunc(w, e) ==
    LET bs == BlocksOf(w, w.t[e].d)
    IN IF ~(bs \subseteq w.used) THEN Panic(w, "freeing free block")
       ELSE iupdate([w EXCEPT !.used = @ \ bs, !.t[e].d.addrs = NoInode.addrs, !.t[e].d.size = 0], e)

Unit(w, d, off) == LET b == BlockAt(w, d, off \div BSIZE) IN IF b = 0 THEN Zero ELSE w.blk[b][off % BSIZE]

(* writei() of n units val, of which the program has only the first have:  *)
(* block by block, m units to the block to.                                *)
RECURSIVE WriteFrom(_, _, _, _, _, _), WriteBlock(_, _, _, _, _, _, _)
WriteFrom(w, e, at, n, have, val) ==
    IF n = 0 THEN [w |-> w, at |-> at]
    ELSE WriteBlock(bmap(w, e, at \div BSIZE), e, at, Min({n, BSIZE - (at % BSIZE)}), n, have, val)
WriteBlock(to, e, at, m, n, have, val) ==
    IF to.b = 0 \/ have < m THEN [w |-> to.w, at |-> at]
    ELSE WriteFrom([to.w EXCEPT !.blk[to.b] = [i \in DOMAIN @ |-> IF i - (at % BSIZE) \in 0 .. m - 1 THEN val ELSE @[i]]],
                   e, at + m, n - m, have - m, val)

Wrote(wr, e, off) ==
    [w |-> iupdate([wr.w EXCEPT !.t[e].d.size = Max({@, wr.at})], e), r |-> wr.at - off]
writei(w, e, off, n, have, val) ==
    IF off > w.t[e].d.size \/ off + n > MAXFILE * BSIZE THEN [w |-> w, r |-> -1]
    ELSE Wrote(WriteFrom(w, e, off, n, have, val), e, off)

readi(w, e, off, n) ==
    IF off > w.t[e].d.size THEN 0 ELSE Min({n, w.t[e].d.size - off})

-----------------------------------------------------------------------------
(* The inode table *)
iget(w, inum) ==
    LET in == {e \in Entry : w.t[e].ref > 0 /\ w.t[e].inum = inum}
        empty == {e \in Entry : w.t[e].ref = 0}
    IN IF in # {} THEN [w |-> [w EXCEPT !.t[Min(in)].ref = @ + 1], e |-> Min(in)]
       ELSE IF empty = {} THEN [w |-> Panic(w, "iget: no inodes"), e |-> 1]
       ELSE [w |-> [w EXCEPT !.t[Min(empty)] = [NoEntry EXCEPT !.inum = inum, !.ref = 1]], e |-> Min(empty)]

idup(w, e) == [w EXCEPT !.t[e].ref = @ + 1]

(* What ilock() reads if the entry is not valid. *)
Load(w, e) ==
    IF w.t[e].valid THEN w
    ELSE LET w1 == [w EXCEPT !.t[e].valid = TRUE, !.t[e].d = w.din[w.t[e].inum]]
         IN IF w1.t[e].d.type = None THEN Panic(w1, "ilock: no type") ELSE w1
Lock(w, e, p) == [w EXCEPT !.t[e].lock = p]
iunlock(w, e) == Lock(w, e, None)

(* ialloc(), 0 if there is none; and its iget(). *)
ialloc(w, type) ==
    LET free == {n \in Inum : w.din[n].type = None}
        n == Min(free)
    IN IF free = {} THEN [w |-> w, e |-> 0]
       ELSE iget([w EXCEPT !.din[n] = [NoInode EXCEPT !.type = type], !.lost = @ \ {n}, !.leaked = @ \ {n}], n)

(* Directories *)
Dirents(w, e) == {off \in 0 .. w.t[e].d.size - 1 : Unit(w, w.t[e].d, off)[2] # 0}
Named(w, e, name) == {off \in Dirents(w, e) : Unit(w, w.t[e].d, off)[1] = name}

(* dirlookup(): the inode number, 0 if there is none. *)
dirlookup(w, e, name) ==
    IF Named(w, e, name) = {} THEN 0 ELSE Unit(w, w.t[e].d, Min(Named(w, e, name)))[2]

(* dirlink(), if ok so far.  (The iget() and iput() of an entry that is    *)
(* there already leave nothing behind.)  Ghost: what is put in a removed   *)
(* directory is lost.                                                      *)
Linked(wr, e, inum) ==
    [w |-> IF wr.w.t[e].d.nlink = 0 THEN [wr.w EXCEPT !.lost = @ \cup {inum, wr.w.t[e].inum}] ELSE wr.w,
     ok |-> wr.r = 1]
dirlink(l, e, name, inum) ==
    IF ~l.ok THEN l
    ELSE IF Named(l.w, e, name) # {} THEN [l EXCEPT !.ok = FALSE]
    ELSE Linked(writei(l.w, e, Min((0 .. l.w.t[e].d.size) \ Dirents(l.w, e)), 1, 1, <<name, inum>>), e, inum)

-----------------------------------------------------------------------------
(* A process.  at is where namex() is or what it returned (dp, or the ip   *)
(* of open() and chdir()), ip the other inode a call holds, puts the       *)
(* entries it gives back next, in order, before its step pc.               *)
NoCall == [op |-> None, path |-> <<>>, abs |-> FALSE, new |-> <<>>, mode |-> {}, fd |-> 0, n |-> 0, have |-> 0]
Fresh(pc, cwd, ofile) ==
    [pc |-> pc, call |-> NoCall, path |-> <<>>, parent |-> FALSE, then |-> "", name |-> "", at |-> 0, ip |-> 0,
     puts |-> <<>>, put |-> "", next |-> "user", i |-> 0, cwd |-> cwd, ofile |-> ofile]
NoFiles == [fd \in 1 .. NOFILE |-> 0]

(* main(): userinit() opens "/", the first process reclaims orphans. *)
Boot(d) == [din |-> d.din, used |-> d.used, blk |-> d.blk, lost |-> d.lost, leaked |-> d.leaked, panic |-> "",
            t |-> [e \in Entry |-> IF e = 1 THEN [NoEntry EXCEPT !.inum = ROOTINO, !.ref = 1] ELSE NoEntry]]
Booted == [p \in Proc |-> IF p = Init1 THEN [Fresh("ireclaim", 1, NoFiles) EXCEPT !.i = 1] ELSE Fresh("unused", 0, NoFiles)]

(* Start from a disk image: a program in a directory of it. *)
Init ==
    /\ image \in Image
    /\ safe = [din |-> image.din, used |-> image.used, blk |-> image.blk, lost |-> {}, leaked |-> {}]
    /\ LET g == iget(Boot(safe), image.cwd)
       IN /\ fs = g.w
          /\ pr = [p \in Proc |-> Fresh("user", IF p = Init1 THEN 1 ELSE g.e, NoFiles)]
    /\ ftable = [f \in File |-> NoFile]
    /\ outstanding = 0 /\ calls = 0 /\ crashes = 0

(* A step; a panic stops the process where it is. *)
Do(p, w, r) == fs' = w /\ pr' = IF w.panic = "" THEN [pr EXCEPT ![p] = r] ELSE pr

(* iput() of these, then end_op(). *)
Finish(r, puts) == [Fresh("end", r.cwd, r.ofile) EXCEPT !.puts = puts, !.next = r.next, !.i = r.i]

(* namex(): at e with names to go. *)
Arrive(r, e, names) ==
    IF names # <<>> THEN [r EXCEPT !.at = e, !.path = names, !.pc = "namex"]
    ELSE IF r.parent THEN [r EXCEPT !.at = 0, !.path = <<>>, !.puts = Append(@, e), !.pc = IF r.then = "link2" THEN "linkbad" ELSE "end"]
    ELSE [r EXCEPT !.at = e, !.path = <<>>, !.pc = r.then]

(* Mutation: a relative path starts without idup(). *)
NamexFromNoDup(w, r, abs, names, parent, then) ==
    LET g == IF abs THEN iget(w, ROOTINO) ELSE [w |-> w, e |-> r.cwd]
    IN [w |-> g.w, r |-> Arrive([r EXCEPT !.parent = parent, !.then = then], g.e, names)]

NamexFrom(w, r, abs, names, parent, then) ==
    LET g == IF abs THEN iget(w, ROOTINO) ELSE [w |-> idup(w, r.cwd), e |-> r.cwd]
    IN [w |-> g.w, r |-> Arrive([r EXCEPT !.parent = parent, !.then = then], g.e, names)]

(* The inode that the next step of r locks first, 0 if none. *)
Wants(r) ==
    CASE r.puts # <<>> -> 0
      [] r.pc \in {"namex", "link1", "link2", "unlink1", "create1", "open1", "chdir1"} -> r.at
      [] r.pc \in {"linkbad", "unlink2", "create2", "create3"} -> r.ip
      [] r.pc = "write2" -> ftable[r.ofile[r.call.fd]].ip
      [] OTHER -> 0
MayLock(e) == fs.t[e].lock = None

(* p is at pc, has nothing to put, and can have the lock it needs. *)
At(p, pc) ==
    /\ fs.panic = ""
    /\ pr[p].pc = pc
    /\ pr[p].puts = <<>>
    /\ Wants(pr[p]) # 0 => MayLock(Wants(pr[p]))

Namex(p) ==
    LET r == pr[p]
        w == Load(fs, r.at)
        found == dirlookup(w, r.at, Head(r.path))
        g == iget(w, found)
        Fail == [r EXCEPT !.at = 0, !.path = <<>>, !.puts = <<r.at>>, !.pc = IF r.then = "link2" THEN "linkbad" ELSE "end"]
        named == [r EXCEPT !.name = Head(r.path)]
    IN /\ At(p, "namex")
       /\ UNCHANGED <<safe, outstanding, ftable, image, calls, crashes>>
       /\ \/ w.t[r.at].d.type # "DIR" /\ Do(p, w, Fail)
          \/ /\ w.t[r.at].d.type = "DIR" /\ r.parent /\ Len(r.path) = 1
             /\ Do(p, w, [named EXCEPT !.path = <<>>, !.pc = r.then])
          \/ /\ w.t[r.at].d.type = "DIR" /\ ~(r.parent /\ Len(r.path) = 1)
             /\ \/ found = 0 /\ Do(p, w, Fail)
                \/ found # 0 /\ Do(p, g.w, Arrive([named EXCEPT !.puts = <<r.at>>], g.e, Tail(r.path)))

(* iput().  Ghost: if the inode it has freed was allocated again, and has  *)
(* lost its links again, the second one is leaked.                         *)
Unref(w, e) == IF w.t[e].ref = 1 THEN [w EXCEPT !.t[e] = NoEntry] ELSE [w EXCEPT !.t[e].ref = @ - 1]
LastPut(w, e) == w.t[e].ref = 1 /\ w.t[e].valid /\ w.t[e].d.nlink = 0

Iput(p) ==
    LET r == pr[p]
        e == Head(r.puts)
        Done == [r EXCEPT !.puts = Tail(@), !.put = ""]
    IN /\ fs.panic = ""
       /\ r.puts # <<>>
       /\ UNCHANGED <<safe, outstanding, ftable, image, calls, crashes>>
       /\ \/ /\ r.put = "" /\ LastPut(fs, e)
             /\ Do(p, IF MayLock(e) THEN Lock(fs, e, p) ELSE Panic(fs, "sched locks"), [r EXCEPT !.put = "trunc"])
          \/ /\ r.put = "trunc"
             /\ Do(p, iupdate([itrunc(fs, e) EXCEPT !.t[e].d.type = None], e), [r EXCEPT !.put = "unlock"])
          \/ /\ r.put = "unlock"
             /\ Do(p, [iunlock(fs, e) EXCEPT !.t[e].valid = FALSE], [r EXCEPT !.put = "drop"])
          \/ r.put = "" /\ ~LastPut(fs, e) /\ Do(p, Unref(fs, e), Done)
          \/ /\ r.put = "drop"
             /\ Do(p, Unref(IF LastPut(fs, e) THEN [fs EXCEPT !.leaked = @ \cup {fs.t[e].inum}] ELSE fs, e), Done)

(* end_op(): the last one commits (Log). *)
EndOp(p) ==
    /\ At(p, "end")
    /\ outstanding' = outstanding - 1
    /\ safe' = IF outstanding = 1 THEN Disk(fs) ELSE safe
    /\ LET r == pr[p]
       IN pr' = [pr EXCEPT ![p] = IF r.next \in {"user", "unused"} THEN Fresh(r.next, r.cwd, r.ofile) ELSE [r EXCEPT !.pc = r.next]]
    /\ UNCHANGED <<fs, ftable, image, calls, crashes>>

-----------------------------------------------------------------------------
(* System calls.  Their steps change only fs and pr, but for open()'s file. *)
Step(p, w, r) == Do(p, w, r) /\ UNCHANGED <<safe, outstanding, ftable, image, calls, crashes>>

(* A call that names a path: begin_op(), and namex() from its start. *)
Creates(c) == c.op \in {"mkdir", "mknod"} \/ (c.op = "open" /\ "CREATE" \in c.mode)
First(c) == IF Creates(c) THEN "create1"
            ELSE [link |-> "link1", unlink |-> "unlink1", open |-> "open1", chdir |-> "chdir1"][c.op]

PathCall(p, c) ==
    LET s == NamexFrom(fs, [pr[p] EXCEPT !.call = c], c.abs, c.path, Creates(c) \/ c.op = "unlink", First(c))
    IN /\ At(p, "user")
       /\ c.op \in {"open", "mkdir", "mknod", "link", "unlink", "chdir"}
       /\ calls < MaxCalls /\ calls' = calls + 1
       /\ outstanding' = outstanding + 1
       /\ Do(p, s.w, s.r)
       /\ UNCHANGED <<safe, ftable, image, crashes>>

(* sys_link() *)
AddLinks(w, e, k) == iupdate([w EXCEPT !.t[e].d.nlink = @ + k], e)

Link1(p) ==
    LET r == pr[p]
        w == Load(fs, r.at)
        s == NamexFrom(AddLinks(w, r.at, 1), [r EXCEPT !.at = 0, !.ip = r.at], r.call.abs, r.call.new, TRUE, "link2")
    IN /\ At(p, "link1")
       /\ IF w.t[r.at].d.type = "DIR" THEN Step(p, w, Finish(r, <<r.at>>)) ELSE Step(p, s.w, s.r)

Link2(p) ==
    LET r == pr[p]
    IN /\ At(p, "link2")
       /\ \E l \in {dirlink([w |-> Load(fs, r.at), ok |-> TRUE], r.at, r.name, fs.t[r.ip].inum)} :
             Step(p, l.w, IF l.ok THEN Finish(r, <<r.at, r.ip>>) ELSE [r EXCEPT !.at = 0, !.puts = <<r.at>>, !.pc = "linkbad"])

LinkBad(p) ==
    LET r == pr[p] IN At(p, "linkbad") /\ Step(p, AddLinks(Load(fs, r.ip), r.ip, -1), Finish(r, <<r.ip>>))

(* sys_unlink() *)
isdirempty(w, e) == Dirents(w, e) \subseteq {0, 1}

(* Mutation: "." may be unlinked. *)
Unlink1Dot(p) ==
    LET r == pr[p]
        w == Load(fs, r.at)
        found == dirlookup(w, r.at, r.name)
        g == iget(w, found)
    IN /\ At(p, "unlink1")
       /\ IF found = 0 THEN Step(p, w, Finish(r, <<r.at>>))
          ELSE Step(p, Lock(g.w, r.at, p), [r EXCEPT !.ip = g.e, !.pc = "unlink2"])

Unlink1(p) ==
    LET r == pr[p]
        w == Load(fs, r.at)
        found == dirlookup(w, r.at, r.name)
        g == iget(w, found)
    IN /\ At(p, "unlink1")
       /\ IF r.name \in {".", ".."} \/ found = 0 THEN Step(p, w, Finish(r, <<r.at>>))
          ELSE Step(p, Lock(g.w, r.at, p), [r EXCEPT !.ip = g.e, !.pc = "unlink2"])

(* Mutation: the parent of a removed directory keeps its link. *)
UnlinkedKeepsParent(w, p, dp, ip, name) ==
    LET wr == writei(w, dp, Min(Named(w, dp, name)), 1, 1, Zero) IN Lock(iunlock(wr.w, dp), ip, p)

(* The entry is cleared in dp, which is let go; ip stays locked. *)
Unlinked(w, p, dp, ip, name) ==
    LET wr == writei(w, dp, Min(Named(w, dp, name)), 1, 1, Zero)
    IN Lock(iunlock(IF w.t[ip].d.type = "DIR" THEN AddLinks(wr.w, dp, -1) ELSE wr.w, dp), ip, p)

Unlink2(p) ==
    LET r == pr[p]
    IN /\ At(p, "unlink2")
       /\ \E w \in {Load(fs, r.ip)} :
             IF w.t[r.ip].d.nlink < 1 THEN Step(p, Panic(w, "unlink: nlink < 1"), r)
             ELSE IF w.t[r.ip].d.type = "DIR" /\ ~isdirempty(w, r.ip)
             THEN Step(p, w, [r EXCEPT !.ip = 0, !.puts = <<r.ip>>, !.pc = "undir"])
             ELSE Step(p, Unlinked(w, p, r.at, r.ip, r.name), [r EXCEPT !.at = 0, !.puts = <<r.at>>, !.pc = "unlink3"])

Unlink3(p) ==
    LET r == pr[p] IN At(p, "unlink3") /\ Step(p, iunlock(AddLinks(fs, r.ip, -1), r.ip), Finish(r, <<r.ip>>))

(* bad: of unlink(), and the end of create()'s fail: iunlockput(dp). *)
UnlockDir(p) == LET r == pr[p] IN At(p, "undir") /\ Step(p, iunlock(fs, r.at), Finish(r, <<r.at>>))

(* create() *)
Type(c) == [open |-> "FILE", mkdir |-> "DIR", mknod |-> "DEVICE"][c.op]

Create1(p) ==
    LET r == pr[p]
        w == Load(fs, r.at)
        found == dirlookup(w, r.at, r.name)
        old == iget(w, found)
        new == ialloc(w, Type(r.call))
    IN /\ At(p, "create1")
       /\ IF found # 0 THEN Step(p, old.w, [r EXCEPT !.at = 0, !.ip = old.e, !.puts = <<r.at>>, !.pc = "create2"])
          ELSE IF new.e = 0 THEN Step(p, w, Finish(r, <<r.at>>))
          ELSE Step(p, Lock(new.w, r.at, p), [r EXCEPT !.ip = new.e, !.pc = "create3"])

Create2(p) ==
    LET r == pr[p]
        w == Load(fs, r.ip)
    IN /\ At(p, "create2")
       /\ IF Type(r.call) = "FILE" /\ w.t[r.ip].d.type \in {"FILE", "DEVICE"}
          THEN Step(p, Lock(w, r.ip, p), [r EXCEPT !.at = r.ip, !.ip = 0, !.pc = "open2"])
          ELSE Step(p, w, Finish(r, <<r.ip>>))

(* ip gets its link, a directory "." and "..", and dp its name. *)
Fill(w, dp, ip, c, name) ==
    LET new == [w |-> iupdate([w EXCEPT !.t[ip].d.major = c.n, !.t[ip].d.nlink = 1], ip), ok |-> TRUE]
    IN dirlink(IF Type(c) = "DIR" THEN dirlink(dirlink(new, ip, ".", w.t[ip].inum), ip, "..", w.t[dp].inum) ELSE new,
               dp, name, w.t[ip].inum)

Create3(p) ==
    LET r == pr[p]
    IN /\ At(p, "create3")
       /\ \E l \in {Fill(Load(fs, r.ip), r.at, r.ip, r.call, r.name)} :
             IF ~l.ok THEN Step(p, AddLinks(l.w, r.ip, -1), [r EXCEPT !.ip = 0, !.puts = <<r.ip>>, !.pc = "undir"])
             ELSE Step(p, Lock(iunlock(IF Type(r.call) = "DIR" THEN AddLinks(l.w, r.at, 1) ELSE l.w, r.at), r.ip, p),
                       [r EXCEPT !.at = r.ip, !.ip = 0, !.puts = <<r.at>>, !.pc = IF r.call.op = "open" THEN "open2" ELSE "made"])

(* sys_mkdir() and sys_mknod(): iunlockput(ip). *)
Made(p) == LET r == pr[p] IN At(p, "made") /\ Step(p, iunlock(fs, r.at), Finish(r, <<r.at>>))

(* sys_open() *)
Open1(p) ==
    LET r == pr[p]
        w == Load(fs, r.at)
    IN /\ At(p, "open1")
       /\ IF w.t[r.at].d.type = "DIR" /\ r.call.mode # {} THEN Step(p, w, Finish(r, <<r.at>>))
          ELSE Step(p, Lock(w, r.at, p), [r EXCEPT !.pc = "open2"])

(* fdalloc(), filealloc(): the first free one *)
FreeFds(r) == {fd \in 1 .. NOFILE : r.ofile[fd] = 0}
FreeFiles == {f \in File : ftable[f].ref = 0}

Open2(p) ==
    LET r == pr[p]
        d == fs.t[r.at].d
        f == Min(FreeFiles)
        w == IF "TRUNC" \in r.call.mode /\ d.type = "FILE" THEN itrunc(fs, r.at) ELSE fs
    IN /\ At(p, "open2")
       /\ IF (d.type = "DEVICE" /\ d.major >= NDEV) \/ FreeFiles = {} \/ FreeFds(r) = {}
          THEN Step(p, iunlock(fs, r.at), Finish(r, <<r.at>>))
          ELSE /\ Do(p, iunlock(w, r.at), Finish([r EXCEPT !.ofile[Min(FreeFds(r))] = f], <<>>))
               /\ ftable' = [ftable EXCEPT ![f] =
                    [type |-> IF d.type = "DEVICE" THEN "DEVICE" ELSE "INODE", ref |-> 1, ip |-> r.at, off |-> 0,
                     readable |-> "WRONLY" \notin r.call.mode,
                     writable |-> r.call.mode \cap {"WRONLY", "RDWR"} # {}]]
               /\ UNCHANGED <<safe, outstanding, image, calls, crashes>>

(* sys_chdir(): the old directory is put, then cwd is the new one. *)
Chdir1(p) ==
    LET r == pr[p]
        w == Load(fs, r.at)
    IN /\ At(p, "chdir1")
       /\ IF w.t[r.at].d.type # "DIR" THEN Step(p, w, Finish(r, <<r.at>>))
          ELSE Step(p, w, Finish([r EXCEPT !.cwd = r.at], <<r.cwd>>))

-----------------------------------------------------------------------------
(* Open files.  A call on a descriptor; argfd() refuses one not open. *)
FdCall(p, c, op) ==
    /\ At(p, "user")
    /\ c.op = op /\ pr[p].ofile[c.fd] # 0
    /\ calls < MaxCalls /\ calls' = calls + 1
    /\ UNCHANGED <<image, crashes>>
FileOf(p, c) == pr[p].ofile[c.fd]

(* fileclose() of fd: the last one puts the inode, in a transaction, or    *)
(* calls pipeclose() (Pipe).                                               *)
Close(p, fd, r) ==
    LET f == r.ofile[fd]
        closed == [r EXCEPT !.ofile[fd] = 0]
    IN IF ftable[f].ref > 1 \/ ftable[f].type = "PIPE"
       THEN /\ ftable' = [ftable EXCEPT ![f] = IF @.ref > 1 THEN [@ EXCEPT !.ref = @ - 1] ELSE NoFile]
            /\ Do(p, fs, closed)
            /\ UNCHANGED <<safe, outstanding>>
       ELSE /\ ftable' = [ftable EXCEPT ![f] = NoFile]
            /\ outstanding' = outstanding + 1
            /\ Do(p, fs, Finish(closed, <<ftable[f].ip>>))
            /\ UNCHANGED safe

SysClose(p, c) == FdCall(p, c, "close") /\ Close(p, c.fd, pr[p])

SysDup(p, c) ==
    /\ FdCall(p, c, "dup")
    /\ FreeFds(pr[p]) # {}
    /\ ftable' = [ftable EXCEPT ![FileOf(p, c)].ref = @ + 1]
    /\ Do(p, fs, [pr[p] EXCEPT !.ofile[Min(FreeFds(pr[p]))] = FileOf(p, c)])
    /\ UNCHANGED <<safe, outstanding>>

(* sys_pipe(): two files and two descriptors, or nothing. *)
SysPipe(p, c) ==
    LET r == pr[p]
        f0 == Min(FreeFiles)
        f1 == Min(FreeFiles \ {f0})
        fd0 == Min(FreeFds(r))
        fd1 == Min(FreeFds(r) \ {fd0})
        End(w) == [NoFile EXCEPT !.type = "PIPE", !.ref = 1, !.readable = ~w, !.writable = w]
    IN /\ At(p, "user") /\ c.op = "pipe"
       /\ Cardinality(FreeFiles) >= 2 /\ Cardinality(FreeFds(r)) >= 2
       /\ calls < MaxCalls /\ calls' = calls + 1
       /\ ftable' = [ftable EXCEPT ![f0] = End(FALSE), ![f1] = End(TRUE)]
       /\ Do(p, fs, [r EXCEPT !.ofile[fd0] = f0, !.ofile[fd1] = f1])
       /\ UNCHANGED <<safe, outstanding, image, crashes>>

(* fileread() of an inode; filestat() is the read of nothing. *)
SysRead(p, c) ==
    LET f == FileOf(p, c)
        ip == ftable[f].ip
    IN /\ FdCall(p, c, "read")
       /\ ftable[f].type = "INODE" /\ ftable[f].readable
       /\ MayLock(ip)
       /\ fs' = Load(fs, ip)
       /\ ftable' = [ftable EXCEPT ![f].off = @ + readi(fs', ip, @, c.n)]
       /\ UNCHANGED <<safe, outstanding, pr>>

(* filewrite() to an inode: a transaction for each piece. *)
SysWrite(p, c) ==
    /\ FdCall(p, c, "write")
    /\ ftable[FileOf(p, c)].type = "INODE" /\ ftable[FileOf(p, c)].writable
    /\ outstanding' = outstanding + 1
    /\ Do(p, fs, [pr[p] EXCEPT !.call = c, !.pc = "write2"])
    /\ UNCHANGED <<safe, ftable>>

WriteNext(p) ==
    /\ At(p, "write")
    /\ outstanding' = outstanding + 1
    /\ Do(p, fs, [pr[p] EXCEPT !.pc = "write2"])
    /\ UNCHANGED <<safe, ftable, image, calls, crashes>>

Write2(p) ==
    LET r == pr[p]
        f == r.ofile[r.call.fd]
        ip == ftable[f].ip
        n1 == Min({r.call.n - r.i, MaxWrite})
    IN /\ At(p, "write2")
       /\ \E wr \in {writei(Load(fs, ip), ip, ftable[f].off, n1, r.call.have - r.i, <<"d", 0>>)} :
             /\ ftable' = [ftable EXCEPT ![f].off = @ + Max({wr.r, 0})]
             /\ Do(p, wr.w, IF wr.r = n1 /\ r.i + n1 < r.call.n THEN [r EXCEPT !.pc = "end", !.i = @ + n1, !.next = "write"]
                            ELSE Finish([r EXCEPT !.next = "user"], <<>>))
       /\ UNCHANGED <<safe, outstanding, image, calls, crashes>>

(* kfork() and kexit(), their files *)
Fork(p, q) ==
    /\ At(p, "user") /\ pr[q].pc = "unused"
    /\ "fork" \in {c.op : c \in image.calls}
    /\ calls < MaxCalls /\ calls' = calls + 1
    /\ fs' = idup(fs, pr[p].cwd)
    /\ ftable' = [f \in File |-> [ftable[f] EXCEPT !.ref = @ + Cardinality({fd \in 1 .. NOFILE : pr[p].ofile[fd] = f})]]
    /\ pr' = [pr EXCEPT ![q] = Fresh("user", pr[p].cwd, pr[p].ofile)]
    /\ UNCHANGED <<safe, outstanding, image, crashes>>

ExitStarts(p) ==
    /\ At(p, "user") /\ p # Init1
    /\ "exit" \in {c.op : c \in image.calls}
    /\ calls < MaxCalls /\ calls' = calls + 1
    /\ pr' = [pr EXCEPT ![p].pc = "exit", ![p].next = "exit"]
    /\ UNCHANGED <<fs, safe, outstanding, ftable, image, crashes>>

Exit(p) ==
    LET r == pr[p]
        open == {fd \in 1 .. NOFILE : r.ofile[fd] # 0}
    IN /\ At(p, "exit")
       /\ UNCHANGED <<image, calls, crashes>>
       /\ IF open # {} THEN Close(p, Min(open), r)
          ELSE /\ outstanding' = outstanding + 1
               /\ Do(p, fs, Finish([r EXCEPT !.cwd = 0, !.next = "unused"], <<r.cwd>>))
               /\ UNCHANGED <<safe, ftable>>

(* A crash: the log is recovered, memory is gone.  (Bound: no calls after.) *)
Crash ==
    /\ crashes < MaxCrashes /\ crashes' = crashes + 1
    /\ fs' = Boot(safe) /\ pr' = Booted /\ outstanding' = 0
    /\ ftable' = [f \in File |-> NoFile]
    /\ calls' = MaxCalls
    /\ UNCHANGED <<safe, image>>

(* ireclaim(): the next orphan, or the end. *)
Orphan(w, n) == w.din[n].type # None /\ w.din[n].nlink = 0

(* Mutation: the orphan is put without ilock() and iunlock(). *)
IreclaimUnread(p) ==
    LET r == pr[p]
        orphans == {n \in r.i .. NINODES : Orphan(fs, n)}
        g == iget(fs, Min(orphans))
    IN /\ At(p, "ireclaim")
       /\ UNCHANGED <<safe, ftable, image, calls, crashes>>
       /\ IF orphans = {} THEN Do(p, fs, Fresh("user", r.cwd, r.ofile)) /\ UNCHANGED outstanding
          ELSE /\ outstanding' = outstanding + 1
               /\ Do(p, g.w, Finish([r EXCEPT !.i = Min(orphans) + 1, !.next = "ireclaim"], <<g.e>>))

Ireclaim(p) ==
    LET r == pr[p]
        orphans == {n \in r.i .. NINODES : Orphan(fs, n)}
        g == iget(fs, Min(orphans))
    IN /\ At(p, "ireclaim")
       /\ UNCHANGED <<safe, ftable, image, calls, crashes>>
       /\ IF orphans = {} THEN Do(p, fs, Fresh("user", r.cwd, r.ofile)) /\ UNCHANGED outstanding
          ELSE /\ outstanding' = outstanding + 1
               /\ Do(p, Load(g.w, g.e), Finish([r EXCEPT !.i = Min(orphans) + 1, !.next = "ireclaim"], <<g.e>>))

Next ==
    \/ \E p \in Proc : Namex(p) \/ Iput(p) \/ EndOp(p)
    \/ \E p \in Proc, c \in image.calls : PathCall(p, c)
    \/ \E p \in Proc : Link1(p) \/ Link2(p) \/ LinkBad(p)
    \/ \E p \in Proc : Unlink1(p) \/ Unlink2(p) \/ Unlink3(p) \/ UnlockDir(p)
    \/ \E p \in Proc : Create1(p) \/ Create2(p) \/ Create3(p) \/ Made(p)
    \/ \E p \in Proc : Open1(p) \/ Open2(p) \/ Chdir1(p)
    \/ \E p \in Proc, c \in image.calls : SysClose(p, c) \/ SysDup(p, c) \/ SysPipe(p, c) \/ SysRead(p, c) \/ SysWrite(p, c)
    \/ \E p \in Proc : WriteNext(p) \/ Write2(p)
    \/ \E p, q \in Proc : Fork(p, q)
    \/ \E p \in Proc : ExitStarts(p) \/ Exit(p)
    \/ \E p \in Proc : Ireclaim(p)
    \/ Crash

Spec == Init /\ [][Next]_vars

-----------------------------------------------------------------------------
(* Directory entries of a disk, as <<directory, offset>>. *)
Ents(w) == {x \in Inum \X (0 .. MAXFILE * BSIZE - 1) :
              /\ w.din[x[1]].type = "DIR" /\ x[2] < w.din[x[1]].size
              /\ Unit(w, w.din[x[1]], x[2])[2] # 0}

(* The entries that count as links to n: not ".", and not the ".." of a    *)
(* directory that was removed.                                             *)
Gone(w, n) == w.din[n].nlink = 0 \/ n \in w.lost
Links(w, n) == {x \in Ents(w) : LET u == Unit(w, w.din[x[1]], x[2])
                                IN u[2] = n /\ u[1] # "." /\ (u[1] = ".." => ~Gone(w, x[1]))}
LinksCounted(w) == \A n \in Inum : LET k == Cardinality(Links(w, n))
                                   IN IF n \in w.lost THEN k <= w.din[n].nlink ELSE k = w.din[n].nlink

(* Where a block is used. *)
Owners(w, b) == {x \in Inum \X (0 .. MAXFILE) :
                   LET d == w.din[x[1]]
                   IN d.type # None /\ b = IF x[2] = MAXFILE THEN d.addrs[NDIRECT] ELSE BlockAt(w, d, x[2])}
BlocksOwned(w) == \A b \in Block : Cardinality(Owners(w, b)) = IF b \in w.used THEN 1 ELSE 0
NoHoles(w) == \A n \in Inum : \A off \in 0 .. w.din[n].size - 1 :
                  /\ BlockAt(w, w.din[n], off \div BSIZE) # 0
                  /\ w.din[n].type = "FILE" => Unit(w, w.din[n], off)[1] = "d"

(* What a crash leaves is a file system: link counts equal the entries     *)
(* that name an inode, every block in use is in exactly one place of one   *)
(* inode and no other is marked, and files have data up to their sizes.    *)
(* The code gives up the first for what is created in a removed directory  *)
(* (create() and link() do not look at dp->nlink): lost.                   *)
Consistent == LinksCounted(safe) /\ BlocksOwned(safe) /\ NoHoles(safe)

(* iput() frees what has no links: an inode that is allocated without one  *)
(* is in the inode table, or ireclaim() has still to come to it.  The code *)
(* gives this up in one case: between iput()'s freeing of an inode and its *)
(* ref--, another process allocates the same inode, and removes it; the    *)
(* ref-- does not look again.  It is then leaked until the next boot.      *)
OrphansHeld ==
    \A n \in Inum : Orphan(fs, n) /\ n \notin fs.leaked =>
        \/ \E e \in Entry : fs.t[e].ref > 0 /\ fs.t[e].inum = n
        \/ \E p \in Proc : "ireclaim" \in {pr[p].pc, pr[p].next} /\ pr[p].i <= n
        \/ fs.panic # ""

Count(S) == Cardinality(S)
Held(e) ==
    FoldSet(LAMBDA p, k : k + Count({x \in {"cwd", "at", "ip"} : pr[p][x] = e})
                                   + Count({i \in DOMAIN pr[p].puts : pr[p].puts[i] = e}), 0, Proc)
      + Count({f \in File : ftable[f].ip = e})

(* The tables: an inode has one entry; ref counts the processes and files  *)
(* that hold it, and a file's the descriptors; an unlocked valid entry is  *)
(* what the disk has; iput() runs in a transaction.  No panic but one: the *)
(* ".." of a removed directory may be gone.                                *)
TableSound ==
    /\ \A e1, e2 \in Entry : fs.t[e1].ref > 0 /\ fs.t[e1].inum = fs.t[e2].inum => e1 = e2
    /\ \A e \in Entry : fs.t[e].ref = Held(e)
    /\ \A e \in Entry : fs.t[e].valid /\ fs.t[e].lock = None => fs.t[e].d = fs.din[fs.t[e].inum]
    /\ \A f \in File : ftable[f].ref = FoldSet(LAMBDA p, k : k + Count({fd \in 1 .. NOFILE : pr[p].ofile[fd] = f}), 0, Proc)
    /\ \A p \in Proc : pr[p].puts # <<>> => outstanding > 0
    /\ fs.panic # "" => fs.panic = "ilock: no type" /\ \E p \in Proc : pr[p].name = ".."

(* Inode locks are taken parent first: processes never wait for each other *)
(* in a circle, and none for itself.                                       *)
NoDeadlock ==
    \A S \in SUBSET Proc \ {{}} :
        \E p \in S : Wants(pr[p]) = 0 \/ fs.t[Wants(pr[p])].lock \notin S
=============================================================================
