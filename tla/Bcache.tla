------------------------------- MODULE Bcache -------------------------------
(***************************************************************************)
(* The buffer cache of kernel/bio.c and the sleep locks of                 *)
(* kernel/sleeplock.c, on top of the driver and the device of Virtio.      *)
(*                                                                         *)
(* A step is a critical section of bcache.lock or of a sleep lock's lk.    *)
(* A process holds at most one buffer, and treats it as log.c and fs.c do: *)
(* what it stored is written, or pinned for the commit, before the release.*)
(***************************************************************************)
EXTENDS Virtio

VARIABLES
    lru,            \* bcache.head: most recently used first
    pinned          \* blocks with a bpin() not yet undone (those in the log)

vars == <<vioVars, lru, pinned>>

BufRec == [valid : BOOLEAN, disk : BOOLEAN, blockno : Block \cup {None},
           locked : Proc \cup {None}, refcnt : Nat, data : BOOLEAN]

(* In acquiresleep(): lock, lockwait.  In virtio_disk_rw(): rw,            *)
(* descwait, diskwait, rwwake.  Holding the buffer: hold, wrote.  In       *)
(* brelse(), the sleep lock released: drop.                                *)
Holding == {"rw", "descwait", "diskwait", "rwwake", "hold", "wrote"}
Labels == Holding \cup {"idle", "lock", "lockwait", "drop"}

(* The types of the cache, the driver and the device. *)
TypeOK ==
    /\ pc \in [Proc -> Labels] /\ mine \in [Proc -> Buf \cup {None}]
    /\ wr \in [Proc -> BOOLEAN] /\ head \in [Proc -> Desc \cup {None}]
    /\ buf \in [Buf -> BufRec] /\ disk \in [Block -> BOOLEAN]
    /\ features \subseteq Feature /\ free \subseteq Desc /\ inflight \subseteq Desc
    /\ {avail.idx, used.idx, used_idx, seen} \subseteq 0 .. IDXMOD - 1
    /\ intr \in BOOLEAN /\ irq \in BOOLEAN
    /\ Len(lru) = Cardinality(Buf) /\ Range(lru) = Buf
    /\ pinned \subseteq Block

(* binit(): dev is 0 in every buffer, which is no device. *)
Init ==
    /\ VirtioInit
    /\ pc = [p \in Proc |-> "idle"] /\ mine = [p \in Proc |-> None]
    /\ buf = [b \in Buf |-> [valid |-> FALSE, disk |-> FALSE, blockno |-> None,
                             locked |-> None, refcnt |-> 0, data |-> FALSE]]
    /\ lru \in SetToSeqs(Buf)
    /\ pinned = {}

Up == boot = "up"

-----------------------------------------------------------------------------
Cached(n) == {i \in 1 .. Len(lru) : buf[lru[i]].blockno = n}

UnusedSlots == {i \in 1 .. Len(lru) : buf[lru[i]].refcnt = 0}

(* bget(): found, or the least recently used unused buffer, or a panic;    *)
(* acquiresleep() is next.                                                 *)
bget(p, n) ==
    /\ Up /\ pc[p] = "idle"
    /\ IF Cached(n) = {} /\ UnusedSlots = {}
       THEN boot' = "panic: no buffers" /\ UNCHANGED <<buf, mine, pc>>
       ELSE LET b == lru[IF Cached(n) # {} THEN Min(Cached(n)) ELSE Max(UnusedSlots)]
            IN /\ buf' = [buf EXCEPT ![b] =
                            IF Cached(n) # {} THEN [@ EXCEPT !.refcnt = @ + 1]
                            ELSE [@ EXCEPT !.blockno = n, !.valid = FALSE, !.refcnt = 1]]
               /\ mine' = [mine EXCEPT ![p] = b]
               /\ pc' = [pc EXCEPT ![p] = "lock"]
               /\ UNCHANGED boot
    /\ UNCHANGED <<NUM, wr, head, features, ringVars, intr, devVars, lru, pinned>>

MayLock(p) == buf[mine[p]].locked = None

(* acquiresleep(); bread() then reads the disk unless b->valid. *)
AcquireSleep(p) ==
    /\ Up /\ pc[p] = "lock"
    /\ LET b == mine[p]
       IN IF ~MayLock(p)
          THEN pc' = [pc EXCEPT ![p] = "lockwait"] /\ UNCHANGED <<buf, wr>>
          ELSE /\ buf' = [buf EXCEPT ![b].locked = p]
               /\ wr' = [wr EXCEPT ![p] = FALSE]
               /\ pc' = [pc EXCEPT ![p] = IF buf[b].valid THEN "hold" ELSE "rw"]
    /\ UNCHANGED <<NUM, mine, head, boot, features, ringVars, intr, devVars, lru, pinned>>

(* The holder stores into b->data: every other copy is then out of date. *)
Stored(b) == [c \in Buf |-> IF buf[c].blockno = buf[b].blockno
                            THEN [buf[c] EXCEPT !.data = (c = b)] ELSE buf[c]]

(* bwrite(): of new data, or of a pinned block by log.c's commit. *)
bwrite(p) ==
    /\ Up /\ pc[p] = "hold"
    /\ LET b == mine[p]
       IN \E store \in BOOLEAN :
            /\ store \/ buf[b].blockno \in pinned
            /\ buf' = IF store THEN Stored(b) ELSE buf
            /\ disk' = IF store THEN [disk EXCEPT ![buf[b].blockno] = FALSE] ELSE disk
    /\ IF buf[mine[p]].locked = p
       THEN /\ wr' = [wr EXCEPT ![p] = TRUE] /\ pc' = [pc EXCEPT ![p] = "rw"]
            /\ UNCHANGED boot
       ELSE boot' = "panic: bwrite" /\ UNCHANGED <<wr, pc>>
    /\ UNCHANGED <<NUM, mine, head, features, ringVars, intr, seen, inflight, irq, lru, pinned>>

Pins(n) == IF n \in pinned THEN 0 ELSE 1

(* log_write(): new data, and bpin() the first time. *)
bpin(p) ==
    /\ Up /\ pc[p] = "hold"
    /\ LET b == mine[p]
           n == buf[b].blockno
       IN /\ buf' = [Stored(b) EXCEPT ![b].refcnt = @ + Pins(n)]
          /\ disk' = [disk EXCEPT ![n] = FALSE]
          /\ pinned' = pinned \cup {n}
    /\ UNCHANGED <<NUM, procVars, boot, features, ringVars, intr, seen, inflight, irq, lru>>

(* Mutation: the commit unpins a block before it is written home. *)
UnpinsUnwritten(p) == pc[p] \in {"wrote", "hold"}
MayUnpin(p) == pc[p] = "wrote"

(* install_trans() unpins after its bwrite(). *)
bunpin(p) ==
    /\ Up /\ MayUnpin(p) /\ buf[mine[p]].blockno \in pinned
    /\ buf' = [buf EXCEPT ![mine[p]].refcnt = @ - 1]
    /\ pinned' = pinned \ {buf[mine[p]].blockno}
    /\ pc' = [pc EXCEPT ![p] = "hold"]
    /\ UNCHANGED <<NUM, mine, wr, head, boot, features, ringVars, intr, devVars, lru>>

(* Mutation: the sleep lock is released without a wakeup. *)
NoWakeLock(b) == pc
WakeLock(b) == [p \in Proc |-> IF pc[p] = "lockwait" /\ mine[p] = b THEN "lock" ELSE pc[p]]

(* brelse(): releasesleep() ... *)
brelse(p) ==
    /\ Up /\ pc[p] \in {"hold", "wrote"}
    /\ IF buf[mine[p]].locked = p
       THEN /\ buf' = [buf EXCEPT ![mine[p]].locked = None]
            /\ pc' = [WakeLock(mine[p]) EXCEPT ![p] = "drop"]
            /\ UNCHANGED boot
       ELSE boot' = "panic: brelse" /\ UNCHANGED <<buf, pc>>
    /\ UNCHANGED <<NUM, mine, wr, head, features, ringVars, intr, devVars, lru, pinned>>

(* ... then the reference, under bcache.lock. *)
BrelseDrop(p) ==
    /\ Up /\ pc[p] = "drop"
    /\ LET b == mine[p]
       IN /\ buf' = [buf EXCEPT ![b].refcnt = @ - 1]
          /\ lru' = IF buf[b].refcnt = 1 THEN <<b>> \o SelectSeq(lru, LAMBDA c : c # b) ELSE lru
    /\ mine' = [mine EXCEPT ![p] = None]
    /\ pc' = [pc EXCEPT ![p] = "idle"]
    /\ UNCHANGED <<NUM, wr, head, boot, features, ringVars, intr, devVars, pinned>>

(* panic() spins forever. *)
Panicked == boot \notin {"init", "up"} /\ UNCHANGED vars

Driver(p) == RwNoDesc(p) \/ RwSubmit(p) \/ RwWake(p)
Device == DevFetch \/ \E h \in Desc : DevFinish(h)
Interrupt == IntrEnter \/ IntrServe \/ IntrExit
Cache(p) == \/ \E n \in Block : bget(p, n)
            \/ AcquireSleep(p) \/ bwrite(p) \/ bpin(p) \/ bunpin(p)
            \/ brelse(p) \/ BrelseDrop(p)
Above == <<lru, pinned>>

Next ==
    \/ virtio_disk_init /\ UNCHANGED Above
    \/ \E p \in Proc : Driver(p) /\ UNCHANGED Above
    \/ Device /\ UNCHANGED Above
    \/ Interrupt /\ UNCHANGED Above
    \/ \E p \in Proc : Cache(p)
    \/ Panicked

Spec == Init /\ [][Next]_vars

-----------------------------------------------------------------------------
(* No lost update, no stale read: a block never has two buffers, whoever   *)
(* looked for it at the same time; what bread() hands to a process is what *)
(* was last stored in the block, through recycling, pinning and the disk;  *)
(* and a block that no buffer has is on disk as last stored.               *)
LatestData ==
    /\ TypeOK
    /\ \A b, c \in Buf : buf[b].blockno # None /\ buf[b].blockno = buf[c].blockno => b = c
    /\ \A p \in Proc : pc[p] \in {"hold", "wrote"} => buf[mine[p]].data
    /\ \A n \in Block : (\A b \in Buf : buf[b].blockno # n) => disk[n]

(* Nothing is leaked or owned twice: a reference count is the number of    *)
(* processes in bread()..brelse() and pins, a descriptor is free or in the *)
(* chain of one request, a sleep lock has the holder it names.  So of the  *)
(* panics of bio.c and the driver only "no buffers" (and the ones of a     *)
(* machine without a disk) is left: no descriptor is freed twice, and the  *)
(* device, since RO was not negotiated, never fails a request.             *)
ResourcesCounted ==
    LET owner(p) == IF head[p] = None THEN {} ELSE Chain(head[p])
    IN /\ \A b \in Buf : buf[b].refcnt = Cardinality({p \in Proc : mine[p] = b})
                                         + (IF buf[b].blockno \in pinned THEN 1 ELSE 0)
       /\ Up => /\ \A p, q \in Proc : p # q => owner(p) \cap owner(q) = {}
                /\ free = Desc \ UNION {owner(p) : p \in Proc}
       /\ \A p \in Proc : pc[p] \in Holding => buf[mine[p]].locked = p
       /\ boot \in {"init", "up", "panic: no disk", "panic: no buffers"}

(* The ring indices from one to another. *)
Ahead(from, to) == {i \in 0 .. IDXMOD - 1 : (i - from) % IDXMOD < (to - from) % IDXMOD}

(* No completion is lost, though virtio_disk_intr() races with the device: *)
(* while a process sleeps for its transfer, the request is still to be     *)
(* fetched, or in flight, or in the used ring behind used_idx with an      *)
(* interrupt raised or its handler running.                                *)
CompletionPending ==
    Up => \A p \in Proc : pc[p] = "diskwait" =>
        \/ \E i \in Ahead(seen, avail.idx) : avail.ring[i % NUM] = head[p]
        \/ head[p] \in inflight
        \/ (irq \/ intr) /\ \E i \in Ahead(used_idx, used.idx) : used.ring[i % NUM] = head[p]

(* Every other sleeper is woken too: who sleeps for descriptors sleeps     *)
(* while a request holds them, which wakes it when it frees them; who      *)
(* sleeps for a buffer's lock sleeps while somebody holds it.              *)
SleepersWoken ==
    Up => \A p \in Proc :
        /\ pc[p] = "descwait" => \E q \in Proc : pc[q] \in {"rw", "diskwait", "rwwake"}
        /\ pc[p] = "lockwait" => buf[mine[p]].locked # None
=============================================================================
