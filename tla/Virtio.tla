------------------------------- MODULE Virtio -------------------------------
(***************************************************************************)
(* The disk driver of kernel/virtio_disk.c and the virtio device it talks  *)
(* to: feature negotiation, descriptor chains, the avail and used rings    *)
(* with their wrapping indices, the completion interrupt.                  *)
(*                                                                         *)
(* A driver step is a stretch of code under disk.vdisk_lock up to a sleep  *)
(* or the release; the device, which takes no lock, steps in between, and  *)
(* inside virtio_disk_intr().                                              *)
(*                                                                         *)
(* A copy of a block, in a buffer or on disk, is TRUE when it is what was  *)
(* last stored in the block.  A ring slot that its reader has consumed,    *)
(* and the command of a freed descriptor, are forgotten: None.             *)
(***************************************************************************)
EXTENDS Integers, Sequences, FiniteSets, SequencesExt

CONSTANTS
    Proc, Buf, Block,
    None,
    QueueSizes      \* the values of NUM to check

ASSUME VirtioAssumption == QueueSizes \subseteq Nat \ (0 .. 2)
Feature == {"RO", "EVENT_IDX"}

VARIABLES
    NUM,                    \* descriptors; never changes
    pc, mine, wr, head,     \* each process: where it is, its buf, write?, idx[0]
    buf,                    \* struct buf
    boot,                   \* "init", "up", or why the kernel panicked
    features,               \* as negotiated
    free, desc, ops, info, avail, used, used_idx,
    intr,                   \* virtio_disk_intr() runs, and holds vdisk_lock
    seen, inflight, irq, disk   \* the device

procVars == <<pc, mine, wr, head>>
ringVars == <<free, desc, ops, info, avail, used, used_idx>>
devVars == <<seen, inflight, irq, disk>>
vioVars == <<NUM, procVars, buf, boot, features, ringVars, intr, devVars>>

Desc == 0 .. NUM - 1

(* A ring index is a uint16, which wraps at a multiple of NUM. *)
IDXMOD == 2 * NUM

NextIdx(i) == (i + 1) % IDXMOD

FreeDesc == [next |-> None, addr |-> None]
NoOp == [write |-> FALSE, block |-> None]

VirtioInit ==
    /\ NUM \in QueueSizes
    /\ head = [p \in Proc |-> None] /\ wr = [p \in Proc |-> FALSE]
    /\ boot = "init" /\ features = {} /\ free = {}
    /\ desc = [i \in Desc |-> FreeDesc]
    /\ ops = [i \in Desc |-> NoOp]
    /\ info = [i \in Desc |-> [b |-> None, status |-> 0]]
    /\ avail = [ring |-> [i \in Desc |-> None], idx |-> 0] /\ used = avail /\ used_idx = 0
    /\ intr = FALSE
    /\ seen = 0 /\ inflight = {} /\ irq = FALSE /\ disk = [n \in Block |-> TRUE]

(* Mutation: EVENT_IDX is accepted as the device offers it. *)
KeepsEventIdx(offered) == offered \ {"RO"}
Negotiate(offered) == offered \ {"RO", "EVENT_IDX"}

(* virtio_disk_init(): any device may be there. *)
virtio_disk_init ==
    /\ boot = "init"
    /\ \E found, featuresOK, ready \in BOOLEAN, max \in {0, NUM - 1, NUM}, offered \in SUBSET Feature :
         IF found /\ featuresOK /\ ~ready /\ max >= NUM
         THEN boot' = "up" /\ features' = Negotiate(offered) /\ free' = Desc
         ELSE boot' = "panic: no disk" /\ UNCHANGED <<features, free>>
    /\ UNCHANGED <<NUM, procVars, buf, desc, ops, info, avail, used, used_idx, intr, devVars>>

-----------------------------------------------------------------------------
(* wakeup(&disk.free[0]), wakeup(b) *)
WakeFree(labels) == [p \in Proc |-> IF labels[p] = "descwait" THEN "rw" ELSE labels[p]]
WakeBuf(b) == [p \in Proc |-> IF pc[p] = "diskwait" /\ mine[p] = b THEN "rwwake" ELSE pc[p]]

(* alloc3_desc(): alloc_desc() takes the lowest free index. *)
alloc3_desc == LET i == Min(free)
                   j == Min(free \ {i})
               IN <<i, j, Min(free \ {i, j})>>

(* alloc3_desc() fails: the descriptors it did get are given back, which   *)
(* wakes the other processes that wait for one.                            *)
RwNoDesc(p) ==
    /\ boot = "up" /\ pc[p] = "rw" /\ ~intr
    /\ Cardinality(free) < 3
    /\ pc' = [(IF free = {} THEN pc ELSE WakeFree(pc)) EXCEPT ![p] = "descwait"]
    /\ UNCHANGED <<NUM, mine, wr, head, buf, boot, features, ringVars, intr, devVars>>

(* virtio_disk_rw() from a successful alloc3_desc() to the first sleep. *)
RwSubmit(p) ==
    /\ boot = "up" /\ pc[p] = "rw" /\ ~intr
    /\ Cardinality(free) >= 3
    /\ LET idx == alloc3_desc
           b == mine[p]
       IN /\ free' = free \ {idx[1], idx[2], idx[3]}
          /\ ops' = [ops EXCEPT ![idx[1]] = [write |-> wr[p], block |-> buf[b].blockno]]
          /\ desc' = [desc EXCEPT ![idx[1]].next = idx[2],
                                  ![idx[2]] = [next |-> idx[3], addr |-> b],
                                  ![idx[3]] = [next |-> None, addr |-> idx[1]]]
          /\ info' = [info EXCEPT ![idx[1]] = [b |-> b, status |-> 255]]
          /\ buf' = [buf EXCEPT ![b].disk = TRUE]
          /\ avail' = [ring |-> [avail.ring EXCEPT ![avail.idx % NUM] = idx[1]],
                       idx |-> NextIdx(avail.idx)]
          /\ head' = [head EXCEPT ![p] = idx[1]]
    /\ pc' = [pc EXCEPT ![p] = "diskwait"]
    /\ UNCHANGED <<NUM, mine, wr, boot, features, used, used_idx, intr, devVars>>

(* free_chain(): what is reached by following next. *)
Chain(i) == LET follow[j \in Desc] == {j} \cup IF desc[j].next = None THEN {} ELSE follow[desc[j].next]
            IN follow[i]

(* Mutation: only the head of the chain is freed. *)
FreesHead(i) == {i}
free_chain(i) == Chain(i)

(* Woken in virtio_disk_rw(): `while(b->disk == 1) sleep', then the chain  *)
(* is freed; bread() then sets b->valid.                                   *)
RwWake(p) ==
    /\ boot = "up" /\ pc[p] = "rwwake" /\ ~intr
    /\ IF buf[mine[p]].disk
       THEN /\ pc' = [pc EXCEPT ![p] = "diskwait"]
            /\ UNCHANGED <<boot, buf, head, info, free, desc, ops>>
       ELSE LET chain == free_chain(head[p])
            IN /\ info' = [info EXCEPT ![head[p]].b = None]
               /\ ops' = [ops EXCEPT ![head[p]] = NoOp]
               /\ free' = free \cup chain
               /\ boot' = IF chain \cap free = {} THEN "up" ELSE "panic: free_desc 2"
               /\ desc' = [i \in Desc |-> IF i \in chain THEN FreeDesc ELSE desc[i]]
               /\ buf' = [buf EXCEPT ![mine[p]].valid = @ \/ ~wr[p]]
               /\ head' = [head EXCEPT ![p] = None]
               /\ pc' = [WakeFree(pc) EXCEPT ![p] = IF wr[p] THEN "wrote" ELSE "hold"]
    /\ UNCHANGED <<NUM, mine, wr, features, avail, used, used_idx, intr, devVars>>

-----------------------------------------------------------------------------
(* virtio_disk_intr(): acknowledge, then serve the used ring to its end. *)

IntrEnter ==
    /\ boot = "up" /\ irq /\ ~intr
    /\ irq' = FALSE /\ intr' = TRUE
    /\ UNCHANGED <<NUM, procVars, buf, boot, features, ringVars, seen, inflight, disk>>

IntrServe ==
    /\ boot = "up" /\ intr /\ used_idx # used.idx
    /\ LET id == used.ring[used_idx % NUM]
           b == IF id = None THEN None ELSE info[id].b
       IN IF b = None \/ info[id].status # 0
          THEN boot' = "panic: virtio_disk_intr" /\ UNCHANGED <<buf, pc, used, used_idx>>
          ELSE /\ buf' = [buf EXCEPT ![b].disk = FALSE]
               /\ pc' = WakeBuf(b)
               /\ used' = [used EXCEPT !.ring[used_idx % NUM] = None]
               /\ used_idx' = NextIdx(used_idx)
               /\ UNCHANGED boot
    /\ UNCHANGED <<NUM, mine, wr, head, features, free, desc, ops, info, avail, intr, devVars>>

IntrExit ==
    /\ boot = "up" /\ intr /\ used_idx = used.idx
    /\ intr' = FALSE
    /\ UNCHANGED <<NUM, procVars, buf, boot, features, ringVars, devVars>>

-----------------------------------------------------------------------------
(* The device: takes the avail ring in order, finishes requests in any     *)
(* order.  It refuses to write a disk whose RO feature was accepted, and   *)
(* with EVENT_IDX it interrupts only when an event index (which this       *)
(* driver never writes) is reached.                                        *)

DevFetch ==
    /\ boot = "up" /\ seen # avail.idx
    /\ inflight' = inflight \cup {avail.ring[seen % NUM]}
    /\ avail' = [avail EXCEPT !.ring[seen % NUM] = None]
    /\ seen' = NextIdx(seen)
    /\ UNCHANGED <<NUM, procVars, buf, boot, features, free, desc, ops, info, used, used_idx, intr, irq, disk>>

DevFinish(h) ==
    /\ boot = "up" /\ h \in inflight
    /\ LET b == desc[desc[h].next].addr
           s == desc[desc[desc[h].next].next].addr
           n == ops[h].block
           refused == ops[h].write /\ "RO" \in features
       IN /\ disk' = IF ops[h].write /\ ~refused THEN [disk EXCEPT ![n] = buf[b].data] ELSE disk
          /\ buf' = IF ops[h].write THEN buf ELSE [buf EXCEPT ![b].data = disk[n]]
          /\ info' = [info EXCEPT ![s].status = IF refused THEN 1 ELSE 0]
    /\ used' = [ring |-> [used.ring EXCEPT ![used.idx % NUM] = h], idx |-> NextIdx(used.idx)]
    /\ inflight' = inflight \ {h}
    /\ irq' = (irq \/ "EVENT_IDX" \notin features)
    /\ UNCHANGED <<NUM, procVars, boot, features, free, desc, ops, avail, used_idx, intr, seen>>
=============================================================================
