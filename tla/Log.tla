--------------------------------- MODULE Log ---------------------------------
(***************************************************************************)
(* The write-ahead log of kernel/log.c: begin_op, log_write, end_op with   *)
(* commit, and recovery at boot, with a crash possible between any two     *)
(* disk writes.                                                            *)
(*                                                                         *)
(* One step is a critical section of log.lock, or one bwrite() (disk       *)
(* writes are synchronous, and a block is written as a whole or not at     *)
(* all).  The buffer cache is what log.c relies on: a buffer that is       *)
(* neither locked nor pinned may be recycled at any time.                  *)
(***************************************************************************)
EXTENDS Naturals, Sequences, FiniteSets, FiniteSetsExt

CONSTANTS
    Proc, Block,
    LOGBLOCKS, MAXOPBLOCKS,
    OpBlocks,       \* how many different blocks an operation logs at most
    MaxOps          \* bound: operations, over all processes and reboots

ASSUME LogAssumption ==
    /\ {LOGBLOCKS, MAXOPBLOCKS, OpBlocks, MaxOps} \subseteq Nat \ {0}
    /\ MAXOPBLOCKS <= LOGBLOCKS /\ OpBlocks <= MAXOPBLOCKS
    /\ IsFiniteSet(Proc)

Data == 0 .. MaxOps         \* the number of the operation that wrote a block
NotCached == MaxOps + 1
Entry == 1 .. LOGBLOCKS

VARIABLES
    (* on disk *)
    home, logdata, head,        \* blocks, log blocks, log header
    (* in memory *)
    cache, pins,                \* bcache: contents, and refcnt by bpin()
    lh, outstanding, committing,
    boot,                       \* fsinit(): read, install; then up
    pc, op, logged,             \* each process; its operation, the blocks it wrote
    tail,                       \* of the loop in commit() or recovery
    ops                         \* operations so far

disk == <<home, logdata, head>>
logVars == <<lh, outstanding, committing>>
procVars == <<pc, op, logged>>
vars == <<disk, cache, pins, logVars, boot, procVars, tail, ops>>

(* out: in no operation; begin, asleep: in begin_op(); in: in an           *)
(* operation; log, install, end: in end_op().                              *)
Labels == {"out", "begin", "asleep", "in", "log", "install", "end"}

TypeOK ==
    /\ home \in [Block -> Data] /\ logdata \in [Entry -> Data]
    /\ cache \in [Block -> Data \cup {NotCached}] /\ pins \in [Block -> Nat]
    /\ \A s \in {head, lh} : Len(s) <= LOGBLOCKS /\ \A k \in 1 .. Len(s) : s[k] \in Block
    /\ outstanding \in 0 .. Cardinality(Proc) /\ committing \in BOOLEAN
    /\ boot \in {"read", "install", "up"}
    /\ pc \in [Proc -> Labels] /\ op \in [Proc -> Data]
    /\ logged \in [Proc -> SUBSET Block]
    /\ tail \in 1 .. LOGBLOCKS + 1 /\ ops \in Data

(* A disk made by mkfs: the log is empty. *)
Init ==
    /\ home = [b \in Block |-> 0] /\ logdata = [k \in Entry |-> 0] /\ head = <<>>
    /\ cache = [b \in Block |-> NotCached] /\ pins = [b \in Block |-> 0]
    /\ lh = <<>> /\ outstanding = 0 /\ committing = FALSE
    /\ boot = "read"
    /\ pc = [p \in Proc |-> "out"] /\ op = [p \in Proc |-> 0]
    /\ logged = [p \in Proc |-> {}]
    /\ tail = 1 /\ ops = 0

-----------------------------------------------------------------------------
(* fsinit(): recover_from_log().  Nothing else runs. *)

ReadHead ==
    /\ boot = "read"
    /\ lh' = head
    /\ tail' = 1
    /\ boot' = "install"
    /\ UNCHANGED <<disk, cache, pins, outstanding, committing, procVars, ops>>

(* install_trans(1), one block. *)
RecoverInstall ==
    /\ boot = "install" /\ tail <= Len(lh)
    /\ home' = [home EXCEPT ![lh[tail]] = logdata[tail]]
    /\ cache' = [cache EXCEPT ![lh[tail]] = logdata[tail]]
    /\ tail' = tail + 1
    /\ UNCHANGED <<logdata, head, pins, logVars, boot, procVars, ops>>

RecoverClear ==
    /\ boot = "install" /\ tail > Len(lh)
    /\ lh' = <<>>
    /\ head' = <<>>
    /\ tail' = 1
    /\ boot' = "up"
    /\ UNCHANGED <<home, logdata, cache, pins, outstanding, committing,
                   procVars, ops>>

-----------------------------------------------------------------------------
(* An operation of the file system *)

CallBeginOp(p) ==
    /\ boot = "up" /\ pc[p] = "out" /\ ops < MaxOps
    /\ ops' = ops + 1
    /\ op' = [op EXCEPT ![p] = ops + 1]
    /\ pc' = [pc EXCEPT ![p] = "begin"]
    /\ UNCHANGED <<disk, cache, pins, logVars, boot, logged, tail>>

(* Mutation: the space the caller itself may need is forgotten. *)
MayBeginTight ==
    ~committing /\ Len(lh) + outstanding * MAXOPBLOCKS <= LOGBLOCKS

MayBegin ==
    ~committing /\ Len(lh) + (outstanding + 1) * MAXOPBLOCKS <= LOGBLOCKS

BeginOp(p) ==
    /\ pc[p] = "begin" /\ MayBegin
    /\ outstanding' = outstanding + 1
    /\ pc' = [pc EXCEPT ![p] = "in"]
    /\ UNCHANGED <<disk, cache, pins, lh, committing, boot, op, logged, tail, ops>>

BeginSleep(p) ==
    /\ pc[p] = "begin" /\ ~MayBegin
    /\ pc' = [pc EXCEPT ![p] = "asleep"]
    /\ UNCHANGED <<disk, cache, pins, logVars, boot, op, logged, tail, ops>>

(* bread(b), a change of b->data, log_write(b), brelse(b); b is locked all *)
(* the time, and no commit can come between.                               *)
LogWrite(p, b) ==
    LET new == \A k \in 1 .. Len(lh) : lh[k] # b IN
    /\ pc[p] = "in"
    /\ b \in logged[p] \/ Cardinality(logged[p]) < OpBlocks
    /\ Len(lh) < LOGBLOCKS         \* else panic
    /\ cache' = [cache EXCEPT ![b] = op[p]]
    /\ logged' = [logged EXCEPT ![p] = @ \cup {b}]
    /\ IF new THEN lh' = Append(lh, b) /\ pins' = [pins EXCEPT ![b] = @ + 1]
              ELSE UNCHANGED <<lh, pins>>
    /\ UNCHANGED <<disk, outstanding, committing, boot, pc, op, tail, ops>>

(* wakeup(&log), applied to the new pc of the caller *)
WakeLog(f) == [q \in Proc |-> IF f[q] = "asleep" THEN "begin" ELSE f[q]]

(* end_op() that leaves others to commit. *)
EndOp(p) ==
    /\ pc[p] = "in" /\ outstanding > 1
    /\ outstanding' = outstanding - 1
    /\ pc' = WakeLog([pc EXCEPT ![p] = "out"])
    /\ logged' = [logged EXCEPT ![p] = {}]
    /\ UNCHANGED <<disk, cache, pins, lh, committing, boot, op, tail, ops>>

(* The last one commits, if there is anything to commit. *)
EndOpLast(p) ==
    /\ pc[p] = "in" /\ outstanding = 1
    /\ outstanding' = 0
    /\ committing' = TRUE
    /\ tail' = 1
    /\ pc' = [pc EXCEPT ![p] = IF lh = <<>> THEN "end" ELSE "log"]
    /\ logged' = [logged EXCEPT ![p] = {}]
    /\ UNCHANGED <<disk, cache, pins, lh, boot, op, ops>>

(* write_log(), one block: from the cache, or from disk were it not there. *)
Contents(b) == IF cache[b] = NotCached THEN home[b] ELSE cache[b]

WriteLog(p) ==
    /\ pc[p] = "log" /\ tail <= Len(lh)
    /\ logdata' = [logdata EXCEPT ![tail] = Contents(lh[tail])]
    /\ cache' = [cache EXCEPT ![lh[tail]] = Contents(lh[tail])]
    /\ tail' = tail + 1
    /\ UNCHANGED <<home, head, pins, logVars, boot, procVars, ops>>

(* Mutation: the header is written before the last log block. *)
WriteHeadEarly(p) ==
    /\ pc[p] = "log" /\ tail >= Len(lh)
    /\ head' = lh
    /\ tail' = 1
    /\ pc' = [pc EXCEPT ![p] = "install"]
    /\ UNCHANGED <<home, logdata, cache, pins, logVars, boot, op, logged, ops>>

(* write_head(): the commit. *)
WriteHead(p) ==
    /\ pc[p] = "log" /\ tail > Len(lh)
    /\ head' = lh
    /\ tail' = 1
    /\ pc' = [pc EXCEPT ![p] = "install"]
    /\ UNCHANGED <<home, logdata, cache, pins, logVars, boot, op, logged, ops>>

(* Mutation: the buffer stays pinned. *)
InstallTransPinned(p) ==
    /\ pc[p] = "install" /\ tail <= Len(lh)
    /\ home' = [home EXCEPT ![lh[tail]] = logdata[tail]]
    /\ cache' = [cache EXCEPT ![lh[tail]] = logdata[tail]]
    /\ tail' = tail + 1
    /\ UNCHANGED <<logdata, head, pins, logVars, boot, procVars, ops>>

(* install_trans(0), one block. *)
InstallTrans(p) ==
    /\ pc[p] = "install" /\ tail <= Len(lh)
    /\ home' = [home EXCEPT ![lh[tail]] = logdata[tail]]
    /\ cache' = [cache EXCEPT ![lh[tail]] = logdata[tail]]
    /\ pins' = [pins EXCEPT ![lh[tail]] = @ - 1]
    /\ tail' = tail + 1
    /\ UNCHANGED <<logdata, head, logVars, boot, procVars, ops>>

(* log.lh.n = 0; write_head() *)
ClearHead(p) ==
    /\ pc[p] = "install" /\ tail > Len(lh)
    /\ lh' = <<>>
    /\ head' = <<>>
    /\ tail' = 1
    /\ pc' = [pc EXCEPT ![p] = "end"]
    /\ UNCHANGED <<home, logdata, cache, pins, outstanding, committing, boot,
                   op, logged, ops>>

(* Mutation: nobody is woken. *)
EndCommitSilent(p) ==
    /\ pc[p] = "end"
    /\ committing' = FALSE
    /\ pc' = [pc EXCEPT ![p] = "out"]
    /\ UNCHANGED <<disk, cache, pins, lh, outstanding, boot, op, logged, tail, ops>>

EndCommit(p) ==
    /\ pc[p] = "end"
    /\ committing' = FALSE
    /\ pc' = WakeLog([pc EXCEPT ![p] = "out"])
    /\ UNCHANGED <<disk, cache, pins, lh, outstanding, boot, op, logged, tail, ops>>

-----------------------------------------------------------------------------
(* The buffer cache, and the machine *)

Bread(b) ==
    /\ boot = "up" /\ cache[b] = NotCached
    /\ cache' = [cache EXCEPT ![b] = home[b]]
    /\ UNCHANGED <<disk, pins, logVars, boot, procVars, tail, ops>>

Recycle(b) ==
    /\ cache[b] # NotCached /\ pins[b] = 0
    /\ cache' = [cache EXCEPT ![b] = NotCached]
    /\ UNCHANGED <<disk, pins, logVars, boot, procVars, tail, ops>>

(* Memory is lost, the disk is not. *)
Crash ==
    /\ cache' = [b \in Block |-> NotCached] /\ pins' = [b \in Block |-> 0]
    /\ lh' = <<>> /\ outstanding' = 0 /\ committing' = FALSE
    /\ boot' = "read"
    /\ pc' = [p \in Proc |-> "out"] /\ op' = [p \in Proc |-> 0]
    /\ logged' = [p \in Proc |-> {}]
    /\ tail' = 1
    /\ UNCHANGED <<disk, ops>>

BeginStep(p) == BeginOp(p) \/ BeginSleep(p)

EndStep(p) ==
    \/ EndOp(p) \/ EndOpLast(p)
    \/ WriteLog(p) \/ WriteHead(p) \/ InstallTrans(p) \/ ClearHead(p) \/ EndCommit(p)

Next ==
    \/ ReadHead \/ RecoverInstall \/ RecoverClear
    \/ \E p \in Proc : \/ CallBeginOp(p) \/ BeginStep(p) \/ EndStep(p)
                       \/ \E b \in Block : LogWrite(p, b)
    \/ \E b \in Block : Bread(b) \/ Recycle(b)
    \/ Crash

Spec == Init /\ [][Next]_vars

(* A process in begin_op() or end_op() keeps running, and every operation  *)
(* comes to its end_op().                                                  *)
FairSpec == Spec /\ \A p \in Proc : WF_vars(BeginStep(p)) /\ WF_vars(EndStep(p))
-----------------------------------------------------------------------------
(* Properties *)

(* The disk as recovery would leave it. *)
Recovered ==
    [b \in Block |->
        LET at == {k \in 1 .. Len(head) : head[k] = b}
        IN  IF at = {} THEN home[b] ELSE logdata[Max(at)]]

(* All of log.c implements AtomicDisk: operations in progress, contents    *)
(* seen through the cache, contents after a crash.  The commit is the      *)
(* write_head() of commit(), the write of a whole transaction, whatever    *)
(* the crash.                                                              *)
Atomic == INSTANCE AtomicDisk WITH
    Data0 <- 0,
    active <- {p \in Proc : pc[p] = "in"},
    current <- IF boot = "up" THEN [b \in Block |-> Contents(b)] ELSE Recovered,
    stable <- Recovered

AtomicSpec == Atomic!Spec

(* begin_op() reserves: there is room in the log for all that the          *)
(* operations in progress may still add.                                   *)
LogSpace ==
    TypeOK /\
    LET may(p) == IF pc[p] = "in" THEN MAXOPBLOCKS - Cardinality(logged[p]) ELSE 0
    IN  Len(lh) + MapThenSumSet(may, Proc) <= LOGBLOCKS

(* Once every operation has returned from end_op(), all is on disk, and no *)
(* buffer is pinned any more.                                              *)
Durable ==
    boot = "up" /\ outstanding = 0 /\ ~committing =>
        /\ head = <<>>
        /\ \A b \in Block : Contents(b) = home[b] /\ pins[b] = 0

(* begin_op() returns: no wakeup is lost, neither of those for space nor   *)
(* of those for the end of a commit.                                       *)
BeginReturns ==
    \A p \in Proc : pc[p] \in {"begin", "asleep"} ~> pc[p] \in {"in", "out"}
=============================================================================
