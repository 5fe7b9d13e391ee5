-------------------------------- MODULE Proc --------------------------------
(***************************************************************************)
(* The life of a process: kernel/proc.c's process table, the round-robin   *)
(* scheduler loop, fork / exit / wait / kill, sleep and wakeup, and the    *)
(* hand-over of p->lock across swtch().                                    *)
(*                                                                         *)
(* Every CPU runs one thread at a time: its own scheduler thread or the    *)
(* kernel thread of one process.  A step is what one CPU does between two  *)
(* lock operations.  A section acquire(&p->lock) ... release(&p->lock)     *)
(* that takes no further lock is one step, guarded by the lock being free; *)
(* a lock that stays held across steps (wait_lock in exit and wait, p->lock*)
(* across swtch) is a variable.  The files, the memory and the scheduling  *)
(* statistics a process owns are left to other modules.                    *)
(***************************************************************************)
EXTENDS Naturals, FiniteSets

CONSTANTS
    CPU,        \* the harts
    NPROC,      \* size of the process table
    MaxPid,     \* bound: pids handed out before allocproc is made to fail
    KillPids    \* the arguments programs pass to kill()

(* Pid 1 is init, whose killing is the kernel's own end (kexit panics with *)
(* "init exiting"); programs are assumed not to ask for it.                *)
ASSUME ProcAssumption ==
    /\ 0 \notin CPU
    /\ NPROC \in Nat \ {0}
    /\ MaxPid \in Nat \ {0}
    /\ KillPids \subseteq Nat \ {1}

Null == 0
Slot == 1 .. NPROC
Index == 1 .. NPROC + 1     \* of a loop over proc[], its end included
initproc == 1

VARIABLES
    (* struct proc, indexed by the slot in proc[] *)
    state, chan, killed, pid, parent,
    lock,       \* p->lock: the CPU that holds it, or Null
    wait_lock,  \* the CPU that holds wait_lock, or Null
    nextpid,
    (* struct cpu and the scheduler thread's loop variable *)
    proc,       \* c->proc
    thread,     \* the process whose kernel stack CPU c is on; Null: the scheduler's
    scan,       \* p of the loop in schedule_rr
    (* the kernel thread of each process *)
    pc,         \* where it is
    ret,        \* where it goes on when the sched() it called returns
    i,          \* index of the table scan it is in
    arg,        \* kfork: np; kkill: pid
    havekids    \* kwait: havekids

procVars == <<state, chan, killed, pid, parent, lock, wait_lock, nextpid>>
cpuVars == <<proc, thread, scan>>
threadVars == <<pc, ret, i, arg, havekids>>
vars == <<procVars, cpuVars, threadVars>>

States == {"UNUSED", "USED", "SLEEPING", "RUNNABLE", "RUNNING", "ZOMBIE"}

(* Control points at which a kernel thread holds no spinlock, so that      *)
(* interrupts are on and the timer can make it yield().                    *)
Interruptible == {"user", "kfork", "fork_parent", "fork_run", "kexit",
                  "kwait", "kkill", "trapret"}

(* Inside kexit() or kwait() with wait_lock held. *)
Waiting == {"reparent", "wakeinit", "wakeparent", "zombie",
            "wait_scan", "wait_sleep"}

Labels == Interruptible \cup Waiting \cup {"sched", "resume", "none"}

TypeOK ==
    /\ state \in [Slot -> States]
    /\ chan \in [Slot -> Slot \cup {Null}]
    /\ killed \in [Slot -> BOOLEAN]
    /\ pid \in [Slot -> Nat]
    /\ parent \in [Slot -> Slot \cup {Null}]
    /\ lock \in [Slot -> CPU \cup {Null}]
    /\ wait_lock \in CPU \cup {Null}
    /\ nextpid \in Nat
    /\ proc \in [CPU -> Slot \cup {Null}]
    /\ thread \in [CPU -> Slot \cup {Null}]
    /\ scan \in [CPU -> Slot]
    /\ pc \in [Slot -> Labels]
    /\ ret \in [Slot -> Interruptible \cup {"slept", "none"}]
    /\ i \in [Slot -> Index]
    /\ arg \in [Slot -> Nat]
    /\ havekids \in [Slot -> BOOLEAN]

-----------------------------------------------------------------------------

(* After procinit() and userinit(): slot 1 holds init, about to be run for *)
(* the first time; every CPU is at the top of scheduler().                 *)
Init ==
    /\ state = [p \in Slot |-> IF p = initproc THEN "RUNNABLE" ELSE "UNUSED"]
    /\ chan = [p \in Slot |-> Null]
    /\ killed = [p \in Slot |-> FALSE]
    /\ pid = [p \in Slot |-> IF p = initproc THEN 1 ELSE 0]
    /\ parent = [p \in Slot |-> Null]
    /\ lock = [p \in Slot |-> Null]
    /\ wait_lock = Null
    /\ nextpid = 2
    /\ proc = [c \in CPU |-> Null]
    /\ thread = [c \in CPU |-> Null]
    /\ scan = [c \in CPU |-> 1]
    /\ pc = [p \in Slot |-> IF p = initproc THEN "resume" ELSE "none"]
    /\ ret = [p \in Slot |-> IF p = initproc THEN "user" ELSE "none"]
    /\ i = [p \in Slot |-> 1]
    /\ arg = [p \in Slot |-> 0]
    /\ havekids = [p \in Slot |-> FALSE]

(* CPU c runs the kernel thread of p, which is at label l. *)
At(c, p, l) == thread[c] = p /\ pc[p] = l

Goto(p, l) == pc' = [pc EXCEPT ![p] = l]

(* The system call or trap is over; the locals of its frames are gone. *)
Return(p) ==
    /\ Goto(p, "trapret")
    /\ i' = [i EXCEPT ![p] = 1]
    /\ arg' = [arg EXCEPT ![p] = 0]
    /\ havekids' = [havekids EXCEPT ![p] = FALSE]
    /\ UNCHANGED ret

-----------------------------------------------------------------------------
(* usertrap() *)

(* A system call other than kill.  init never calls exit (user/init.c      *)
(* loops over wait()).                                                     *)
Syscall(c, p, call) ==
    /\ At(c, p, "user")
    /\ lock[p] = Null
    /\ ~killed[p]
    /\ call = "kexit" => p # initproc
    /\ Goto(p, call)
    /\ UNCHANGED <<procVars, cpuVars, ret, i, arg, havekids>>

(* kill(n) *)
SysKill(c, p, n) ==
    /\ At(c, p, "user")
    /\ lock[p] = Null
    /\ ~killed[p]
    /\ Goto(p, "kkill")
    /\ arg' = [arg EXCEPT ![p] = n]
    /\ UNCHANGED <<procVars, cpuVars, ret, i, havekids>>

(* Any trap, a system call or the timer, of a process found killed(p):     *)
(* kexit(-1).                                                              *)
TrapKilled(c, p) ==
    /\ At(c, p, "user")
    /\ lock[p] = Null
    /\ killed[p]
    /\ Goto(p, "kexit")
    /\ UNCHANGED <<procVars, cpuVars, ret, i, arg, havekids>>

(* An exception in user space: setkilled(p). *)
UserFault(c, p) ==
    /\ At(c, p, "user")
    /\ p # initproc
    /\ lock[p] = Null
    /\ killed' = [killed EXCEPT ![p] = TRUE]
    /\ Goto(p, "trapret")
    /\ UNCHANGED <<state, chan, pid, parent, lock, wait_lock, nextpid,
                   cpuVars, ret, i, arg, havekids>>

(* The end of usertrap(): a killed process does not return to user space. *)
TrapReturn(c, p) ==
    /\ At(c, p, "trapret")
    /\ lock[p] = Null
    /\ Goto(p, IF killed[p] THEN "kexit" ELSE "user")
    /\ UNCHANGED <<procVars, cpuVars, ret, i, arg, havekids>>

(* A timer interrupt where interrupts are on: yield(), from usertrap() or  *)
(* from kerneltrap().  usertrap() looks at killed(p) first.                *)
Yield(c, p) ==
    /\ thread[c] = p
    /\ pc[p] \in Interruptible
    /\ ~(pc[p] = "user" /\ killed[p])
    /\ lock[p] = Null
    /\ lock' = [lock EXCEPT ![p] = c]
    /\ state' = [state EXCEPT ![p] = "RUNNABLE"]
    /\ ret' = [ret EXCEPT ![p] = pc[p]]
    /\ Goto(p, "sched")
    /\ UNCHANGED <<chan, killed, pid, parent, wait_lock, nextpid,
                   cpuVars, i, arg, havekids>>

-----------------------------------------------------------------------------
(* swtch() between a process and the scheduler of its CPU *)

(* The swtch() in sched(): the CPU leaves p's stack with p->lock held. *)
Sched(c, p) ==
    /\ At(c, p, "sched")
    /\ thread' = [thread EXCEPT ![c] = Null]
    /\ Goto(p, "resume")
    /\ UNCHANGED <<procVars, proc, scan, ret, i, arg, havekids>>

(* p is back from sched(), or enters forkret() for the first time: the     *)
(* tail of yield(), of sleep() (which also clears p->chan) or the head of  *)
(* forkret() releases the p->lock the scheduler took.                      *)
Resume(c, p) ==
    /\ At(c, p, "resume")
    /\ lock' = [lock EXCEPT ![p] = Null]
    /\ chan' = [chan EXCEPT ![p] = IF ret[p] = "slept" THEN Null ELSE @]
    /\ Goto(p, IF ret[p] = "slept" THEN "kwait" ELSE ret[p])
    /\ ret' = [ret EXCEPT ![p] = "none"]
    /\ UNCHANGED <<state, killed, pid, parent, wait_lock, nextpid,
                   cpuVars, i, arg, havekids>>

(* Mutation: the scan runs off the end of proc[]. *)
NextSlotUnbounded(s) == s + 1

NextSlot(s) == IF s = NPROC THEN 1 ELSE s + 1

(* Mutation: the scheduler looks at p->state without taking p->lock. *)
DispatchUnlocked(c) ==
    LET p == scan[c] IN
    /\ thread[c] = Null /\ proc[c] = Null
    /\ state[p] = "RUNNABLE"
    /\ state' = [state EXCEPT ![p] = "RUNNING"]
    /\ proc' = [proc EXCEPT ![c] = p]
    /\ lock' = [lock EXCEPT ![p] = c]
    /\ thread' = [thread EXCEPT ![c] = p]
    /\ UNCHANGED <<chan, killed, pid, parent, wait_lock, nextpid, scan,
                   threadVars>>

(* schedule_rr() looks at one slot: a RUNNABLE process is switched to with *)
(* its lock held, any other is passed over.  The end of the scan, with its *)
(* wfi when nothing ran, leads back to the first slot.                     *)
Dispatch(c) ==
    LET p == scan[c] IN
    /\ thread[c] = Null /\ proc[c] = Null
    /\ lock[p] = Null
    /\ state[p] = "RUNNABLE"
    /\ state' = [state EXCEPT ![p] = "RUNNING"]
    /\ proc' = [proc EXCEPT ![c] = p]
    /\ lock' = [lock EXCEPT ![p] = c]
    /\ thread' = [thread EXCEPT ![c] = p]
    /\ UNCHANGED <<chan, killed, pid, parent, wait_lock, nextpid, scan,
                   threadVars>>

PassOver(c) ==
    /\ thread[c] = Null /\ proc[c] = Null
    /\ lock[scan[c]] = Null
    /\ state[scan[c]] # "RUNNABLE"
    /\ scan' = [scan EXCEPT ![c] = NextSlot(@)]
    /\ UNCHANGED <<procVars, proc, thread, threadVars>>

(* The scheduler is back from swtch(). *)
Switched(c) ==
    /\ thread[c] = Null /\ proc[c] # Null
    /\ proc' = [proc EXCEPT ![c] = Null]
    /\ lock' = [lock EXCEPT ![proc[c]] = Null]
    /\ scan' = [scan EXCEPT ![c] = NextSlot(@)]
    /\ UNCHANGED <<state, chan, killed, pid, parent, wait_lock, nextpid,
                   thread, threadVars>>

-----------------------------------------------------------------------------
(* kfork() *)

(* Mutation: freeproc() leaves killed set. *)
FreeProcKeepsKilled(q) ==
    /\ state' = [state EXCEPT ![q] = "UNUSED"]
    /\ pid' = [pid EXCEPT ![q] = 0]
    /\ parent' = [parent EXCEPT ![q] = Null]
    /\ chan' = [chan EXCEPT ![q] = Null]
    /\ UNCHANGED killed

(* freeproc(q), p->lock held: the fields of the modelled part of q. *)
FreeProc(q) ==
    /\ state' = [state EXCEPT ![q] = "UNUSED"]
    /\ pid' = [pid EXCEPT ![q] = 0]
    /\ parent' = [parent EXCEPT ![q] = Null]
    /\ chan' = [chan EXCEPT ![q] = Null]
    /\ killed' = [killed EXCEPT ![q] = FALSE]

(* allocproc() passes over a slot in use, or finds none. *)
AllocSkip(c, p) ==
    /\ At(c, p, "kfork")
    /\ IF i[p] > NPROC
       THEN Return(p)
       ELSE /\ lock[i[p]] = Null
            /\ state[i[p]] # "UNUSED"
            /\ i' = [i EXCEPT ![p] = @ + 1]
            /\ UNCHANGED <<pc, ret, arg, havekids>>
    /\ UNCHANGED <<procVars, cpuVars>>

(* allocproc() takes the slot, and kfork() copies p into it; np->lock is   *)
(* held throughout.  np starts at forkret().                               *)
AllocFound(c, p) ==
    LET np == i[p] IN
    /\ At(c, p, "kfork")
    /\ np <= NPROC
    /\ lock[np] = Null
    /\ state[np] = "UNUSED"
    /\ nextpid <= MaxPid
    /\ pid' = [pid EXCEPT ![np] = nextpid]
    /\ nextpid' = nextpid + 1
    /\ state' = [state EXCEPT ![np] = "USED"]
    /\ arg' = [arg EXCEPT ![p] = np]
    /\ i' = [i EXCEPT ![p] = 1]
    /\ pc' = [pc EXCEPT ![p] = "fork_parent", ![np] = "resume"]
    /\ ret' = [ret EXCEPT ![np] = "user"]
    /\ UNCHANGED <<chan, killed, parent, lock, wait_lock, cpuVars, havekids>>

(* No memory for the trapframe, the page table or the copy of p's memory:  *)
(* freeproc(np), fork returns -1.  The pid is used up.                     *)
AllocFail(c, p) ==
    LET np == i[p] IN
    /\ At(c, p, "kfork")
    /\ np <= NPROC
    /\ lock[np] = Null
    /\ state[np] = "UNUSED"
    /\ nextpid' = IF nextpid > MaxPid THEN nextpid ELSE nextpid + 1
    /\ FreeProc(np)
    /\ Return(p)
    /\ UNCHANGED <<lock, wait_lock, cpuVars>>

(* np->parent = p, under wait_lock. *)
ForkParent(c, p) ==
    /\ At(c, p, "fork_parent")
    /\ wait_lock = Null
    /\ parent' = [parent EXCEPT ![arg[p]] = p]
    /\ Goto(p, "fork_run")
    /\ UNCHANGED <<state, chan, killed, pid, lock, wait_lock, nextpid,
                   cpuVars, ret, i, arg, havekids>>

(* np->state = RUNNABLE, under np->lock; fork returns. *)
ForkRun(c, p) ==
    /\ At(c, p, "fork_run")
    /\ lock[arg[p]] = Null
    /\ state' = [state EXCEPT ![arg[p]] = "RUNNABLE"]
    /\ Return(p)
    /\ UNCHANGED <<chan, killed, pid, parent, lock, wait_lock, nextpid, cpuVars>>

-----------------------------------------------------------------------------
(* sleep() and wakeup() *)

(* Mutation: sleep() keeps the condition lock. *)
SleepKeepsLock(c, p, ch) ==
    /\ lock[p] = Null
    /\ lock' = [lock EXCEPT ![p] = c]
    /\ chan' = [chan EXCEPT ![p] = ch]
    /\ state' = [state EXCEPT ![p] = "SLEEPING"]
    /\ ret' = [ret EXCEPT ![p] = "slept"]
    /\ Goto(p, "sched")
    /\ UNCHANGED <<killed, pid, parent, wait_lock, nextpid>>

(* sleep(ch, &wait_lock): takes p->lock before it lets go of wait_lock. *)
Sleep(c, p, ch) ==
    /\ lock[p] = Null
    /\ lock' = [lock EXCEPT ![p] = c]
    /\ wait_lock' = Null
    /\ chan' = [chan EXCEPT ![p] = ch]
    /\ state' = [state EXCEPT ![p] = "SLEEPING"]
    /\ ret' = [ret EXCEPT ![p] = "slept"]
    /\ Goto(p, "sched")
    /\ UNCHANGED <<killed, pid, parent, nextpid>>

(* One round of the loop in wakeup(ch), called by p; then goes on at next. *)
Wakeup(p, ch, next) ==
    LET q == i[p] IN
    /\ IF q > NPROC
       THEN /\ Goto(p, next)
            /\ i' = [i EXCEPT ![p] = 1]
            /\ UNCHANGED state
       ELSE /\ q # p => lock[q] = Null
            /\ state' = [state EXCEPT ![q] =
                 IF q # p /\ @ = "SLEEPING" /\ chan[q] = ch THEN "RUNNABLE" ELSE @]
            /\ i' = [i EXCEPT ![p] = q + 1]
            /\ UNCHANGED pc
    /\ UNCHANGED <<chan, killed, pid, parent, lock, wait_lock, nextpid,
                   cpuVars, ret, arg, havekids>>

-----------------------------------------------------------------------------
(* kexit() *)

ExitLock(c, p) ==
    /\ At(c, p, "kexit")
    /\ wait_lock = Null
    /\ wait_lock' = c
    /\ Goto(p, "reparent")
    /\ i' = [i EXCEPT ![p] = 1]
    /\ arg' = [arg EXCEPT ![p] = 0]
    /\ UNCHANGED <<state, chan, killed, pid, parent, lock, nextpid,
                   cpuVars, ret, havekids>>

(* Mutation: reparent() forgets the children that have already exited. *)
ReparentLiveOnly(c, p) ==
    LET kids == {q \in Slot : parent[q] = p /\ state[q] # "ZOMBIE"} IN
    /\ At(c, p, "reparent")
    /\ IF kids # {}
       THEN /\ \E q \in kids : /\ \A r \in kids : q <= r
                               /\ parent' = [parent EXCEPT ![q] = initproc]
            /\ Goto(p, "wakeinit")
       ELSE /\ Goto(p, "wakeparent")
            /\ UNCHANGED parent
    /\ UNCHANGED <<state, chan, killed, pid, lock, wait_lock, nextpid,
                   cpuVars, ret, i, arg, havekids>>

(* The next round of reparent(p) that finds a child, or the end of its     *)
(* loop.  wait_lock keeps p's children as they are in between.             *)
Reparent(c, p) ==
    LET kids == {q \in Slot : parent[q] = p} IN
    /\ At(c, p, "reparent")
    /\ IF kids # {}
       THEN /\ \E q \in kids : /\ \A r \in kids : q <= r
                               /\ parent' = [parent EXCEPT ![q] = initproc]
            /\ Goto(p, "wakeinit")
       ELSE /\ Goto(p, "wakeparent")
            /\ UNCHANGED parent
    /\ UNCHANGED <<state, chan, killed, pid, lock, wait_lock, nextpid,
                   cpuVars, ret, i, arg, havekids>>

(* wakeup(initproc), once for each child given to init. *)
WakeInit(c, p) == At(c, p, "wakeinit") /\ Wakeup(p, initproc, "reparent")

(* Mutation: kexit() wakes its own channel, not its parent's. *)
WakeSelf(c, p) == At(c, p, "wakeparent") /\ Wakeup(p, p, "zombie")

WakeParent(c, p) == At(c, p, "wakeparent") /\ Wakeup(p, parent[p], "zombie")

(* ZOMBIE under p->lock, then wait_lock is released; on to sched(). *)
Zombie(c, p) ==
    /\ At(c, p, "zombie")
    /\ lock[p] = Null
    /\ lock' = [lock EXCEPT ![p] = c]
    /\ state' = [state EXCEPT ![p] = "ZOMBIE"]
    /\ wait_lock' = Null
    /\ Goto(p, "sched")
    /\ UNCHANGED <<chan, killed, pid, parent, nextpid, cpuVars, ret, i, arg,
                   havekids>>

-----------------------------------------------------------------------------
(* kwait() *)

WaitLock(c, p) ==
    /\ At(c, p, "kwait")
    /\ wait_lock = Null
    /\ wait_lock' = c
    /\ Goto(p, "wait_scan")
    /\ i' = [i EXCEPT ![p] = 1]
    /\ havekids' = [havekids EXCEPT ![p] = FALSE]
    /\ UNCHANGED <<state, chan, killed, pid, parent, lock, nextpid,
                   cpuVars, ret, arg>>

(* The loop of kwait() comes to q: slots before it are not p's children,   *)
(* which it finds without taking their locks.                              *)
NextKid(p, q) ==
    /\ q >= i[p]
    /\ parent[q] = p
    /\ \A r \in Slot : r >= i[p] /\ r < q => parent[r] # p

(* A child that has not exited. *)
WaitSkip(c, p) ==
    /\ At(c, p, "wait_scan")
    /\ \E q \in Slot :
         /\ NextKid(p, q)
         /\ lock[q] = Null /\ state[q] # "ZOMBIE"
         /\ i' = [i EXCEPT ![p] = q + 1]
    /\ havekids' = [havekids EXCEPT ![p] = TRUE]
    /\ UNCHANGED <<procVars, cpuVars, pc, ret, arg>>

(* A ZOMBIE child: freeproc(q). *)
WaitReap(c, p) ==
    /\ At(c, p, "wait_scan")
    /\ \E q \in Slot :
         /\ NextKid(p, q)
         /\ lock[q] = Null /\ state[q] = "ZOMBIE"
         /\ FreeProc(q)
    /\ wait_lock' = Null
    /\ Return(p)
    /\ UNCHANGED <<lock, nextpid, cpuVars>>

(* Mutation: kwait() returns -1 without a release of wait_lock. *)
WaitCopyFailHolds(c, p) ==
    /\ At(c, p, "wait_scan")
    /\ p # initproc
    /\ \E q \in Slot :
         NextKid(p, q) /\ lock[q] = Null /\ state[q] = "ZOMBIE"
    /\ Return(p)
    /\ UNCHANGED <<state, chan, killed, pid, parent, lock, wait_lock, nextpid,
                   cpuVars>>

(* A ZOMBIE child, but copyout() of its status fails: -1, and the child    *)
(* stays.  init passes no address (user/init.c).                           *)
WaitCopyFail(c, p) ==
    /\ At(c, p, "wait_scan")
    /\ p # initproc
    /\ \E q \in Slot :
         NextKid(p, q) /\ lock[q] = Null /\ state[q] = "ZOMBIE"
    /\ wait_lock' = Null
    /\ Return(p)
    /\ UNCHANGED <<state, chan, killed, pid, parent, lock, nextpid, cpuVars>>

(* The scan is over.  No children, or killed(p): return -1. *)
WaitDone(c, p) ==
    /\ At(c, p, "wait_scan")
    /\ \A q \in Slot : ~NextKid(p, q)
    /\ lock[p] = Null
    /\ IF ~havekids[p] \/ killed[p]
       THEN Return(p) /\ wait_lock' = Null
       ELSE /\ Goto(p, "wait_sleep")
            /\ i' = [i EXCEPT ![p] = 1]
            /\ havekids' = [havekids EXCEPT ![p] = FALSE]
            /\ UNCHANGED <<ret, arg, wait_lock>>
    /\ UNCHANGED <<state, chan, killed, pid, parent, lock, nextpid, cpuVars>>

(* sleep(p, &wait_lock) *)
WaitSleep(c, p) ==
    /\ At(c, p, "wait_sleep")
    /\ Sleep(c, p, p)
    /\ UNCHANGED <<cpuVars, i, arg, havekids>>

-----------------------------------------------------------------------------
(* kkill() *)

(* One round of the scan for the pid: found, not found yet, or not there. *)
KillScan(c, p) ==
    LET q == i[p] IN
    /\ At(c, p, "kkill")
    /\ IF q > NPROC
       THEN Return(p) /\ UNCHANGED <<killed, state>>
       ELSE /\ lock[q] = Null
            /\ IF pid[q] = arg[p]
               THEN /\ killed' = [killed EXCEPT ![q] = TRUE]
                    /\ state' = [state EXCEPT ![q] =
                                   IF @ = "SLEEPING" THEN "RUNNABLE" ELSE @]
                    /\ Return(p)
               ELSE /\ i' = [i EXCEPT ![p] = q + 1]
                    /\ UNCHANGED <<killed, state, pc, ret, arg, havekids>>
    /\ UNCHANGED <<chan, pid, parent, lock, wait_lock, nextpid, cpuVars>>

-----------------------------------------------------------------------------

(* What the kernel thread of p does on CPU c once it is in the kernel. *)
KernelStep(c, p) ==
    \/ TrapKilled(c, p) \/ TrapReturn(c, p)
    \/ AllocSkip(c, p) \/ AllocFound(c, p) \/ AllocFail(c, p)
    \/ ForkParent(c, p) \/ ForkRun(c, p)
    \/ ExitLock(c, p) \/ Reparent(c, p) \/ WakeInit(c, p)
    \/ WakeParent(c, p) \/ Zombie(c, p)
    \/ WaitLock(c, p) \/ WaitSkip(c, p) \/ WaitReap(c, p)
    \/ WaitCopyFail(c, p) \/ WaitDone(c, p) \/ WaitSleep(c, p)
    \/ KillScan(c, p)

SwitchStep(c, p) == Sched(c, p) \/ Resume(c, p)

UserStep(c, p) ==
    \/ \E call \in {"kfork", "kexit", "kwait"} : Syscall(c, p, call)
    \/ \E n \in KillPids : SysKill(c, p, n)
    \/ UserFault(c, p)

SchedulerStep(c) == Dispatch(c) \/ PassOver(c) \/ Switched(c)

Next ==
    \E c \in CPU :
        \/ SchedulerStep(c)
        \/ \E p \in Slot :
              KernelStep(c, p) \/ SwitchStep(c, p) \/ UserStep(c, p) \/ Yield(c, p)

Spec == Init /\ [][Next]_vars

(* Fairness.  A CPU keeps executing, and a spinlock that is free again and *)
(* again is eventually obtained (SF on the steps that take locks).  Timer  *)
(* interrupts are far enough apart for the interrupted thread to get on    *)
(* between them, and a pending one is taken when interrupts are on.        *)
(* init calls wait() over and over (user/init.c); no other program is      *)
(* assumed to do anything.                                                 *)
Fairness ==
    /\ \A c \in CPU : SF_vars(SchedulerStep(c))
    /\ \A p \in Slot : SF_vars(\E c \in CPU : KernelStep(c, p))
    /\ \A p \in Slot : WF_vars(\E c \in CPU : SwitchStep(c, p))
    /\ \A p \in Slot : SF_vars(\E c \in CPU : Yield(c, p))
    /\ SF_vars(\E c \in CPU : Syscall(c, initproc, "kwait"))

FairSpec == Spec /\ Fairness
-----------------------------------------------------------------------------
(* Properties *)

(* Where p's kernel thread is, or goes on when it is switched to again. *)
Where(p) == IF pc[p] \in {"sched", "resume"} THEN ret[p] ELSE pc[p]

(* c->proc belongs to one CPU, which is on the stack of that process or    *)
(* back on its own; a process on no CPU is stopped in swtch(), or was      *)
(* never started.                                                          *)
ThreadsOnCpus ==
    /\ \A c \in CPU : thread[c] # Null => proc[c] = thread[c]
    /\ \A c, d \in CPU : proc[c] # Null /\ proc[c] = proc[d] => c = d
    /\ \A p \in Slot : (\A c \in CPU : thread[c] # p) => pc[p] \in {"resume", "none"}
    /\ \A p \in Slot : pc[p] = "none" => state[p] = "UNUSED"

(* p->lock outlives a step only around a swtch(): the thread that takes    *)
(* it, process or scheduler, leaves it to the one that releases it, on the *)
(* same CPU.  A process is RUNNING from the scheduler's swtch() to the     *)
(* step that ends in sched().                                              *)
LocksHandedOver ==
    /\ \A c \in CPU : proc[c] # Null =>
          IF thread[c] = Null \/ pc[proc[c]] = "sched"
          THEN /\ lock[proc[c]] = c
               /\ state[proc[c]] \in {"RUNNABLE", "SLEEPING", "ZOMBIE"}
          ELSE state[proc[c]] = "RUNNING"
    /\ \A c \in CPU : thread[c] # Null =>
          lock[thread[c]] = IF pc[thread[c]] \in {"sched", "resume"} THEN c ELSE Null
    /\ \A p \in Slot : (\A c \in CPU : proc[c] # p) =>
          lock[p] = Null /\ state[p] # "RUNNING"

(* wait_lock is held exactly by the CPU inside kexit() or kwait(). *)
WaitLockHeld ==
    \A c \in CPU : wait_lock = c <=> thread[c] # Null /\ pc[thread[c]] \in Waiting

(* Each unfinished kfork() owns one USED slot. *)
ForkOwnsSlot ==
    \A p \in Slot : Where(p) \in {"fork_parent", "fork_run"} =>
        /\ arg[p] \in Slot
        /\ state[arg[p]] = "USED"
        /\ \A q \in Slot : Where(q) \in {"fork_parent", "fork_run"}
                              /\ arg[q] = arg[p] => q = p

(* Only a thread inside sched() has a point to return to, and every one    *)
(* that can be switched to again has.                                      *)
ReturnPoints ==
    \A p \in Slot :
        IF pc[p] \in {"sched", "resume"}
        THEN ret[p] = "none" => state[p] \in {"ZOMBIE", "UNUSED"}
        ELSE ret[p] = "none"

(* The discipline of p->lock, c->proc and wait_lock as a whole. *)
LockDiscipline ==
    /\ ThreadsOnCpus /\ LocksHandedOver /\ WaitLockHeld /\ ForkOwnsSlot
    /\ ReturnPoints

(* No kernel stack is in use by two CPUs, and none is in use of a slot     *)
(* that freeproc() has given back: swtch() happens with p->lock held, so   *)
(* no other scheduler can pick p, and no parent can free it, before the    *)
(* CPU has left p's stack (sched(), kwait()'s "make sure the child isn't   *)
(* still in exit() or swtch()").                                           *)
StackExclusive ==
    \A c \in CPU : thread[c] # Null =>
        /\ \A d \in CPU : thread[d] = thread[c] => d = c
        /\ state[thread[c]] \notin {"UNUSED", "USED"}

(* A process is RUNNING exactly while it is the process of one CPU that    *)
(* is not on the way out of it.                                            *)
RunningOnCpu ==
    \A p \in Slot :
        state[p] = "RUNNING" <=> \E c \in CPU : /\ proc[c] = p /\ thread[c] = p
                                               /\ pc[p] # "sched"

(* The panics of sched() cannot happen: its caller holds p->lock and no    *)
(* other lock (noff is 1), and has changed p->state.                       *)
SchedPreconditions ==
    \A c \in CPU, p \in Slot : At(c, p, "sched") =>
        /\ lock[p] = c
        /\ wait_lock # c
        /\ \A q \in Slot \ {p} : lock[q] # c
        /\ state[p] # "RUNNING"

(* wait_lock "helps ensure that wakeups of wait()ing parents are not       *)
(* lost": whenever it is free, no process sleeps in wait() while it has a  *)
(* child to collect.                                                       *)
NoLostWakeup ==
    wait_lock = Null =>
        \A p, q \in Slot :
            state[p] = "SLEEPING" /\ chan[p] = p /\ parent[q] = p
                => state[q] # "ZOMBIE"

(* Every process has a parent that can still collect it: reparent() leaves *)
(* no process with a parent that has exited or whose slot was given back,  *)
(* whatever forks, exits and waits run at the same time.                   *)
ParentAlive ==
    wait_lock = Null =>
        \A q \in Slot \ {initproc} :
            state[q] \notin {"UNUSED", "USED"}
                => /\ parent[q] # Null
                   /\ state[parent[q]] \notin {"UNUSED", "USED", "ZOMBIE"}

(* kill(n) kills the process with pid n and not the next one in its slot:  *)
(* killed goes with the process, however kills race with exits and forks.  *)
(* But kkill() looks at free slots too, whose pid is 0: kill(0) marks one, *)
(* and allocproc() hands the mark on.                                      *)
BornAlive ==
    [][\A q \in Slot : state'[q] = "UNUSED" /\ killed'[q]
          => \/ state[q] = "UNUSED" /\ killed[q]
             \/ \E p \in Slot : pc[p] = "kkill" /\ arg[p] = 0 /\ i[p] = q]_vars

(* A process that has started to exit gets there, since nothing it waits   *)
(* for in kexit() is held forever; and an exited process whose parent is   *)
(* init is collected in the end: no wakeup of init is lost, and no lock    *)
(* order lets exit, wait, kill and the schedulers wait for each other.     *)
OrphansReaped ==
    \A q \in Slot :
        /\ (pc[q] = "kexit") ~> (state[q] = "ZOMBIE")
        /\ (state[q] = "ZOMBIE" /\ parent[q] = initproc) ~> (state[q] = "UNUSED")
=============================================================================
