-------------------------------- MODULE Sched --------------------------------
(***************************************************************************)
(* How a CPU chooses a process: schedule_rr, schedule_fifo, schedule_sjf   *)
(* and schedule_stcf of kernel/proc.c.  schedule_mlfq is in MLFQ, and the  *)
(* times the policies account are in Times.                                *)
(*                                                                         *)
(* Each CPU scans proc[] one slot per step, so other CPUs run between two  *)
(* slots of a scan.  That p->lock keeps a process on one CPU is the        *)
(* subject of Proc; here the lock of p is held exactly from the step in    *)
(* which p gives up the CPU to the one in which the scheduler is back from *)
(* swtch() (Locked).  Of the clock only what a choice depends on is kept:  *)
(* ctime, and for STCF how long a process ran.                             *)
(***************************************************************************)
EXTENDS Naturals, FiniteSets

CONSTANTS
    CPU,        \* the harts
    NPROC,      \* size of the process table
    Policies,   \* the SCHED_POLICY of the kernels considered
    W,          \* width of a uint64
    MaxPid,     \* bound: no fork beyond this pid
    Hints,      \* arguments of setexpected(), clamped at 0
    StcfHints,  \* arguments of setstcfvals(), clamped at 0
    Bursts      \* how long a process may be on a CPU at a time (STCF)

ASSUME SchedAssumption ==
    /\ 0 \notin CPU
    /\ NPROC \in Nat \ {0}
    /\ Policies \subseteq {"RR", "FIFO", "SJF", "STCF"}
    /\ W \in Nat /\ 2^W \in Nat \ {0, 1} /\ MaxPid \in Nat
    /\ MaxPid < 2^W
    /\ Hints \subseteq 0 .. 2^W - 2
    /\ StcfHints \subseteq 0 .. 2^W - 3
    /\ Bursts \subseteq 0 .. 2^W - 1

Null == 0
Slot == 1 .. NPROC
initproc == 1
NoHint == 2^W - 1               \* ~0ULL
(* Mutation: no wrap-around. *)
MinusUnbounded(a, b) == a + 2^W - b
Minus(a, b) == (a + 2^W - b) % 2^W      \* of two uint64

VARIABLES
    policy,                         \* SCHED_POLICY, fixed when the kernel is built
    (* struct proc *)
    state, pid, ctime, expected_runtime, time_left,
    nextpid,
    clock,                          \* getTime() at the latest allocproc()
    (* each CPU's scheduler() *)
    pc,                             \* where it is
    proc,                           \* c->proc
    i, found,                       \* the scan of proc[]
    best, best_key, best_ctime, best_pid,
    (* history *)
    cand,                           \* RUNNABLE ever since c began its scan
    reused                          \* FIFO: best was given to a new process meanwhile

procVars == <<policy, state, pid, ctime, expected_runtime, time_left, nextpid, clock>>
bestVars == <<best, best_key, best_ctime, best_pid>>
cpuVars == <<pc, proc, i, found, bestVars>>
histVars == <<cand, reused>>
vars == <<procVars, cpuVars, histVars>>

(* The first step of a round of scheduler(). *)
FirstStep == IF policy = "RR" THEN "rr" ELSE "scan"

(* scan: choosing, up to taking best's lock; rr: in schedule_rr;           *)
(* run: on the stack of proc[c]; back: after it gave up the CPU.           *)
Labels == {"scan", "rr", "run", "back", "wfi"}

TypeOK ==
    /\ policy \in Policies
    /\ state \in [Slot -> {"UNUSED", "USED", "SLEEPING", "RUNNABLE", "RUNNING",
                           "ZOMBIE"}]
    /\ pid \in [Slot -> Nat] /\ nextpid \in Nat
    /\ ctime \in [Slot -> 0 .. NoHint] /\ clock \in Nat
    /\ expected_runtime \in [Slot -> 0 .. NoHint - 1]
    /\ time_left \in [Slot -> 0 .. NoHint]
    /\ pc \in [CPU -> Labels]
    /\ proc \in [CPU -> Slot \cup {Null}]
    /\ i \in [CPU -> 1 .. NPROC + 1] /\ found \in [CPU -> BOOLEAN]
    /\ best \in [CPU -> Slot \cup {Null}]
    /\ best_key \in [CPU -> 0 .. NoHint] /\ best_ctime \in [CPU -> 0 .. NoHint]
    /\ best_pid \in [CPU -> Nat]
    /\ cand \in [CPU -> SUBSET Slot] /\ reused \in [CPU -> BOOLEAN]

(* After userinit(); every CPU is about to begin its first scan. *)
Init ==
    /\ policy \in Policies
    /\ state = [p \in Slot |-> IF p = initproc THEN "RUNNABLE" ELSE "UNUSED"]
    /\ pid = [p \in Slot |-> IF p = initproc THEN 1 ELSE 0]
    /\ ctime = [p \in Slot |-> 0]
    /\ expected_runtime = [p \in Slot |-> 0]
    /\ time_left = [p \in Slot |-> 0]
    /\ nextpid = 2
    /\ clock = 0
    /\ pc = [c \in CPU |-> FirstStep]
    /\ proc = [c \in CPU |-> Null]
    /\ i = [c \in CPU |-> 1]
    /\ found = [c \in CPU |-> FALSE]
    /\ best = [c \in CPU |-> Null]
    /\ best_key = [c \in CPU |-> NoHint]
    /\ best_ctime = [c \in CPU |-> NoHint]
    /\ best_pid = [c \in CPU |-> 0]
    /\ cand = [c \in CPU |-> {initproc}] /\ reused = [c \in CPU |-> FALSE]

Runnable == {p \in Slot : state[p] = "RUNNABLE"}
Locked(p) == \E c \in CPU : pc[c] = "back" /\ proc[c] = p
-----------------------------------------------------------------------------
(* What a running process does *)

Running(c, p) == pc[c] = "run" /\ proc[c] = p

(* yield(), sleep(): p enters sched() with its lock held and its state     *)
(* changed.                                                                *)
GiveUp(c, p, st) ==
    /\ Running(c, p)
    /\ state' = [state EXCEPT ![p] = st]
    /\ pc' = [pc EXCEPT ![c] = "back"]
    /\ UNCHANGED <<policy, pid, ctime, expected_runtime, time_left, nextpid, clock, proc,
                   i, found, bestVars, histVars>>

(* kexit(), with the time p has been on the CPU. *)
Exit(c, p, burst) ==
    /\ Running(c, p)
    /\ p # initproc
    /\ state' = [state EXCEPT ![p] = "ZOMBIE"]
    /\ time_left' = [time_left EXCEPT ![p] = IF @ > 0 THEN Minus(@, burst) ELSE @]
    /\ pc' = [pc EXCEPT ![c] = "back"]
    /\ UNCHANGED <<policy, pid, ctime, expected_runtime, nextpid, clock, proc, i, found,
                   bestVars, histVars>>

(* wakeup() or kkill(), from a process or an interrupt. *)
Wakeup(p) ==
    /\ state[p] = "SLEEPING" /\ ~Locked(p)
    /\ state' = [state EXCEPT ![p] = "RUNNABLE"]
    /\ UNCHANGED <<policy, pid, ctime, expected_runtime, time_left, nextpid, clock,
                   cpuVars, histVars>>

(* setexpected(n).  init gives no hint (user/init.c). *)
SetExpected(c, p, n) ==
    /\ Running(c, p)
    /\ p # initproc
    /\ expected_runtime' = [expected_runtime EXCEPT ![p] = n]
    /\ UNCHANGED <<policy, state, pid, ctime, time_left, nextpid, clock, cpuVars, histVars>>

(* setstcfvals(n) *)
SetStcfVals(c, p, n) ==
    /\ Running(c, p)
    /\ p # initproc
    /\ expected_runtime' = [expected_runtime EXCEPT ![p] = n]
    /\ time_left' = [time_left EXCEPT ![p] = n + 1]
    /\ UNCHANGED <<policy, state, pid, ctime, nextpid, clock, cpuVars, histVars>>

(* kfork() up to the first release(&np->lock): allocproc(), at clock       *)
(* reading t, and the copy of the hint.                                    *)
Fork(c, p, q, t) ==
    /\ Running(c, p)
    /\ nextpid <= MaxPid
    /\ state[q] = "UNUSED"
    /\ state' = [state EXCEPT ![q] = "USED"]
    /\ pid' = [pid EXCEPT ![q] = nextpid]
    /\ nextpid' = nextpid + 1
    /\ clock' = t
    /\ ctime' = [ctime EXCEPT ![q] = t]
    /\ expected_runtime' = [expected_runtime EXCEPT ![q] = expected_runtime[p]]
    /\ time_left' = [time_left EXCEPT ![q] = 0]
    /\ reused' = [d \in CPU |-> reused[d] \/ (policy = "FIFO" /\ best[d] = q)]
    /\ UNCHANGED <<policy, cpuVars, cand>>

(* The rest of kfork(), when the parent gets to it. *)
ForkRun(q) ==
    /\ state[q] = "USED"
    /\ state' = [state EXCEPT ![q] = "RUNNABLE"]
    /\ UNCHANGED <<policy, pid, ctime, expected_runtime, time_left, nextpid, clock,
                   cpuVars, histVars>>

(* kwait(): freeproc(p), which leaves time_left alone. *)
Reap(p) ==
    /\ state[p] = "ZOMBIE" /\ ~Locked(p)
    /\ state' = [state EXCEPT ![p] = "UNUSED"]
    /\ pid' = [pid EXCEPT ![p] = 0]
    /\ ctime' = [ctime EXCEPT ![p] = 0]
    /\ expected_runtime' = [expected_runtime EXCEPT ![p] = 0]
    /\ UNCHANGED <<policy, time_left, nextpid, clock, cpuVars, histVars>>

-----------------------------------------------------------------------------
(* scheduler() *)

(* The policy returned c to the top of scheduler()'s loop with found = f:  *)
(* the next round begins, or wfi if nothing was found.                     *)
EndRound(c, f) ==
    /\ pc' = [pc EXCEPT ![c] = IF f THEN FirstStep ELSE "wfi"]
    /\ proc' = [proc EXCEPT ![c] = Null]
    /\ i' = [i EXCEPT ![c] = 1]
    /\ found' = [found EXCEPT ![c] = FALSE]
    /\ best' = [best EXCEPT ![c] = Null]
    /\ best_key' = [best_key EXCEPT ![c] = NoHint]
    /\ best_ctime' = [best_ctime EXCEPT ![c] = NoHint]
    /\ best_pid' = [best_pid EXCEPT ![c] = 0]
    /\ cand' = [cand EXCEPT ![c] = IF f THEN Runnable ELSE {}]
    /\ reused' = [reused EXCEPT ![c] = FALSE]

(* An interrupt ends the wfi. *)
Interrupt(c) ==
    /\ pc[c] = "wfi"
    /\ EndRound(c, TRUE)
    /\ UNCHANGED procVars

(* The part of every policy that switches to p, found RUNNABLE under its   *)
(* lock.                                                                   *)
Run(c, p) ==
    /\ state' = [state EXCEPT ![p] = "RUNNING"]
    /\ proc' = [proc EXCEPT ![c] = p]
    /\ pc' = [pc EXCEPT ![c] = "run"]
    /\ cand' = [d \in CPU |-> IF d = c /\ best[c] # Null THEN {} ELSE cand[d] \ {p}]
    /\ UNCHANGED <<policy, pid, ctime, expected_runtime, time_left, nextpid, clock,
                   bestVars, reused>>

(* schedule_rr() *)
RoundRobinSkip(c) ==
    /\ pc[c] = "rr" /\ i[c] <= NPROC
    /\ ~Locked(i[c]) /\ state[i[c]] # "RUNNABLE"
    /\ i' = [i EXCEPT ![c] = @ + 1]
    /\ UNCHANGED <<procVars, pc, proc, found, bestVars, histVars>>

RoundRobinRun(c) ==
    /\ pc[c] = "rr" /\ i[c] <= NPROC
    /\ ~Locked(i[c]) /\ state[i[c]] = "RUNNABLE"
    /\ Run(c, i[c])
    /\ found' = [found EXCEPT ![c] = TRUE]
    /\ UNCHANGED i

RoundRobinEnd(c) ==
    /\ pc[c] = "rr" /\ i[c] > NPROC
    /\ EndRound(c, found[c])
    /\ UNCHANGED procVars

(* The first pass of schedule_fifo(), which takes no lock. *)
FifoLook(c) ==
    /\ pc[c] = "scan" /\ i[c] <= NPROC /\ policy = "FIFO"
    /\ best' = [best EXCEPT ![c] =
          IF /\ state[i[c]] = "RUNNABLE"
             /\ @ = Null \/ ctime[i[c]] < ctime[@]
          THEN i[c] ELSE @]
    /\ i' = [i EXCEPT ![c] = @ + 1]
    /\ UNCHANGED <<procVars, pc, proc, found, best_key, best_ctime,
                   best_pid, histVars>>

(* The key of schedule_sjf() and schedule_stcf(). *)
Key(p) ==
    IF expected_runtime[p] = 0 THEN NoHint
    ELSE IF policy = "SJF" THEN expected_runtime[p] ELSE time_left[p]

(* (key, ctime, pid) in lexicographic order. *)
Less(k, t, n, k2, t2, n2) ==
    k < k2 \/ (k = k2 /\ (t < t2 \/ (t = t2 /\ n < n2)))

(* Mutation: best_ctime and best_pid are not refreshed with best_key. *)
KeyLookStale(c) ==
    LET p == i[c] IN
    /\ pc[c] = "scan" /\ p <= NPROC /\ policy \in {"SJF", "STCF"}
    /\ ~Locked(p)
    /\ IF /\ state[p] = "RUNNABLE"
          /\ \/ best[c] = Null
             \/ Less(Key(p), ctime[p], pid[p], best_key[c], best_ctime[c], best_pid[c])
       THEN /\ best' = [best EXCEPT ![c] = p]
            /\ best_key' = [best_key EXCEPT ![c] = Key(p)]
            /\ UNCHANGED <<best_ctime, best_pid>>
       ELSE UNCHANGED bestVars
    /\ i' = [i EXCEPT ![c] = @ + 1]
    /\ UNCHANGED <<procVars, pc, proc, found, histVars>>

(* The scan of schedule_sjf() and schedule_stcf(). *)
KeyLook(c) ==
    LET p == i[c] IN
    /\ pc[c] = "scan" /\ p <= NPROC /\ policy \in {"SJF", "STCF"}
    /\ ~Locked(p)
    /\ IF /\ state[p] = "RUNNABLE"
          /\ \/ best[c] = Null
             \/ Less(Key(p), ctime[p], pid[p], best_key[c], best_ctime[c], best_pid[c])
       THEN /\ best' = [best EXCEPT ![c] = p]
            /\ best_key' = [best_key EXCEPT ![c] = Key(p)]
            /\ best_ctime' = [best_ctime EXCEPT ![c] = ctime[p]]
            /\ best_pid' = [best_pid EXCEPT ![c] = pid[p]]
       ELSE UNCHANGED bestVars
    /\ i' = [i EXCEPT ![c] = @ + 1]
    /\ UNCHANGED <<procVars, pc, proc, found, histVars>>

(* The end of the scan: nothing RUNNABLE, no hint at all, or best is chosen. *)
ScanEmpty(c) ==
    /\ pc[c] = "scan" /\ i[c] > NPROC
    /\ best[c] = Null
    /\ EndRound(c, FALSE)
    /\ UNCHANGED procVars

ScanNoHint(c) ==
    /\ pc[c] = "scan" /\ i[c] > NPROC
    /\ policy # "FIFO" /\ best[c] # Null /\ best_key[c] = NoHint
    /\ pc' = [pc EXCEPT ![c] = "rr"]
    /\ i' = [i EXCEPT ![c] = 1]
    /\ best' = [best EXCEPT ![c] = Null]
    /\ UNCHANGED <<procVars, proc, found, best_key, best_ctime, best_pid,
                   histVars>>

Chosen(c) ==
    /\ pc[c] = "scan" /\ i[c] > NPROC
    /\ best[c] # Null /\ (policy # "FIFO" => best_key[c] # NoHint)

(* best->lock is taken and best is still RUNNABLE. *)
Pick(c) ==
    /\ Chosen(c)
    /\ ~Locked(best[c]) /\ state[best[c]] = "RUNNABLE"
    /\ Run(c, best[c])
    /\ UNCHANGED <<i, found>>

(* Mutation: every policy returns 0. *)
PickLostIdle(c) ==
    /\ Chosen(c)
    /\ ~Locked(best[c]) /\ state[best[c]] # "RUNNABLE"
    /\ EndRound(c, FALSE)
    /\ UNCHANGED procVars

(* Another CPU was faster: schedule_stcf() returns 1, the others 0. *)
PickLost(c) ==
    /\ Chosen(c)
    /\ ~Locked(best[c]) /\ state[best[c]] # "RUNNABLE"
    /\ EndRound(c, policy = "STCF")
    /\ UNCHANGED procVars

(* Back from swtch(), after p has been on the CPU for burst: its lock is   *)
(* released.  schedule_rr() goes on with the next slot, the others return  *)
(* 1.  Only schedule_stcf() itself deducts the time.                       *)
Back(c, burst) ==
    LET p == proc[c] IN
    /\ pc[c] = "back"
    /\ time_left' = IF policy = "STCF" /\ best[c] # Null /\ time_left[p] > 0
                    THEN [time_left EXCEPT ![p] = Minus(@, burst)]
                    ELSE time_left
    /\ IF best[c] # Null
       THEN EndRound(c, TRUE)
       ELSE /\ pc' = [pc EXCEPT ![c] = "rr"]
            /\ proc' = [proc EXCEPT ![c] = Null]
            /\ i' = [i EXCEPT ![c] = @ + 1]
            /\ UNCHANGED <<found, bestVars, histVars>>
    /\ UNCHANGED <<policy, state, pid, ctime, expected_runtime, nextpid, clock>>

-----------------------------------------------------------------------------

(* A program gives the hint that the policy reads.  Two forks may read the *)
(* same time, a fork and the boot at time 0 may not.                       *)
ProcessStep(c, p) ==
    \/ \E st \in {"RUNNABLE", "SLEEPING"} : GiveUp(c, p, st)
    \/ \E burst \in Bursts : Exit(c, p, burst)
    \/ policy = "SJF" /\ \E n \in Hints : SetExpected(c, p, n)
    \/ policy = "STCF" /\ \E n \in StcfHints : SetStcfVals(c, p, n)
    \/ \E q \in Slot, t \in {clock, clock + 1} \ {0} : Fork(c, p, q, t)

SchedulerStep(c) ==
    \/ Interrupt(c)
    \/ RoundRobinSkip(c) \/ RoundRobinRun(c) \/ RoundRobinEnd(c)
    \/ FifoLook(c) \/ KeyLook(c)
    \/ ScanEmpty(c) \/ ScanNoHint(c)
    \/ Pick(c) \/ PickLost(c)
    \/ \E burst \in Bursts : Back(c, burst)

Next ==
    \/ \E c \in CPU : SchedulerStep(c) \/ \E p \in Slot : ProcessStep(c, p)
    \/ \E p \in Slot : Wakeup(p) \/ ForkRun(p) \/ Reap(p)

Spec == Init /\ [][Next]_vars
-----------------------------------------------------------------------------
(* Properties *)

(* The order in which the policy is meant to run processes. *)
Before(q, p) ==
    IF policy = "FIFO" THEN ctime[q] < ctime[p]
    ELSE Less(Key(q), ctime[q], pid[q], Key(p), ctime[p], pid[p])

(* Nothing happened to best that its key does not show.  schedule_fifo()   *)
(* compares with the ctime that best has now: a slot reused in the middle  *)
(* of the scan lets later and newer processes pass.  schedule_sjf() and    *)
(* schedule_stcf() remember the key, of a process that may have run since. *)
Undisturbed(c) == IF policy = "FIFO" THEN ~reused[c] ELSE best[c] \in cand[c]

(* Processes that schedule_sjf() and schedule_stcf() take for ones without *)
(* a hint: those, and one whose time_left has wrapped around to ~0ULL.     *)
Hintless(q) == expected_runtime[q] = 0 \/ (policy = "STCF" /\ time_left[q] = NoHint)

(* A scan that races with other CPUs still chooses well: the process it    *)
(* runs, if it is undisturbed, comes before every other process that could *)
(* have been run all that time.  (If not, its slot may belong to a newer   *)
(* process by now: the policies test only its state again.)  And SJF and   *)
(* STCF fall back to round robin only if none of those has a hint.         *)
SelectionSound ==
    [][\A c \in CPU : pc[c] = "scan" =>
          /\ pc'[c] = "run" /\ Undisturbed(c) => \A q \in cand[c] : ~Before(q, best[c])
          /\ pc'[c] = "rr" => \A q \in cand[c] : Hintless(q)]_vars

(* A core stops in wfi only if no process was RUNNABLE throughout its      *)
(* scan ("nothing to run; stop running on this core until an interrupt"),  *)
(* or it has lost the race for the process that schedule_fifo() or         *)
(* schedule_sjf() chose: they return 0, where schedule_stcf() returns 1.   *)
WfiIdleOrLost ==
    [][\A c \in CPU : pc[c] # "wfi" /\ pc'[c] = "wfi" =>
          \/ cand[c] = {}
          \/ policy \in {"FIFO", "SJF"} /\ Chosen(c) /\ state[best[c]] # "RUNNABLE"]_vars
=============================================================================
