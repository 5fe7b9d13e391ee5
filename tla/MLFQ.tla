-------------------------------- MODULE MLFQ --------------------------------
(***************************************************************************)
(* How a CPU chooses a process under MLFQ: schedule_mlfq and               *)
(* starvation_clean of kernel/proc.c.  A scan keeps the lock of the best   *)
(* process it has found while it takes the locks of the slots behind it,   *)
(* so here p->lock is a variable.                                          *)
(*                                                                         *)
(* Whether a run has used up the time slice, and whether a process has     *)
(* waited long enough to be moved up, is arithmetic on times: it is in     *)
(* Times, and a free choice here.  Of ltime only the order matters; 0 is a *)
(* process that has not been scheduled yet.                                *)
(***************************************************************************)
EXTENDS Naturals, FiniteSets

CONSTANTS
    CPU,        \* the harts
    NPROC,      \* size of the process table
    NLEVEL      \* number of levels (3)

ASSUME MLFQAssumption ==
    0 \notin CPU /\ NPROC \in Nat \ {0} /\ NLEVEL \in Nat \ {0}

Null == 0
Slot == 1 .. NPROC
Level == 0 .. NLEVEL - 1
initproc == 1

VARIABLES
    state, queue_level, ltime,      \* struct proc
    lock,                           \* p->lock: the CPU that holds it, or Null
    (* each CPU's schedule_mlfq() *)
    pc, proc,
    i,                              \* p, in starvation_clean() or in the scan
    prty, min_p, found,
    cand    \* history: RUNNABLE and not moved up since c began with level 0

procVars == <<state, queue_level, ltime>>
cpuVars == <<pc, proc, i, prty, min_p, found>>
vars == <<procVars, lock, cpuVars, cand>>

TypeOK ==
    /\ state \in [Slot -> {"UNUSED", "SLEEPING", "RUNNABLE", "RUNNING", "ZOMBIE"}]
    /\ queue_level \in [Slot -> Level] /\ ltime \in [Slot -> 0 .. NPROC]
    /\ lock \in [Slot -> CPU \cup {Null}]
    /\ pc \in [CPU -> {"clean", "scan", "run", "back", "wfi"}]
    /\ proc \in [CPU -> Slot \cup {Null}] /\ min_p \in [CPU -> Slot \cup {Null}]
    /\ i \in [CPU -> 1 .. NPROC + 1] /\ prty \in [CPU -> Level]
    /\ found \in [CPU -> BOOLEAN] /\ cand \in [CPU -> SUBSET Slot]

Init ==
    /\ state = [p \in Slot |-> IF p = initproc THEN "RUNNABLE" ELSE "UNUSED"]
    /\ queue_level = [p \in Slot |-> 0] /\ ltime = [p \in Slot |-> 0]
    /\ lock = [p \in Slot |-> Null]
    /\ pc = [c \in CPU |-> "clean"] /\ proc = [c \in CPU |-> Null]
    /\ i = [c \in CPU |-> 1] /\ prty = [c \in CPU |-> 0]
    /\ min_p = [c \in CPU |-> Null] /\ found = [c \in CPU |-> FALSE]
    /\ cand = [c \in CPU |-> {}]

-----------------------------------------------------------------------------
(* What a running process does *)

(* yield(), sleep() and kexit(): p->lock, the new state, sched(). *)
GiveUp(c, st) ==
    LET p == proc[c] IN
    /\ pc[c] = "run"
    /\ st = "ZOMBIE" => p # initproc
    /\ lock[p] = Null
    /\ lock' = [lock EXCEPT ![p] = c]
    /\ state' = [state EXCEPT ![p] = st]
    /\ pc' = [pc EXCEPT ![c] = "back"]
    /\ UNCHANGED <<queue_level, ltime, proc, i, prty, min_p, found, cand>>

(* kfork(): the child starts on level 0, not yet scheduled. *)
Fork(c, q) ==
    /\ pc[c] = "run"
    /\ state[q] = "UNUSED" /\ lock[q] = Null
    /\ state' = [state EXCEPT ![q] = "RUNNABLE"]
    /\ queue_level' = [queue_level EXCEPT ![q] = 0]
    /\ ltime' = [ltime EXCEPT ![q] = 0]
    /\ UNCHANGED <<lock, cpuVars, cand>>

(* wakeup() or kkill() *)
Wakeup(p) ==
    /\ state[p] = "SLEEPING" /\ lock[p] = Null
    /\ state' = [state EXCEPT ![p] = "RUNNABLE"]
    /\ UNCHANGED <<queue_level, ltime, lock, cpuVars, cand>>

(* kwait(): freeproc() *)
Reap(p) ==
    /\ state[p] = "ZOMBIE" /\ lock[p] = Null
    /\ state' = [state EXCEPT ![p] = "UNUSED"]
    /\ queue_level' = [queue_level EXCEPT ![p] = 0]
    /\ ltime' = [ltime EXCEPT ![p] = 0]
    /\ UNCHANGED <<lock, cpuVars, cand>>

-----------------------------------------------------------------------------
(* schedule_mlfq() *)

(* starvation_clean() at slot i: a RUNNABLE process below the top that has *)
(* waited long enough goes one level up.                                   *)
Clean(c, waited) ==
    LET p == i[c]
        boost == waited /\ state[p] = "RUNNABLE" /\ queue_level[p] > 0 IN
    /\ pc[c] = "clean" /\ p <= NPROC
    /\ lock[p] = Null
    /\ queue_level' = [queue_level EXCEPT ![p] = IF boost THEN @ - 1 ELSE @]
    /\ cand' = IF boost THEN [d \in CPU |-> cand[d] \ {p}] ELSE cand
    /\ i' = [i EXCEPT ![c] = @ + 1]
    /\ UNCHANGED <<state, ltime, lock, pc, proc, prty, min_p, found>>

(* The search begins with level 0. *)
CleanEnd(c) ==
    /\ pc[c] = "clean" /\ i[c] > NPROC
    /\ pc' = [pc EXCEPT ![c] = "scan"]
    /\ i' = [i EXCEPT ![c] = 1]
    /\ cand' = [cand EXCEPT ![c] = {p \in Slot : state[p] = "RUNNABLE"}]
    /\ UNCHANGED <<procVars, lock, proc, prty, min_p, found>>

(* Mutation: the former min_p keeps its lock. *)
LookLeaks(c) ==
    LET p == i[c]
        m == min_p[c] IN
    /\ pc[c] = "scan" /\ p <= NPROC
    /\ lock[p] = Null
    /\ IF /\ queue_level[p] = prty[c] /\ state[p] = "RUNNABLE"
          /\ m = Null \/ ltime[p] < ltime[m]
       THEN /\ lock' = [lock EXCEPT ![p] = c]
            /\ min_p' = [min_p EXCEPT ![c] = p]
       ELSE UNCHANGED <<lock, min_p>>
    /\ i' = [i EXCEPT ![c] = @ + 1]
    /\ UNCHANGED <<procVars, pc, proc, prty, found, cand>>

(* Mutation: every RUNNABLE process of the level replaces min_p. *)
LookLast(c) ==
    LET p == i[c]
        m == min_p[c] IN
    /\ pc[c] = "scan" /\ p <= NPROC
    /\ lock[p] = Null
    /\ IF queue_level[p] = prty[c] /\ state[p] = "RUNNABLE"
       THEN /\ lock' = [q \in Slot |-> IF q = p THEN c
                                       ELSE IF q = m THEN Null ELSE lock[q]]
            /\ min_p' = [min_p EXCEPT ![c] = p]
       ELSE UNCHANGED <<lock, min_p>>
    /\ i' = [i EXCEPT ![c] = @ + 1]
    /\ UNCHANGED <<procVars, pc, proc, prty, found, cand>>

(* The scan of one level at slot i: the least ltime so far keeps its lock, *)
(* the one that had it before is released.                                 *)
Look(c) ==
    LET p == i[c]
        m == min_p[c] IN
    /\ pc[c] = "scan" /\ p <= NPROC
    /\ lock[p] = Null
    /\ IF /\ queue_level[p] = prty[c] /\ state[p] = "RUNNABLE"
          /\ m = Null \/ ltime[p] < ltime[m]
       THEN /\ lock' = [q \in Slot |-> IF q = p THEN c
                                       ELSE IF q = m THEN Null ELSE lock[q]]
            /\ min_p' = [min_p EXCEPT ![c] = p]
       ELSE UNCHANGED <<lock, min_p>>
    /\ i' = [i EXCEPT ![c] = @ + 1]
    /\ UNCHANGED <<procVars, pc, proc, prty, found, cand>>

(* Mutation: after the last level comes level 0 again. *)
LevelEmptyAgain(c) ==
    /\ pc[c] = "scan" /\ i[c] > NPROC /\ min_p[c] = Null
    /\ i' = [i EXCEPT ![c] = 1]
    /\ prty' = [prty EXCEPT ![c] = (@ + 1) % NLEVEL]
    /\ UNCHANGED <<procVars, lock, pc, proc, min_p, found, cand>>

(* Nothing on this level; after the last one schedule_mlfq() returns, and  *)
(* scheduler() calls it again or stops in wfi.                             *)
LevelEmpty(c) ==
    /\ pc[c] = "scan" /\ i[c] > NPROC /\ min_p[c] = Null
    /\ i' = [i EXCEPT ![c] = 1]
    /\ IF prty[c] + 1 < NLEVEL
       THEN /\ prty' = [prty EXCEPT ![c] = @ + 1]
            /\ UNCHANGED <<pc, found, cand>>
       ELSE /\ prty' = [prty EXCEPT ![c] = 0]
            /\ pc' = [pc EXCEPT ![c] = IF found[c] THEN "clean" ELSE "wfi"]
            /\ found' = [found EXCEPT ![c] = FALSE]
            /\ cand' = [cand EXCEPT ![c] = {}]
    /\ UNCHANGED <<procVars, lock, proc, min_p>>

(* p has the latest ltime of all. *)
Latest(p) ==
    LET older(q) == {r \in Slot \ {p} : 0 < ltime[r] /\ ltime[r] <= ltime[q]} IN
    [q \in Slot |-> IF q = p THEN 1 + Cardinality({r \in Slot \ {p} : ltime[r] > 0})
                    ELSE Cardinality(older(q))]

(* min_p, whose lock is held, is switched to; it releases its lock.  The   *)
(* test of p->state before is never FALSE (MinHeld), else the lock would   *)
(* be lost.                                                                *)
Run(c) ==
    LET p == min_p[c] IN
    /\ pc[c] = "scan" /\ i[c] > NPROC /\ p # Null
    /\ state[p] = "RUNNABLE"
    /\ state' = [state EXCEPT ![p] = "RUNNING"]
    /\ ltime' = Latest(p)
    /\ lock' = [lock EXCEPT ![p] = Null]
    /\ proc' = [proc EXCEPT ![c] = p]
    /\ pc' = [pc EXCEPT ![c] = "run"]
    /\ i' = [i EXCEPT ![c] = 1] /\ prty' = [prty EXCEPT ![c] = 0]
    /\ min_p' = [min_p EXCEPT ![c] = Null]
    /\ cand' = [d \in CPU |-> IF d = c THEN {} ELSE cand[d] \ {p}]
    /\ UNCHANGED <<queue_level, found>>

(* Back from swtch(): down is whether the slice is used up; then the       *)
(* search starts again.                                                    *)
Back(c, down) ==
    LET p == proc[c] IN
    /\ pc[c] = "back"
    /\ queue_level' = [queue_level EXCEPT ![p] = IF down /\ @ + 1 < NLEVEL THEN @ + 1 ELSE @]
    /\ lock' = [lock EXCEPT ![p] = Null]
    /\ proc' = [proc EXCEPT ![c] = Null]
    /\ pc' = [pc EXCEPT ![c] = "clean"]
    /\ found' = [found EXCEPT ![c] = TRUE]
    /\ UNCHANGED <<state, ltime, i, prty, min_p, cand>>

(* An interrupt ends the wfi. *)
Interrupt(c) ==
    /\ pc[c] = "wfi"
    /\ pc' = [pc EXCEPT ![c] = "clean"]
    /\ UNCHANGED <<procVars, lock, proc, i, prty, min_p, found, cand>>

SearchStep(c) ==
    \/ \E waited \in BOOLEAN : Clean(c, waited)
    \/ CleanEnd(c) \/ Look(c) \/ LevelEmpty(c) \/ Run(c)

Next ==
    \/ \E c \in CPU :
          \/ SearchStep(c)
          \/ \E down \in BOOLEAN : Back(c, down)
          \/ Interrupt(c)
          \/ \E st \in {"RUNNABLE", "SLEEPING", "ZOMBIE"} : GiveUp(c, st)
          \/ \E q \in Slot : Fork(c, q)
    \/ \E p \in Slot : Wakeup(p) \/ Reap(p)

Spec == Init /\ [][Next]_vars

(* A CPU in the scheduler keeps executing, and gets a spinlock that is     *)
(* free again and again.  Programs, and interrupts, may do nothing.        *)
FairSpec ==
    Spec /\ \A c \in CPU : /\ SF_vars(SearchStep(c))
                           /\ WF_vars(\E down \in BOOLEAN : Back(c, down))
-----------------------------------------------------------------------------
(* Properties *)

(* Which locks the scheduler of a CPU holds: that of min_p, RUNNABLE and   *)
(* on the level searched, or that of the process it is back from; none     *)
(* else.  So min_p cannot be taken by another CPU, "if (p->state !=        *)
(* RUNNABLE) break;" never loses a lock, and swtch() is called with one    *)
(* lock held, as sched() will want it.                                     *)
MinHeld ==
    TypeOK /\ \A c \in CPU :
        /\ {p \in Slot : lock[p] = c} =
              (IF min_p[c] # Null THEN {min_p[c]} ELSE {})
                 \cup (IF pc[c] = "back" THEN {proc[c]} ELSE {})
        /\ min_p[c] # Null =>
              /\ pc[c] = "scan" /\ min_p[c] < i[c]
              /\ state[min_p[c]] = "RUNNABLE" /\ queue_level[min_p[c]] = prty[c]

(* A search that races with other CPUs still runs the right process: no    *)
(* process that was RUNNABLE all the time is on a higher level, or on the  *)
(* same level with an earlier ltime.  And a core stops in wfi only if no   *)
(* process was RUNNABLE throughout its search, but for those that          *)
(* starvation_clean() on another core moved up meanwhile, maybe to a level *)
(* already searched.                                                       *)
PickSound ==
    [][\A c \in CPU :
          /\ pc[c] = "scan" /\ pc'[c] = "run" =>
                \A q \in cand[c] : \/ queue_level[q] > prty[c]
                                   \/ queue_level[q] = prty[c] /\ ltime[q] >= ltime[min_p[c]]
          /\ pc[c] # "wfi" /\ pc'[c] = "wfi" => cand[c] = {}]_vars

(* Schedulers that hold one p->lock and spin for another do not wait for   *)
(* each other forever: every search ends with a process or in wfi.         *)
SearchEnds == \A c \in CPU : pc[c] = "scan" ~> pc[c] \in {"run", "wfi", "clean"}
=============================================================================
