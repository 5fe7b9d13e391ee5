----------------------------- MODULE ProcLocks ------------------------------
(*****************************************************************************)
(* The type invariant of Proc, and how the schedulers, swtch() and the way  *)
(* into and out of the kernel keep the discipline of p->lock, c->proc and   *)
(* wait_lock, for any number of CPUs and of slots in proc[].                *)
(*****************************************************************************)
EXTENDS Proc, TLAPS

-----------------------------------------------------------------------------
(* The type invariant *)

(* Arithmetic of the indices of proc[]. *)
LEMMA IndexFacts ==
    /\ initproc \in Slot /\ Null \notin Slot /\ Null \notin CPU
    /\ 1 \in Slot /\ 1 \in Index
    /\ Slot \subseteq Nat
    /\ \A k \in Index : k > NPROC \/ (k \in Slot /\ k + 1 \in Index)
    /\ \A k \in Index : k <= NPROC => k \in Slot
    /\ \A k \in Slot : k \in Index /\ k + 1 \in Index /\ NextSlot(k) \in Slot
  BY ProcAssumption DEF Slot, Index, initproc, Null, NextSlot

(* The names of states and control points. *)
LEMMA Names ==
    /\ {"UNUSED", "USED", "SLEEPING", "RUNNABLE", "RUNNING", "ZOMBIE"} = States
    /\ Interruptible \subseteq Labels /\ Waiting \subseteq Labels
    /\ {"sched", "resume", "none"} \subseteq Labels
    /\ {"user", "kfork", "fork_parent", "fork_run", "kexit", "kwait", "kkill",
        "trapret"} \subseteq Interruptible
    /\ {"reparent", "wakeinit", "wakeparent", "zombie", "wait_scan",
        "wait_sleep"} \subseteq Waiting
  BY DEF States, Labels, Interruptible, Waiting

LEMMA InitTypeOK == Init => TypeOK
  <1> SUFFICES ASSUME Init PROVE TypeOK
    OBVIOUS
  <1>1. /\ state \in [Slot -> States] /\ pc \in [Slot -> Labels]
        /\ ret \in [Slot -> Interruptible \cup {"slept", "none"}]
    BY Names DEF Init
  <1>2. pid \in [Slot -> Nat] /\ arg \in [Slot -> Nat] /\ nextpid \in Nat
    BY DEF Init
  <1> QED
    BY <1>1, <1>2, IndexFacts DEF Init, TypeOK

LEMMA SchedulerTypeOK ==
    ASSUME TypeOK, NEW c \in CPU, SchedulerStep(c) PROVE TypeOK'
  <1> USE IndexFacts DEF TypeOK
  <1>1. CASE Dispatch(c)
    BY <1>1, Names DEF Dispatch, threadVars
  <1>2. CASE PassOver(c)
    BY <1>2, Zenon DEF PassOver, procVars, threadVars
  <1>3. CASE Switched(c)
    BY <1>3, Zenon DEF Switched, threadVars
  <1> QED
    BY <1>1, <1>2, <1>3 DEF SchedulerStep

LEMMA SwitchTypeOK ==
    ASSUME TypeOK, NEW c \in CPU, NEW p \in Slot, SwitchStep(c, p) PROVE TypeOK'
  <1> USE Names DEF TypeOK, At, Goto
  <1>1. CASE Sched(c, p)
    BY <1>1, IndexFacts DEF Sched, procVars
  <1>2. CASE Resume(c, p)
    BY <1>2, IndexFacts DEF Resume, cpuVars
  <1> QED
    BY <1>1, <1>2 DEF SwitchStep

LEMMA UserTypeOK ==
    ASSUME TypeOK, NEW c \in CPU, NEW p \in Slot, UserStep(c, p) \/ Yield(c, p)
    PROVE  TypeOK'
  <1> USE Names DEF TypeOK, At, Goto
  <1>1. ASSUME NEW call \in {"kfork", "kexit", "kwait"}, Syscall(c, p, call)
        PROVE  TypeOK'
    BY <1>1 DEF Syscall, procVars, cpuVars
  <1>2. ASSUME NEW n \in KillPids, SysKill(c, p, n) PROVE TypeOK'
    BY <1>2, ProcAssumption DEF SysKill, procVars, cpuVars
  <1>3. CASE UserFault(c, p)
    BY <1>3 DEF UserFault, cpuVars
  <1>4. CASE Yield(c, p)
    BY <1>4 DEF Yield, cpuVars
  <1> QED
    BY <1>1, <1>2, <1>3, <1>4 DEF UserStep

LEMMA ReturnTypeOK ==
    ASSUME TypeOK, NEW p \in Slot, Return(p)
    PROVE  /\ pc' \in [Slot -> Labels] /\ ret' = ret
           /\ i' \in [Slot -> Index] /\ arg' \in [Slot -> Nat]
           /\ havekids' \in [Slot -> BOOLEAN]
  BY IndexFacts, Names, SMTT(30) DEF TypeOK, Return, Goto

LEMMA KernelTypeOK ==
    ASSUME TypeOK, NEW c \in CPU, NEW p \in Slot, KernelStep(c, p) PROVE TypeOK'
  <1> USE IndexFacts, Names, ReturnTypeOK DEF TypeOK, At, Goto, cpuVars
  <1>1. CASE TrapKilled(c, p)
    BY <1>1 DEF TrapKilled, procVars
  <1>2. CASE TrapReturn(c, p)
    BY <1>2 DEF TrapReturn, procVars
  <1>3. CASE AllocSkip(c, p)
    <2>1. CASE i[p] > NPROC
      BY <1>3, <2>1 DEF AllocSkip, procVars
    <2>2. CASE ~(i[p] > NPROC)
      <3>1. i' \in [Slot -> Index]
        BY <1>3, <2>2 DEF AllocSkip
      <3> QED
        BY <1>3, <2>2, <3>1 DEF AllocSkip, procVars
    <2> QED
      BY <2>1, <2>2
  <1>4. CASE AllocFound(c, p)
    <2>1. i[p] \in Slot /\ i[p] \in Nat
      BY <1>4, Zenon DEF AllocFound
    <2>2. pc' \in [Slot -> Labels]
      BY <1>4, <2>1 DEF AllocFound
    <2> QED
      BY <1>4, <2>1, <2>2 DEF AllocFound
  <1>5. CASE AllocFail(c, p)
    BY <1>5 DEF AllocFail, FreeProc
  <1>6. CASE ForkParent(c, p)
    BY <1>6, Zenon DEF ForkParent
  <1>7. CASE ForkRun(c, p)
    BY <1>7, Zenon DEF ForkRun
  <1>8. CASE ExitLock(c, p)
    BY <1>8 DEF ExitLock
  <1>9. CASE Reparent(c, p)
    BY <1>9 DEF Reparent
  <1>10. CASE WakeInit(c, p)
    BY <1>10 DEF WakeInit, Wakeup
  <1>11. CASE WakeParent(c, p)
    BY <1>11 DEF WakeParent, Wakeup
  <1>12. CASE Zombie(c, p)
    BY <1>12 DEF Zombie
  <1>13. CASE WaitLock(c, p)
    BY <1>13 DEF WaitLock
  <1>14. CASE WaitSkip(c, p)
    BY <1>14 DEF WaitSkip, procVars
  <1>15. CASE WaitReap(c, p)
    BY <1>15 DEF WaitReap, FreeProc
  <1>16. CASE WaitCopyFail(c, p)
    BY <1>16 DEF WaitCopyFail
  <1>17. CASE WaitDone(c, p)
    <2>1. CASE Return(p) /\ wait_lock' = Null
      BY <1>17, <2>1 DEF WaitDone
    <2>2. CASE ~(Return(p) /\ wait_lock' = Null)
      <3>1. pc' = [pc EXCEPT ![p] = "wait_sleep"] /\ i' = [i EXCEPT ![p] = 1]
        BY <1>17, <2>2 DEF WaitDone
      <3>2. havekids' \in [Slot -> BOOLEAN]
        BY <1>17, <2>2, ZenonT(60) DEF WaitDone
      <3> QED
        BY <1>17, <2>2, <3>1, <3>2 DEF WaitDone
    <2> QED
      BY <2>1, <2>2
  <1>18. CASE WaitSleep(c, p)
    BY <1>18 DEF WaitSleep, Sleep
  <1>19. CASE KillScan(c, p)
    <2>1. killed' \in [Slot -> BOOLEAN] /\ state' \in [Slot -> States]
      <3>1. killed' \in [Slot -> BOOLEAN]
        BY <1>19, Zenon DEF KillScan
      <3>2. state' \in [Slot -> States]
        BY <1>19 DEF KillScan
      <3> QED
        BY <3>1, <3>2
    <2>2. CASE Return(p)
      BY <1>19, <2>1, <2>2 DEF KillScan
    <2>3. CASE ~Return(p)
      <3>1. i' \in [Slot -> Index]
        BY <1>19, <2>3 DEF KillScan
      <3> QED
        BY <1>19, <2>1, <2>3, <3>1 DEF KillScan
    <2> QED
      BY <2>2, <2>3
  <1> QED
    BY <1>1, <1>2, <1>3, <1>4, <1>5, <1>6, <1>7, <1>8, <1>9, <1>10, <1>11,
       <1>12, <1>13, <1>14, <1>15, <1>16, <1>17, <1>18, <1>19 DEF KernelStep

LEMMA NextTypeOK == TypeOK /\ [Next]_vars => TypeOK'
  <1> SUFFICES ASSUME TypeOK, [Next]_vars PROVE TypeOK'
    OBVIOUS
  <1>1. CASE UNCHANGED vars
    BY <1>1 DEF TypeOK, vars, procVars, cpuVars, threadVars
  <1>2. CASE Next
    BY <1>2, SchedulerTypeOK, KernelTypeOK, SwitchTypeOK, UserTypeOK DEF Next
  <1> QED
    BY <1>1, <1>2

(* Every state the kernel reaches is well typed: no scan leaves proc[], no *)
(* lock is held by anything but a CPU, no thread is at an unknown place.   *)
THEOREM TypeCorrect == Spec => []TypeOK
  BY InitTypeOK, NextTypeOK, PTL DEF Spec

-----------------------------------------------------------------------------
(* The discipline of the locks *)

LEMMA InitDiscipline == Init => LockDiscipline
  BY IndexFacts DEF Init, LockDiscipline, ThreadsOnCpus, LocksHandedOver,
     WaitLockHeld, ForkOwnsSlot, ReturnPoints, Where, Waiting

(* The part of the type invariant that the discipline rests on. *)
LEMMA LockTypes ==
    ASSUME TypeOK
    PROVE  /\ pc \in [Slot -> Labels] /\ state \in [Slot -> States]
           /\ lock \in [Slot -> CPU \cup {Null}]
           /\ proc \in [CPU -> Slot \cup {Null}]
           /\ thread \in [CPU -> Slot \cup {Null}]
           /\ ret \in [Slot -> Interruptible \cup {"slept", "none"}]
           /\ arg \in [Slot -> Nat]
  BY DEF TypeOK

(* A CPU on the stack of p is the only one that has anything to do with p. *)
LEMMA OwnCpu ==
    ASSUME TypeOK, LockDiscipline, NEW c \in CPU, NEW p \in Slot, thread[c] = p
    PROVE  /\ p # Null /\ proc[c] = p
           /\ \A d \in CPU : proc[d] = p \/ thread[d] = p => d = c
           /\ pc[p] \notin {"sched", "resume"} => lock[p] = Null
           /\ pc[p] # "sched" => state[p] = "RUNNING"
  <1>1. p # Null /\ proc[c] = p
    BY IndexFacts DEF LockDiscipline, ThreadsOnCpus
  <1>2. \A d \in CPU : proc[d] = p \/ thread[d] = p => d = c
    BY <1>1 DEF LockDiscipline, ThreadsOnCpus
  <1>3. pc[p] \notin {"sched", "resume"} => lock[p] = Null
    BY <1>1 DEF LockDiscipline, LocksHandedOver
  <1>4. pc[p] # "sched" => state[p] = "RUNNING"
    BY <1>1 DEF LockDiscipline, LocksHandedOver
  <1> QED
    BY <1>1, <1>2, <1>3, <1>4

(* A held p->lock is held by the CPU whose process p is. *)
LEMMA LockedByOwner ==
    ASSUME TypeOK, LockDiscipline, NEW c \in CPU, NEW q \in Slot, lock[q] = c
    PROVE  proc[c] = q
  <1>1. PICK d \in CPU : proc[d] = q
    BY IndexFacts DEF LockDiscipline, LocksHandedOver
  <1>2. q # Null /\ c # Null
    BY IndexFacts
  <1>3. CASE thread[d] = Null \/ pc[q] = "sched"
    BY <1>1, <1>2, <1>3 DEF LockDiscipline, LocksHandedOver
  <1>4. CASE ~(thread[d] = Null \/ pc[q] = "sched")
    <2>1. thread[d] = q
      BY <1>1, <1>4 DEF LockDiscipline, ThreadsOnCpus
    <2> QED
      BY <1>1, <1>2, <2>1 DEF LockDiscipline, LocksHandedOver
  <1> QED
    BY <1>3, <1>4

(* A process that is not RUNNING and whose lock is free is on no CPU. *)
LEMMA OffCpu ==
    ASSUME TypeOK, LockDiscipline, NEW q \in Slot, lock[q] = Null,
           state[q] # "RUNNING"
    PROVE  /\ \A d \in CPU : proc[d] # q /\ thread[d] # q
           /\ pc[q] \in {"resume", "none"}
  <1>1. q # Null /\ Null \notin CPU
    BY IndexFacts
  <1>2. ASSUME NEW d \in CPU PROVE proc[d] # q
    BY <1>1 DEF LockDiscipline, LocksHandedOver
  <1>3. ASSUME NEW d \in CPU PROVE thread[d] # q
    BY <1>1, <1>2 DEF LockDiscipline, ThreadsOnCpus
  <1>4. pc[q] \in {"resume", "none"}
    BY <1>3 DEF LockDiscipline, ThreadsOnCpus
  <1> QED
    BY <1>2, <1>3, <1>4

(* The hand-over of locks, where nothing changes about the processes that  *)
(* CPUs have.                                                              *)
LEMMA HandedOverKept ==
    ASSUME LocksHandedOver, <<lock, proc, thread>>' = <<lock, proc, thread>>,
           \A d \in CPU : proc[d] # Null =>
              /\ state'[proc[d]] = state[proc[d]]
              /\ pc'[proc[d]] = "sched" <=> pc[proc[d]] = "sched",
           \A d \in CPU : thread[d] # Null =>
              (pc'[thread[d]] \in {"sched", "resume"}
                 <=> pc[thread[d]] \in {"sched", "resume"}),
           \A q \in Slot : state'[q] = "RUNNING" => state[q] = "RUNNING"
    PROVE  LocksHandedOver'
  BY DEF LocksHandedOver

(* Most steps of a kernel thread only move it on inside the kernel: they   *)
(* take or release wait_lock, and wake sleeping processes whose lock is    *)
(* free.                                                                   *)
LEMMA ThreadStep ==
    ASSUME TypeOK, LockDiscipline, NEW c \in CPU, NEW p \in Slot, thread[c] = p,
           pc[p] \in Interruptible \cup Waiting,
           NEW l \in Interruptible \cup Waiting,
           pc' = [pc EXCEPT ![p] = l],
           thread' = thread, proc' = proc, lock' = lock, ret' = ret,
           \A q \in Slot : \/ state'[q] = state[q]
                           \/ /\ state[q] = "SLEEPING" /\ state'[q] = "RUNNABLE"
                              /\ lock[q] = Null,
           \A q \in Slot \ {p} : arg'[q] = arg[q],
           l \in {"fork_parent", "fork_run"} =>
              pc[p] \in {"fork_parent", "fork_run"} /\ arg'[p] = arg[p],
           wait_lock' = IF l \in Waiting THEN c
                        ELSE IF pc[p] \in Waiting THEN Null ELSE wait_lock,
           l \in Waiting => pc[p] \in Waiting \/ wait_lock = Null
    PROVE  LockDiscipline'
  <1>1. pc'[p] = l /\ \A q \in Slot : q # p => pc'[q] = pc[q]
    BY LockTypes
  <1>2. /\ p # Null /\ proc[c] = p
        /\ \A d \in CPU : proc[d] = p \/ thread[d] = p => d = c
    BY OwnCpu
  <1>3. /\ l \notin {"sched", "resume", "none"}
        /\ pc[p] \notin {"sched", "resume", "none"}
    BY DEF Interruptible, Waiting
  <1>4. ASSUME NEW d \in CPU
        PROVE  /\ proc[d] # Null => proc[d] \in Slot
               /\ thread[d] # Null => thread[d] \in Slot
    BY LockTypes
  <1>5. ThreadsOnCpus'
    BY <1>1, <1>2, <1>3 DEF LockDiscipline, ThreadsOnCpus
  <1>6. LocksHandedOver'
    <2>1. ASSUME NEW d \in CPU, proc[d] # Null
          PROVE  /\ state'[proc[d]] = state[proc[d]]
                 /\ pc'[proc[d]] = "sched" <=> pc[proc[d]] = "sched"
      <3>1. state[proc[d]] = "SLEEPING" => lock[proc[d]] # Null
        BY <1>4, <2>1, OffCpu
      <3> QED
        BY <1>1, <1>3, <1>4, <2>1, <3>1
    <2>2. ASSUME NEW d \in CPU, thread[d] # Null
          PROVE  pc'[thread[d]] \in {"sched", "resume"}
                    <=> pc[thread[d]] \in {"sched", "resume"}
      BY <1>1, <1>3, <1>4, <2>2
    <2> QED
      BY <2>1, <2>2 DEF LockDiscipline, LocksHandedOver
  <1>7. WaitLockHeld'
    <2>1. ASSUME NEW d \in CPU, d # c, thread[d] # Null
          PROVE  pc'[thread[d]] = pc[thread[d]]
      BY <1>1, <1>2, <1>4, <2>1
    <2>2. ASSUME NEW d \in CPU, d # c
          PROVE  wait_lock' = d <=> thread[d] # Null /\ pc'[thread[d]] \in Waiting
      BY <1>2, <2>1, <2>2, IndexFacts DEF LockDiscipline, WaitLockHeld
    <2>3. wait_lock' = c <=> l \in Waiting
      BY <1>2, IndexFacts DEF LockDiscipline, WaitLockHeld
    <2> QED
      BY <1>1, <1>2, <2>2, <2>3 DEF WaitLockHeld
  <1>8. ForkOwnsSlot'
    <2>1. ASSUME NEW q \in Slot, Where(q)' \in {"fork_parent", "fork_run"}
          PROVE  Where(q) \in {"fork_parent", "fork_run"} /\ arg'[q] = arg[q]
      BY <1>1, <1>3, <2>1 DEF Where
    <2> QED
      BY <2>1 DEF LockDiscipline, ForkOwnsSlot
  <1>9. ReturnPoints'
    BY <1>1, <1>3 DEF LockDiscipline, ReturnPoints
  <1> QED
    BY <1>5, <1>6, <1>7, <1>8, <1>9 DEF LockDiscipline

(* yield(), sleep() and the end of kexit(): p takes its lock, changes its  *)
(* state and calls sched(), with wait_lock released.                       *)
LEMMA EnterSched ==
    ASSUME TypeOK, LockDiscipline, NEW c \in CPU, NEW p \in Slot, thread[c] = p,
           pc[p] \in Interruptible \cup Waiting,
           pc' = [pc EXCEPT ![p] = "sched"],
           thread' = thread, proc' = proc, arg' = arg,
           lock' = [lock EXCEPT ![p] = c],
           NEW s \in {"RUNNABLE", "SLEEPING", "ZOMBIE"},
           state' = [state EXCEPT ![p] = s],
           \A q \in Slot \ {p} : ret'[q] = ret[q],
           ret'[p] = "none" => s = "ZOMBIE",
           ret'[p] \in {"fork_parent", "fork_run"} => ret'[p] = pc[p],
           wait_lock' = IF pc[p] \in Waiting THEN Null ELSE wait_lock
    PROVE  LockDiscipline'
  <1>1. /\ pc'[p] = "sched" /\ state'[p] = s /\ lock'[p] = c
        /\ \A q \in Slot : q # p => /\ pc'[q] = pc[q] /\ ret'[q] = ret[q]
                                    /\ state'[q] = state[q] /\ lock'[q] = lock[q]
    BY LockTypes
  <1>2. /\ p # Null /\ proc[c] = p
        /\ \A d \in CPU : proc[d] = p \/ thread[d] = p => d = c
        /\ pc[p] \notin {"sched", "resume"} => state[p] = "RUNNING"
    BY OwnCpu
  <1>3. pc[p] \notin {"sched", "resume", "none"} /\ "sched" \notin Waiting
    BY DEF Interruptible, Waiting
  <1>4. ASSUME NEW d \in CPU, d # c
        PROVE  /\ proc[d] # p /\ thread[d] # p
               /\ proc[d] # Null => proc[d] \in Slot
               /\ thread[d] # Null => thread[d] \in Slot
    BY <1>2, <1>4, LockTypes
  <1>5. ThreadsOnCpus'
    BY <1>1, <1>2 DEF LockDiscipline, ThreadsOnCpus
  <1>6. LocksHandedOver'
    <2>1. ASSUME NEW d \in CPU, d # c, proc[d] # Null
          PROVE  /\ state'[proc[d]] = state[proc[d]]
                 /\ pc'[proc[d]] = pc[proc[d]]
                 /\ lock'[proc[d]] = lock[proc[d]]
      BY <1>1, <1>4, <2>1
    <2>2. ASSUME NEW d \in CPU, d # c, thread[d] # Null
          PROVE  /\ pc'[thread[d]] = pc[thread[d]]
                 /\ lock'[thread[d]] = lock[thread[d]]
      BY <1>1, <1>4, <2>2
    <2>3. ASSUME NEW d \in CPU, proc[d] # Null
          PROVE  IF thread[d] = Null \/ pc'[proc[d]] = "sched"
                 THEN /\ lock'[proc[d]] = d
                      /\ state'[proc[d]] \in {"RUNNABLE", "SLEEPING", "ZOMBIE"}
                 ELSE state'[proc[d]] = "RUNNING"
      BY <1>1, <1>2, <2>1, <2>3 DEF LockDiscipline, LocksHandedOver
    <2>4. ASSUME NEW d \in CPU, thread[d] # Null
          PROVE  lock'[thread[d]] =
                   IF pc'[thread[d]] \in {"sched", "resume"} THEN d ELSE Null
      BY <1>1, <1>2, <2>2, <2>4 DEF LockDiscipline, LocksHandedOver
    <2>5. ASSUME NEW q \in Slot, \A d \in CPU : proc[d] # q
          PROVE  lock'[q] = Null /\ state'[q] # "RUNNING"
      BY <1>1, <1>2, <2>5 DEF LockDiscipline, LocksHandedOver
    <2> QED
      BY <2>3, <2>4, <2>5 DEF LocksHandedOver
  <1>7. WaitLockHeld'
    <2>1. ASSUME NEW d \in CPU, d # c, thread[d] # Null
          PROVE  pc'[thread[d]] = pc[thread[d]]
      BY <1>1, <1>4, <2>1
    <2>2. ASSUME NEW d \in CPU, d # c
          PROVE  wait_lock' = d <=> thread[d] # Null /\ pc'[thread[d]] \in Waiting
      BY <1>2, <2>1, <2>2, IndexFacts DEF LockDiscipline, WaitLockHeld
    <2>3. wait_lock' # c
      BY <1>2, IndexFacts DEF LockDiscipline, WaitLockHeld
    <2> QED
      BY <1>1, <1>3, <2>2, <2>3 DEF WaitLockHeld
  <1>8. ForkOwnsSlot'
    <2>1. ASSUME NEW q \in Slot, Where(q)' \in {"fork_parent", "fork_run"}
          PROVE  Where(q) \in {"fork_parent", "fork_run"}
      BY <1>1, <1>3, <2>1 DEF Where
    <2>2. ASSUME NEW q \in Slot, state[q] = "USED" PROVE state'[q] = "USED"
      BY <1>1, <1>2, <1>3, <2>2
    <2> QED
      BY <2>1, <2>2 DEF LockDiscipline, ForkOwnsSlot
  <1>9. ReturnPoints'
    BY <1>1 DEF LockDiscipline, ReturnPoints
  <1> QED
    BY <1>5, <1>6, <1>7, <1>8, <1>9 DEF LockDiscipline

(* A step that leaves alone everything the discipline speaks of. *)
LEMMA SameDiscipline ==
    ASSUME LockDiscipline,
           <<state, lock, wait_lock, proc, thread, pc, ret, arg>>'
             = <<state, lock, wait_lock, proc, thread, pc, ret, arg>>
    PROVE  LockDiscipline'
  <1>1. ThreadsOnCpus' /\ LocksHandedOver' /\ WaitLockHeld'
    BY DEF LockDiscipline, ThreadsOnCpus, LocksHandedOver, WaitLockHeld
  <1>2. ForkOwnsSlot' /\ ReturnPoints'
    BY DEF LockDiscipline, ForkOwnsSlot, ReturnPoints, Where
  <1> QED
    BY <1>1, <1>2 DEF LockDiscipline

LEMMA SchedulerDiscipline ==
    ASSUME TypeOK, LockDiscipline, NEW c \in CPU, SchedulerStep(c)
    PROVE  LockDiscipline'
  <1>1. CASE Dispatch(c)
    <2>1. PICK p \in Slot : scan[c] = p
      BY DEF TypeOK
    <2>2. /\ p # Null /\ c # Null
          /\ \A d \in CPU : proc[d] # p /\ thread[d] # p
          /\ pc[p] = "resume" /\ "resume" \notin Waiting
      BY <1>1, <2>1, OffCpu, IndexFacts
         DEF Dispatch, LockDiscipline, ThreadsOnCpus, Waiting
    <2>3. /\ thread[c] = Null /\ state[p] = "RUNNABLE"
          /\ thread'[c] = p /\ proc'[c] = p /\ lock'[p] = c
          /\ state'[p] = "RUNNING"
          /\ \A d \in CPU : d # c => thread'[d] = thread[d] /\ proc'[d] = proc[d]
          /\ \A q \in Slot : q # p => lock'[q] = lock[q] /\ state'[q] = state[q]
      BY <1>1, <2>1, LockTypes DEF Dispatch
    <2>4. <<wait_lock, pc, ret, arg>>' = <<wait_lock, pc, ret, arg>>
      BY <1>1 DEF Dispatch, threadVars
    <2>5. ASSUME NEW d \in CPU
          PROVE  /\ proc[d] # Null => proc[d] \in Slot
                 /\ thread[d] # Null => thread[d] \in Slot
      BY LockTypes
    <2>6. ThreadsOnCpus'
      <3>1. ASSUME NEW q \in Slot, \A d \in CPU : thread'[d] # q
            PROVE  pc[q] \in {"resume", "none"}
        <4>1. \A d \in CPU : thread[d] # q
          BY <2>3, <3>1, IndexFacts
        <4> QED
          BY <4>1 DEF LockDiscipline, ThreadsOnCpus
      <3>2. ASSUME NEW q \in Slot, pc[q] = "none"
            PROVE  state'[q] = "UNUSED"
        BY <2>2, <2>3, <3>2 DEF LockDiscipline, ThreadsOnCpus
      <3>3. /\ \A d \in CPU : thread'[d] # Null => proc'[d] = thread'[d]
            /\ \A d, e \in CPU : proc'[d] # Null /\ proc'[d] = proc'[e] => d = e
        BY <2>2, <2>3 DEF LockDiscipline, ThreadsOnCpus
      <3> QED
        BY <2>4, <3>1, <3>2, <3>3 DEF ThreadsOnCpus
    <2>7. LocksHandedOver'
      <3>1. ASSUME NEW d \in CPU, proc'[d] # Null
            PROVE  IF thread'[d] = Null \/ pc[proc'[d]] = "sched"
                   THEN /\ lock'[proc'[d]] = d
                        /\ state'[proc'[d]] \in {"RUNNABLE", "SLEEPING", "ZOMBIE"}
                   ELSE state'[proc'[d]] = "RUNNING"
        BY <2>2, <2>3, <2>5, <3>1 DEF LockDiscipline, LocksHandedOver
      <3>2. ASSUME NEW d \in CPU, thread'[d] # Null
            PROVE  lock'[thread'[d]] =
                     IF pc[thread'[d]] \in {"sched", "resume"} THEN d ELSE Null
        BY <2>2, <2>3, <2>5, <3>2 DEF LockDiscipline, LocksHandedOver
      <3>3. ASSUME NEW q \in Slot, \A d \in CPU : proc'[d] # q
            PROVE  lock'[q] = Null /\ state'[q] # "RUNNING"
        <4>1. q # p /\ \A d \in CPU : d # c => proc[d] # q
          BY <2>3, <3>3
        <4>2. proc[c] # q
          BY <1>1, IndexFacts DEF Dispatch
        <4>3. \A d \in CPU : proc[d] # q
          BY <4>1, <4>2
        <4>4. lock[q] = Null /\ state[q] # "RUNNING"
          BY <4>3, Zenon DEF LockDiscipline, LocksHandedOver
        <4> QED
          BY <2>3, <4>1, <4>4
      <3> QED
        BY <2>4, <3>1, <3>2, <3>3 DEF LocksHandedOver
    <2>8. WaitLockHeld'
      <3>1. ASSUME NEW d \in CPU
            PROVE  thread'[d] # Null /\ pc[thread'[d]] \in Waiting
                     <=> thread[d] # Null /\ pc[thread[d]] \in Waiting
        <4>1. CASE d = c
          BY <2>2, <2>3, <4>1
        <4>2. CASE d # c
          BY <2>3, <4>2
        <4> QED
          BY <4>1, <4>2
      <3>2. WaitLockHeld
        BY DEF LockDiscipline
      <3> QED
        BY <2>4, <3>1, <3>2 DEF WaitLockHeld
    <2>9. ForkOwnsSlot'
      BY <2>3, <2>4 DEF LockDiscipline, ForkOwnsSlot, Where
    <2>10. ReturnPoints'
      BY <2>3, <2>4 DEF LockDiscipline, ReturnPoints
    <2> QED
      BY <2>6, <2>7, <2>8, <2>9, <2>10 DEF LockDiscipline
  <1>2. CASE PassOver(c)
    <2>1. <<state, lock, wait_lock, proc, thread, pc, ret, arg>>'
            = <<state, lock, wait_lock, proc, thread, pc, ret, arg>>
      BY <1>2 DEF PassOver, procVars, threadVars
    <2> QED
      BY <2>1, SameDiscipline
  <1>3. CASE Switched(c)
    <2>1. PICK p \in Slot : proc[c] = p
      BY <1>3, LockTypes DEF Switched
    <2>2. /\ p # Null /\ thread[c] = Null /\ lock[p] = c
          /\ state[p] # "RUNNING"
          /\ \A d \in CPU : proc[d] = p \/ thread[d] = p => d = c
      BY <1>3, <2>1, IndexFacts
         DEF Switched, LockDiscipline, LocksHandedOver, ThreadsOnCpus
    <2>3. /\ proc'[c] = Null /\ lock'[p] = Null
          /\ \A d \in CPU : d # c => proc'[d] = proc[d]
          /\ \A q \in Slot : q # p => lock'[q] = lock[q]
      BY <1>3, <2>1, LockTypes DEF Switched
    <2>4. <<state, wait_lock, thread, pc, ret, arg>>'
            = <<state, wait_lock, thread, pc, ret, arg>>
      BY <1>3 DEF Switched, threadVars
    <2>5. ASSUME NEW d \in CPU
          PROVE  /\ proc[d] # Null => proc[d] \in Slot
                 /\ thread[d] # Null => thread[d] \in Slot
      BY LockTypes
    <2>6. ThreadsOnCpus'
      BY <2>2, <2>3, <2>4 DEF LockDiscipline, ThreadsOnCpus
    <2>7. LocksHandedOver'
      <3>1. ASSUME NEW d \in CPU, proc'[d] # Null
            PROVE  /\ proc'[d] = proc[d] /\ proc[d] \in Slot /\ proc[d] # p
        BY <2>2, <2>3, <2>5, <3>1
      <3>2. ASSUME NEW d \in CPU, thread[d] # Null
            PROVE  thread[d] \in Slot /\ thread[d] # p
        BY <2>2, <2>5, <3>2
      <3>3. ASSUME NEW q \in Slot, q # p, \A d \in CPU : proc'[d] # q
            PROVE  lock[q] = Null /\ state[q] # "RUNNING"
        BY <2>1, <2>3, <3>3 DEF LockDiscipline, LocksHandedOver
      <3> QED
        <4>1. ASSUME NEW d \in CPU, proc'[d] # Null
              PROVE  IF thread'[d] = Null \/ pc'[proc'[d]] = "sched"
                     THEN /\ lock'[proc'[d]] = d
                          /\ state'[proc'[d]] \in {"RUNNABLE", "SLEEPING", "ZOMBIE"}
                     ELSE state'[proc'[d]] = "RUNNING"
          BY <2>3, <2>4, <3>1, <4>1 DEF LockDiscipline, LocksHandedOver
        <4>2. ASSUME NEW d \in CPU, thread'[d] # Null
              PROVE  lock'[thread'[d]] =
                       IF pc'[thread'[d]] \in {"sched", "resume"} THEN d ELSE Null
          BY <2>3, <2>4, <3>2, <4>2 DEF LockDiscipline, LocksHandedOver
        <4>3. ASSUME NEW q \in Slot, \A d \in CPU : proc'[d] # q
              PROVE  lock'[q] = Null /\ state'[q] # "RUNNING"
          BY <2>2, <2>3, <2>4, <3>3, <4>3
        <4> QED
          BY <4>1, <4>2, <4>3, Zenon DEF LocksHandedOver
    <2>8. WaitLockHeld' /\ ForkOwnsSlot' /\ ReturnPoints'
      <3>1. WaitLockHeld'
        BY <2>4 DEF LockDiscipline, WaitLockHeld
      <3>2. ForkOwnsSlot'
        BY <2>4 DEF LockDiscipline, ForkOwnsSlot, Where
      <3>3. ReturnPoints'
        BY <2>4 DEF LockDiscipline, ReturnPoints
      <3> QED
        BY <3>1, <3>2, <3>3
    <2> QED
      BY <2>6, <2>7, <2>8 DEF LockDiscipline
  <1> QED
    BY <1>1, <1>2, <1>3 DEF SchedulerStep

LEMMA SwitchDiscipline ==
    ASSUME TypeOK, LockDiscipline, NEW c \in CPU, NEW p \in Slot,
           SwitchStep(c, p) \/ Yield(c, p)
    PROVE  LockDiscipline'
  <1>1. CASE Sched(c, p)
    <2>1. /\ p # Null /\ thread[c] = p /\ proc[c] = p /\ pc[p] = "sched"
          /\ \A d \in CPU : proc[d] = p \/ thread[d] = p => d = c
      BY <1>1, OwnCpu DEF Sched, At
    <2>2. /\ thread'[c] = Null /\ pc'[p] = "resume"
          /\ \A d \in CPU : d # c => thread'[d] = thread[d]
          /\ \A q \in Slot : q # p => pc'[q] = pc[q]
      BY <1>1, LockTypes DEF Sched, Goto
    <2>3. <<state, lock, wait_lock, proc, ret, arg>>'
            = <<state, lock, wait_lock, proc, ret, arg>>
      BY <1>1 DEF Sched, procVars
    <2>4. ASSUME NEW d \in CPU
          PROVE  /\ proc[d] # Null => proc[d] \in Slot
                 /\ thread[d] # Null => thread[d] \in Slot
      BY LockTypes
    <2>5. ThreadsOnCpus'
      <3>1. ASSUME NEW d \in CPU, thread'[d] # Null PROVE proc[d] = thread'[d]
        BY <2>2, <3>1 DEF LockDiscipline, ThreadsOnCpus
      <3>2. ASSUME NEW q \in Slot, \A d \in CPU : thread'[d] # q
            PROVE  pc'[q] \in {"resume", "none"}
        BY <2>1, <2>2, <3>2 DEF LockDiscipline, ThreadsOnCpus
      <3>3. ASSUME NEW q \in Slot, pc'[q] = "none" PROVE state[q] = "UNUSED"
        BY <2>2, <3>3 DEF LockDiscipline, ThreadsOnCpus
      <3>4. proc' = proc /\ state' = state
        BY <2>3
      <3> QED
        BY <3>1, <3>2, <3>3, <3>4, Zenon DEF LockDiscipline, ThreadsOnCpus
    <2>6. LocksHandedOver'
      <3>1. ASSUME NEW d \in CPU, d # c, proc[d] # Null
            PROVE  thread'[d] = thread[d] /\ pc'[proc[d]] = pc[proc[d]]
        BY <2>1, <2>2, <2>4, <3>1
      <3>2. ASSUME NEW d \in CPU, thread'[d] # Null
            PROVE  thread'[d] = thread[d] /\ pc'[thread[d]] = pc[thread[d]]
        BY <2>1, <2>2, <2>4, <3>2
      <3>3. lock[p] = c /\ state[p] \in {"RUNNABLE", "SLEEPING", "ZOMBIE"}
        BY <2>1 DEF LockDiscipline, LocksHandedOver
      <3> QED
        <4>1. ASSUME NEW d \in CPU, proc[d] # Null
              PROVE  IF thread'[d] = Null \/ pc'[proc[d]] = "sched"
                     THEN /\ lock[proc[d]] = d
                          /\ state[proc[d]] \in {"RUNNABLE", "SLEEPING", "ZOMBIE"}
                     ELSE state[proc[d]] = "RUNNING"
          <5>1. CASE d = c
            BY <2>1, <2>2, <3>3, <5>1
          <5>2. CASE d # c
            BY <3>1, <4>1, <5>2 DEF LockDiscipline, LocksHandedOver
          <5> QED
            BY <5>1, <5>2
        <4>2. ASSUME NEW d \in CPU, thread'[d] # Null
              PROVE  lock[thread'[d]] =
                       IF pc'[thread'[d]] \in {"sched", "resume"} THEN d ELSE Null
          BY <3>2, <4>2 DEF LockDiscipline, LocksHandedOver
        <4>3. proc' = proc /\ lock' = lock /\ state' = state
          BY <2>3
        <4> QED
          BY <4>1, <4>2, <4>3, Zenon DEF LockDiscipline, LocksHandedOver
    <2>7. WaitLockHeld'
      <3>1. ASSUME NEW d \in CPU, thread'[d] # Null
            PROVE  thread'[d] = thread[d] /\ pc'[thread[d]] = pc[thread[d]]
        BY <2>1, <2>2, <2>4, <3>1
      <3>2. wait_lock # c
        BY <2>1 DEF LockDiscipline, WaitLockHeld, Waiting
      <3> QED
        <4>1. ASSUME NEW d \in CPU
              PROVE  wait_lock = d <=> thread'[d] # Null /\ pc'[thread'[d]] \in Waiting
          BY <2>2, <3>1, <3>2 DEF LockDiscipline, WaitLockHeld
        <4> QED
          BY <2>3, <4>1 DEF WaitLockHeld
    <2>8. ForkOwnsSlot'
      <3>1. ASSUME NEW q \in Slot PROVE Where(q)' = Where(q)
        BY <2>1, <2>2, <2>3 DEF Where
      <3> QED
        BY <2>3, <3>1 DEF LockDiscipline, ForkOwnsSlot
    <2>9. ReturnPoints'
      BY <2>1, <2>2, <2>3 DEF LockDiscipline, ReturnPoints
    <2> QED
      BY <2>5, <2>6, <2>7, <2>8, <2>9 DEF LockDiscipline
  <1>2. CASE Resume(c, p)
    <2> DEFINE l == IF ret[p] = "slept" THEN "kwait" ELSE ret[p]
    <2>1. /\ p # Null /\ thread[c] = p /\ proc[c] = p /\ pc[p] = "resume"
          /\ state[p] = "RUNNING"
          /\ \A d \in CPU : proc[d] = p \/ thread[d] = p => d = c
      BY <1>2, OwnCpu DEF Resume, At
    <2>2. l \in Interruptible
      BY <2>1, LockTypes, Names DEF LockDiscipline, ReturnPoints
    <2>3. /\ l \notin {"sched", "resume", "none"} /\ l \notin Waiting
          /\ l \in {"fork_parent", "fork_run"} => l = ret[p]
      BY <2>2 DEF Interruptible, Waiting
    <2>4. /\ pc'[p] = l /\ lock'[p] = Null /\ ret'[p] = "none"
          /\ \A q \in Slot : q # p => /\ pc'[q] = pc[q] /\ ret'[q] = ret[q]
                                      /\ lock'[q] = lock[q]
      BY <1>2, LockTypes DEF Resume, Goto
    <2>5. <<state, wait_lock, proc, thread, arg>>'
            = <<state, wait_lock, proc, thread, arg>>
      BY <1>2 DEF Resume, cpuVars
    <2>6. ASSUME NEW d \in CPU, d # c
          PROVE  /\ proc[d] # Null => proc[d] \in Slot /\ proc[d] # p
                 /\ thread[d] # Null => thread[d] \in Slot /\ thread[d] # p
      BY <2>1, <2>6, LockTypes
    <2> HIDE DEF l
    <2>7. ThreadsOnCpus'
      <3>1. ASSUME NEW q \in Slot, \A d \in CPU : thread[d] # q
            PROVE  pc'[q] \in {"resume", "none"}
        BY <2>1, <2>4, <3>1 DEF LockDiscipline, ThreadsOnCpus
      <3>2. ASSUME NEW q \in Slot, pc'[q] = "none" PROVE state[q] = "UNUSED"
        BY <2>3, <2>4, <3>2 DEF LockDiscipline, ThreadsOnCpus
      <3>3. thread' = thread /\ proc' = proc /\ state' = state
        BY <2>5
      <3> QED
        BY <3>1, <3>2, <3>3, Zenon DEF LockDiscipline, ThreadsOnCpus
    <2>8. LocksHandedOver'
      <3>1. ASSUME NEW d \in CPU, d # c
            PROVE  /\ proc[d] # Null => /\ lock'[proc[d]] = lock[proc[d]]
                                        /\ pc'[proc[d]] = pc[proc[d]]
                   /\ thread[d] # Null => /\ lock'[thread[d]] = lock[thread[d]]
                                          /\ pc'[thread[d]] = pc[thread[d]]
        BY <2>4, <2>6, <3>1
      <3> QED
        <4>1. ASSUME NEW d \in CPU, proc[d] # Null
              PROVE  IF thread[d] = Null \/ pc'[proc[d]] = "sched"
                     THEN /\ lock'[proc[d]] = d
                          /\ state[proc[d]] \in {"RUNNABLE", "SLEEPING", "ZOMBIE"}
                     ELSE state[proc[d]] = "RUNNING"
          <5>1. CASE d = c
            BY <2>1, <2>3, <2>4, <5>1
          <5>2. CASE d # c
            BY <3>1, <4>1, <5>2 DEF LockDiscipline, LocksHandedOver
          <5> QED
            BY <5>1, <5>2
        <4>2. ASSUME NEW d \in CPU, thread[d] # Null
              PROVE  lock'[thread[d]] =
                       IF pc'[thread[d]] \in {"sched", "resume"} THEN d ELSE Null
          <5>1. CASE d = c
            BY <2>1, <2>3, <2>4, <5>1
          <5>2. CASE d # c
            BY <3>1, <4>2, <5>2 DEF LockDiscipline, LocksHandedOver
          <5> QED
            BY <5>1, <5>2
        <4>3. ASSUME NEW q \in Slot, \A d \in CPU : proc[d] # q
              PROVE  lock'[q] = Null /\ state[q] # "RUNNING"
          BY <2>1, <2>4, <4>3 DEF LockDiscipline, LocksHandedOver
        <4> QED
          BY <2>5, <4>1, <4>2, <4>3 DEF LocksHandedOver
    <2>9. WaitLockHeld'
      <3>1. ASSUME NEW d \in CPU, d # c, thread[d] # Null
            PROVE  pc'[thread[d]] = pc[thread[d]]
        BY <2>4, <2>6, <3>1
      <3>2. wait_lock # c
        BY <2>1 DEF LockDiscipline, WaitLockHeld, Waiting
      <3> QED
        BY <2>1, <2>3, <2>4, <2>5, <3>1, <3>2 DEF LockDiscipline, WaitLockHeld
    <2>10. ForkOwnsSlot'
      <3>1. ASSUME NEW q \in Slot, Where(q)' \in {"fork_parent", "fork_run"}
            PROVE  Where(q) \in {"fork_parent", "fork_run"}
        BY <2>1, <2>3, <2>4, <3>1 DEF Where
      <3> QED
        BY <2>5, <3>1 DEF LockDiscipline, ForkOwnsSlot
    <2>11. ReturnPoints'
      BY <2>3, <2>4, <2>5 DEF LockDiscipline, ReturnPoints
    <2> QED
      BY <2>7, <2>8, <2>9, <2>10, <2>11 DEF LockDiscipline
  <1>3. CASE Yield(c, p)
    <2>1. /\ pc[p] \in Interruptible /\ pc[p] \notin Waiting /\ pc[p] # "none"
      BY <1>3 DEF Yield, Interruptible, Waiting
    <2>2. ret'[p] = pc[p] /\ \A q \in Slot \ {p} : ret'[q] = ret[q]
      BY <1>3, LockTypes DEF Yield
    <2>3. /\ thread[c] = p /\ pc' = [pc EXCEPT ![p] = "sched"]
          /\ lock' = [lock EXCEPT ![p] = c]
          /\ state' = [state EXCEPT ![p] = "RUNNABLE"]
          /\ <<wait_lock, proc, thread, arg>>' = <<wait_lock, proc, thread, arg>>
      BY <1>3 DEF Yield, Goto, cpuVars
    <2> QED
      BY <2>1, <2>2, <2>3, EnterSched, Zenon
  <1> QED
    BY <1>1, <1>2, <1>3 DEF SwitchStep

LEMMA UserDiscipline ==
    ASSUME TypeOK, LockDiscipline, NEW c \in CPU, NEW p \in Slot, UserStep(c, p)
    PROVE  LockDiscipline'
  <1>1. PICK l \in {"kfork", "kexit", "kwait", "kkill", "trapret"} :
            pc' = [pc EXCEPT ![p] = l]
    BY DEF UserStep, Syscall, SysKill, UserFault, Goto
  <1>2. /\ thread[c] = p /\ pc[p] = "user"
        /\ <<state, lock, wait_lock, ret, proc, thread>>'
              = <<state, lock, wait_lock, ret, proc, thread>>
    BY DEF UserStep, Syscall, SysKill, UserFault, At, procVars, cpuVars
  <1>3. \A q \in Slot \ {p} : arg'[q] = arg[q]
    BY LockTypes DEF UserStep, Syscall, SysKill, UserFault
  <1>4. /\ pc[p] \in Interruptible /\ pc[p] \notin Waiting
        /\ l \in Interruptible /\ l \notin Waiting
        /\ l \notin {"fork_parent", "fork_run"}
    BY <1>2 DEF Waiting, Interruptible
  <1> QED
    BY <1>1, <1>2, <1>3, <1>4, ThreadStep, Zenon

(* Where a system call ends. *)
LEMMA ReturnMoves ==
    ASSUME TypeOK, NEW p \in Slot, Return(p)
    PROVE  /\ pc' = [pc EXCEPT ![p] = "trapret"] /\ ret' = ret
           /\ \A q \in Slot \ {p} : arg'[q] = arg[q]
           /\ "trapret" \in Interruptible /\ "trapret" \notin Waiting
  BY LockTypes DEF Return, Goto, Interruptible, Waiting

(* Inside kexit() and kwait(). *)
LEMMA HoldsWaitLock ==
    ASSUME LockDiscipline, NEW c \in CPU, NEW p \in Slot, thread[c] = p,
           pc[p] \in Waiting
    PROVE  wait_lock = c
  BY IndexFacts DEF LockDiscipline, WaitLockHeld

LEMMA TrapDiscipline ==
    ASSUME TypeOK, LockDiscipline, NEW c \in CPU, NEW p \in Slot,
           TrapKilled(c, p) \/ TrapReturn(c, p)
    PROVE  LockDiscipline'
  <1>1. PICK l \in {"kexit", "user"} : pc' = [pc EXCEPT ![p] = l]
    BY DEF TrapKilled, TrapReturn, Goto
  <1>2. /\ thread[c] = p /\ pc[p] \in {"user", "trapret"}
        /\ <<state, lock, wait_lock, ret, proc, thread, arg>>'
              = <<state, lock, wait_lock, ret, proc, thread, arg>>
    BY DEF TrapKilled, TrapReturn, At, procVars, cpuVars
  <1>3. /\ pc[p] \in Interruptible /\ pc[p] \notin Waiting
        /\ l \in Interruptible /\ l \notin Waiting
        /\ l \notin {"fork_parent", "fork_run"}
    BY <1>2 DEF Interruptible, Waiting
  <1> QED
    BY <1>1, <1>2, <1>3, ThreadStep, Zenon

(* allocproc() looks at a slot, or there is no memory for the new process, *)
(* or kkill() looks at a slot: the thread moves on or returns.             *)
LEMMA ScanDiscipline ==
    ASSUME TypeOK, LockDiscipline, NEW c \in CPU, NEW p \in Slot,
           AllocSkip(c, p) \/ AllocFail(c, p) \/ KillScan(c, p)
    PROVE  LockDiscipline'
  <1>1. /\ thread[c] = p /\ pc[p] \in {"kfork", "kkill"}
        /\ <<lock, wait_lock, proc, thread>>' = <<lock, wait_lock, proc, thread>>
    BY DEF AllocSkip, AllocFail, KillScan, At, procVars, cpuVars
  <1>2. pc[p] \in Interruptible /\ pc[p] \notin Waiting
    BY <1>1 DEF Interruptible, Waiting
  <1>3. Return(p) \/ <<pc, ret, arg>>' = <<pc, ret, arg>>
    BY DEF AllocSkip, AllocFail, KillScan
  <1>4. \A q \in Slot : \/ state'[q] = state[q]
                        \/ /\ state[q] = "SLEEPING" /\ state'[q] = "RUNNABLE"
                           /\ lock[q] = Null
    <2>1. CASE AllocSkip(c, p)
      BY <2>1 DEF AllocSkip, procVars
    <2>2. CASE AllocFail(c, p)
      BY <2>2, LockTypes DEF AllocFail, FreeProc
    <2>3. CASE KillScan(c, p)
      BY <2>3, LockTypes DEF KillScan
    <2> QED
      BY <2>1, <2>2, <2>3
  <1>5. CASE Return(p)
    <2>1. /\ pc' = [pc EXCEPT ![p] = "trapret"] /\ ret' = ret
          /\ \A q \in Slot \ {p} : arg'[q] = arg[q]
          /\ "trapret" \in Interruptible /\ "trapret" \notin Waiting
      BY <1>5, ReturnMoves
    <2> QED
      BY <1>1, <1>2, <1>4, <2>1, ThreadStep, Zenon
  <1>6. CASE <<pc, ret, arg>>' = <<pc, ret, arg>>
    <2>1. pc' = [pc EXCEPT ![p] = pc[p]]
      BY <1>6, LockTypes
    <2>2. pc[p] \notin {"fork_parent", "fork_run"}
      BY <1>1
    <2> QED
      BY <1>1, <1>2, <1>4, <1>6, <2>1, <2>2, ThreadStep, Zenon
  <1> QED
    BY <1>3, <1>5, <1>6
=============================================================================
