----------------------------- MODULE ProcProofs -----------------------------
(*****************************************************************************)
(* The discipline of p->lock, c->proc and wait_lock in Proc, and what follows*)
(* from it: for any number of CPUs and of slots in proc[], kernel stacks are*)
(* exclusive, sched() never panics, no process inherits a kill, and init    *)
(* lives for ever.                                                          *)
(*****************************************************************************)
EXTENDS ProcLocks

Alive(p) == state[p] \in {"SLEEPING", "RUNNABLE", "RUNNING"}

(* init is there from userinit() on: it does not exit and nobody kills it. *)
InitLives ==
    /\ Alive(initproc) /\ ~killed[initproc] /\ pid[initproc] = 1
    /\ Where(initproc) \notin {"kexit", "reparent", "wakeinit", "wakeparent",
                               "zombie"}
    /\ \A p \in Slot : Where(p) = "kkill" => arg[p] # 1

(* freeproc() clears the pid. *)
FreePid == \A q \in Slot : state[q] = "UNUSED" => pid[q] = 0
-----------------------------------------------------------------------------
(* The discipline of the locks, in system calls *)

LEMMA AllocFoundDiscipline ==
    ASSUME TypeOK, LockDiscipline, NEW c \in CPU, NEW p \in Slot, AllocFound(c, p)
    PROVE  LockDiscipline'
  <1>1. PICK np \in Slot : i[p] = np
    BY IndexFacts, Zenon DEF AllocFound, TypeOK
  <1>2. /\ thread[c] = p /\ pc[p] = "kfork"
        /\ lock[np] = Null /\ state[np] = "UNUSED" /\ state[p] = "RUNNING"
        /\ \A d \in CPU : proc[d] # np /\ thread[d] # np
        /\ pc[np] \in {"resume", "none"}
    BY <1>1, OwnCpu, OffCpu DEF AllocFound, At
  <1>3. np # p
    BY <1>2
  <1>4. /\ pc'[p] = "fork_parent" /\ pc'[np] = "resume" /\ state'[np] = "USED"
        /\ arg'[p] = np /\ ret'[np] = "user"
        /\ \A q \in Slot : q # np => state'[q] = state[q] /\ ret'[q] = ret[q]
        /\ \A q \in Slot : q # p => arg'[q] = arg[q]
        /\ \A q \in Slot : q # p /\ q # np => pc'[q] = pc[q]
    BY <1>1, <1>3, LockTypes DEF AllocFound
  <1>5. <<lock, wait_lock, proc, thread>>' = <<lock, wait_lock, proc, thread>>
    BY DEF AllocFound, cpuVars
  <1>6. ASSUME NEW d \in CPU
        PROVE  /\ proc[d] # Null => proc[d] \in Slot
               /\ thread[d] # Null => thread[d] \in Slot
    BY LockTypes
  <1>7. ThreadsOnCpus'
    <2>1. ASSUME NEW q \in Slot, \A d \in CPU : thread[d] # q
          PROVE  pc'[q] \in {"resume", "none"}
      BY <1>2, <1>4, <2>1 DEF LockDiscipline, ThreadsOnCpus
    <2>2. ASSUME NEW q \in Slot, pc'[q] = "none" PROVE state'[q] = "UNUSED"
      BY <1>4, <2>2 DEF LockDiscipline, ThreadsOnCpus
    <2> QED
      BY <1>5, <2>1, <2>2 DEF LockDiscipline, ThreadsOnCpus
  <1>8. LocksHandedOver'
    <2>1. ASSUME NEW d \in CPU, proc[d] # Null
          PROVE  /\ state'[proc[d]] = state[proc[d]]
                 /\ pc'[proc[d]] = "sched" <=> pc[proc[d]] = "sched"
      BY <1>2, <1>4, <1>6, <2>1
    <2>2. ASSUME NEW d \in CPU, thread[d] # Null
          PROVE  pc'[thread[d]] \in {"sched", "resume"}
                    <=> pc[thread[d]] \in {"sched", "resume"}
      BY <1>2, <1>4, <1>6, <2>2
    <2>3. \A q \in Slot : state'[q] = "RUNNING" => state[q] = "RUNNING"
      BY <1>4
    <2> QED
      BY <1>5, <2>1, <2>2, <2>3, HandedOverKept DEF LockDiscipline
  <1>9. WaitLockHeld'
    <2>1. ASSUME NEW d \in CPU, thread[d] # Null
          PROVE  pc'[thread[d]] \in Waiting <=> pc[thread[d]] \in Waiting
      BY <1>2, <1>4, <1>6, <2>1 DEF Waiting
    <2> QED
      BY <1>5, <2>1 DEF LockDiscipline, WaitLockHeld
  <1>10. ForkOwnsSlot'
    <2>1. Where(p)' = "fork_parent" /\ Where(np)' = "user"
      BY <1>4 DEF Where
    <2>2. ASSUME NEW q \in Slot, q # p, q # np
          PROVE  Where(q)' = Where(q) /\ arg'[q] = arg[q]
      BY <1>4, <2>2 DEF Where
    <2>3. ASSUME NEW q \in Slot, Where(q) \in {"fork_parent", "fork_run"}
          PROVE  arg[q] # np
      BY <1>2, <2>3 DEF LockDiscipline, ForkOwnsSlot
    <2> QED
      BY <1>4, <2>1, <2>2, <2>3 DEF LockDiscipline, ForkOwnsSlot
  <1>11. ReturnPoints'
    BY <1>2, <1>3, <1>4 DEF LockDiscipline, ReturnPoints
  <1> QED
    BY <1>7, <1>8, <1>9, <1>10, <1>11 DEF LockDiscipline

(* A slot that is on no CPU and whose lock is free changes its state,      *)
(* while the system call of p that changed it returns: ForkRun, WaitReap.  *)
LEMMA ReturnDiscipline ==
    ASSUME TypeOK, LockDiscipline, NEW c \in CPU, NEW p \in Slot, thread[c] = p,
           pc[p] \in {"fork_run", "wait_scan"}, Return(p),
           NEW np \in Slot, lock[np] = Null,
           state[np] \in {"USED", "ZOMBIE"},
           state[np] = "USED" => pc[p] = "fork_run" /\ arg[p] = np,
           NEW s \in {"RUNNABLE", "UNUSED"},
           state[np] = "ZOMBIE" => s = "UNUSED",
           state' = [state EXCEPT ![np] = s],
           lock' = lock, proc' = proc, thread' = thread,
           wait_lock' = IF pc[p] \in Waiting THEN Null ELSE wait_lock
    PROVE  LockDiscipline'
  <1>1. /\ p # Null /\ state[p] = "RUNNING" /\ proc[c] = p
        /\ \A d \in CPU : proc[d] = p \/ thread[d] = p => d = c
        /\ \A d \in CPU : proc[d] # np /\ thread[d] # np
        /\ pc[np] \in {"resume", "none"}
    BY OwnCpu, OffCpu
  <1>2. np # p /\ pc[np] = "resume"
    BY <1>1 DEF LockDiscipline, ThreadsOnCpus
  <1>3. /\ pc'[p] = "trapret" /\ state'[np] = s /\ ret' = ret
        /\ \A q \in Slot : q # p => pc'[q] = pc[q] /\ arg'[q] = arg[q]
        /\ \A q \in Slot : q # np => state'[q] = state[q]
    BY LockTypes DEF Return, Goto
  <1>4. "trapret" \notin Waiting /\ pc[p] \notin {"sched", "resume", "none"}
    BY DEF Waiting
  <1>5. ASSUME NEW d \in CPU
        PROVE  /\ proc[d] # Null => proc[d] \in Slot /\ proc[d] # np
               /\ thread[d] # Null => thread[d] \in Slot
    BY <1>1, LockTypes
  <1>6. ThreadsOnCpus'
    BY <1>1, <1>2, <1>3 DEF LockDiscipline, ThreadsOnCpus
  <1>7. LocksHandedOver'
    <2>1. ASSUME NEW d \in CPU, proc[d] # Null
          PROVE  /\ state'[proc[d]] = state[proc[d]]
                 /\ pc'[proc[d]] = "sched" <=> pc[proc[d]] = "sched"
      BY <1>3, <1>4, <1>5, <2>1
    <2>2. ASSUME NEW d \in CPU, thread[d] # Null
          PROVE  pc'[thread[d]] \in {"sched", "resume"}
                    <=> pc[thread[d]] \in {"sched", "resume"}
      BY <1>3, <1>4, <1>5, <2>2
    <2>3. \A q \in Slot : state'[q] = "RUNNING" => state[q] = "RUNNING"
      BY <1>3
    <2> QED
      BY <2>1, <2>2, <2>3, HandedOverKept DEF LockDiscipline
  <1>8. WaitLockHeld'
    <2>1. ASSUME NEW d \in CPU, d # c, thread[d] # Null
          PROVE  pc'[thread[d]] = pc[thread[d]]
      BY <1>1, <1>3, <1>5, <2>1
    <2>2. ASSUME NEW d \in CPU, d # c
          PROVE  wait_lock' = d <=> thread[d] # Null /\ pc'[thread[d]] \in Waiting
      BY <1>1, <2>1, <2>2, IndexFacts DEF LockDiscipline, WaitLockHeld
    <2>3. wait_lock' # c
      BY <1>1, IndexFacts DEF LockDiscipline, WaitLockHeld
    <2> QED
      BY <1>3, <1>4, <2>2, <2>3 DEF WaitLockHeld
  <1>9. ForkOwnsSlot'
    <2>1. ASSUME NEW q \in Slot, Where(q)' \in {"fork_parent", "fork_run"}
          PROVE  q # p /\ Where(q) \in {"fork_parent", "fork_run"} /\ arg'[q] = arg[q]
      BY <1>3, <2>1 DEF Where
    <2>2. ASSUME NEW q \in Slot, q # p, Where(q) \in {"fork_parent", "fork_run"}
          PROVE  arg[q] # np
      <3>1. state[np] = "USED" => Where(p) = "fork_run" /\ arg[p] = np
        BY DEF Where
      <3> QED
        BY <2>2, <3>1 DEF LockDiscipline, ForkOwnsSlot
    <2>3. ASSUME NEW q \in Slot, Where(q)' \in {"fork_parent", "fork_run"}
          PROVE  /\ arg'[q] \in Slot /\ state'[arg'[q]] = "USED"
                 /\ \A r \in Slot : Where(r)' \in {"fork_parent", "fork_run"}
                                       /\ arg'[r] = arg'[q] => r = q
      <3>1. /\ Where(q) \in {"fork_parent", "fork_run"} /\ arg'[q] = arg[q]
            /\ arg[q] # np
        BY <2>1, <2>2, <2>3
      <3>2. ForkOwnsSlot
        BY DEF LockDiscipline
      <3> QED
        BY <1>3, <2>1, <3>1, <3>2 DEF ForkOwnsSlot
    <2> QED
      BY <2>3 DEF ForkOwnsSlot
  <1>10. ReturnPoints'
    BY <1>2, <1>3, <1>4 DEF LockDiscipline, ReturnPoints
  <1> QED
    BY <1>6, <1>7, <1>8, <1>9, <1>10 DEF LockDiscipline

(* kexit() and kwait() take wait_lock. *)
LEMMA TakeDiscipline ==
    ASSUME TypeOK, LockDiscipline, NEW c \in CPU, NEW p \in Slot,
           ExitLock(c, p) \/ WaitLock(c, p)
    PROVE  LockDiscipline'
  <1>1. PICK l \in {"reparent", "wait_scan"} : pc' = [pc EXCEPT ![p] = l]
    BY DEF ExitLock, WaitLock, Goto
  <1>2. /\ thread[c] = p /\ pc[p] \in {"kexit", "kwait"}
        /\ wait_lock = Null /\ wait_lock' = c
        /\ <<state, lock, ret, proc, thread>>' = <<state, lock, ret, proc, thread>>
    BY DEF ExitLock, WaitLock, At, cpuVars
  <1>3. \A q \in Slot \ {p} : arg'[q] = arg[q]
    BY LockTypes DEF ExitLock, WaitLock
  <1>4. /\ pc[p] \in Interruptible /\ l \in Waiting
        /\ l \notin {"fork_parent", "fork_run"}
    BY <1>2 DEF Interruptible, Waiting
  <1> QED
    BY <1>1, <1>2, <1>3, <1>4, ThreadStep, Zenon

(* The steps of kexit() and kwait() that keep wait_lock. *)
LEMMA KeepDiscipline ==
    ASSUME TypeOK, LockDiscipline, NEW c \in CPU, NEW p \in Slot, thread[c] = p,
           pc[p] \in Waiting, NEW l \in Waiting, pc' = [pc EXCEPT ![p] = l],
           <<lock, wait_lock, ret, arg, proc, thread>>'
             = <<lock, wait_lock, ret, arg, proc, thread>>,
           \A q \in Slot : \/ state'[q] = state[q]
                           \/ /\ state[q] = "SLEEPING" /\ state'[q] = "RUNNABLE"
                              /\ lock[q] = Null
    PROVE  LockDiscipline'
  <1>1. wait_lock' = c
    BY HoldsWaitLock
  <1>2. l \notin {"fork_parent", "fork_run"}
    BY DEF Waiting
  <1> QED
    BY <1>1, <1>2, ThreadStep, Zenon

(* wakeup(ch) looks at one slot. *)
LEMMA WakeupDiscipline ==
    ASSUME TypeOK, LockDiscipline, NEW c \in CPU, NEW p \in Slot, thread[c] = p,
           pc[p] \in Waiting, NEW ch, NEW l \in Waiting, Wakeup(p, ch, l)
    PROVE  LockDiscipline'
  <1>1. <<lock, wait_lock, ret, arg, proc, thread>>'
          = <<lock, wait_lock, ret, arg, proc, thread>>
    BY DEF Wakeup, cpuVars
  <1>2. CASE i[p] > NPROC
    BY <1>1, <1>2, KeepDiscipline DEF Wakeup, Goto
  <1>3. CASE ~(i[p] > NPROC)
    <2>1. pc' = [pc EXCEPT ![p] = pc[p]]
      BY <1>3, LockTypes DEF Wakeup
    <2>2. \A q \in Slot : \/ state'[q] = state[q]
                          \/ /\ state[q] = "SLEEPING" /\ state'[q] = "RUNNABLE"
                             /\ lock[q] = Null
      BY <1>3, LockTypes DEF Wakeup
    <2> QED
      BY <1>1, <2>1, <2>2, KeepDiscipline, Zenon
  <1> QED
    BY <1>2, <1>3

LEMMA KernelDiscipline ==
    ASSUME TypeOK, LockDiscipline, NEW c \in CPU, NEW p \in Slot, KernelStep(c, p)
    PROVE  LockDiscipline'
  <1>1. CASE TrapKilled(c, p) \/ TrapReturn(c, p)
    BY <1>1, TrapDiscipline
  <1>2. CASE AllocSkip(c, p) \/ AllocFail(c, p) \/ KillScan(c, p)
    BY <1>2, ScanDiscipline
  <1>3. CASE AllocFound(c, p)
    BY <1>3, AllocFoundDiscipline
  <1>4. CASE ForkParent(c, p)
    <2>1. /\ thread[c] = p /\ pc[p] = "fork_parent"
          /\ pc' = [pc EXCEPT ![p] = "fork_run"]
          /\ <<state, lock, wait_lock, ret, arg, proc, thread>>'
               = <<state, lock, wait_lock, ret, arg, proc, thread>>
      BY <1>4 DEF ForkParent, At, Goto, cpuVars
    <2>2. /\ pc[p] \in Interruptible /\ "fork_run" \in Interruptible
          /\ pc[p] \notin Waiting /\ "fork_run" \notin Waiting
      BY <2>1 DEF Interruptible, Waiting
    <2> QED
      BY <2>1, <2>2, ThreadStep, Zenon
  <1>5. CASE ForkRun(c, p)
    <2>1. /\ thread[c] = p /\ pc[p] = "fork_run" /\ pc[p] \notin Waiting
          /\ arg[p] \in Slot /\ state[arg[p]] = "USED" /\ lock[arg[p]] = Null
      BY <1>5 DEF ForkRun, At, Waiting, LockDiscipline, ForkOwnsSlot, Where
    <2>2. /\ Return(p) /\ state' = [state EXCEPT ![arg[p]] = "RUNNABLE"]
          /\ <<lock, wait_lock, proc, thread>>' = <<lock, wait_lock, proc, thread>>
      BY <1>5 DEF ForkRun, cpuVars
    <2> QED
      BY <2>1, <2>2, ReturnDiscipline, Zenon
  <1>6. CASE ExitLock(c, p) \/ WaitLock(c, p)
    BY <1>6, TakeDiscipline
  <1>7. CASE Reparent(c, p)
    <2>1. PICK l \in {"wakeinit", "wakeparent"} : pc' = [pc EXCEPT ![p] = l]
      BY <1>7 DEF Reparent, Goto
    <2>2. /\ thread[c] = p /\ pc[p] = "reparent"
          /\ <<state, lock, wait_lock, ret, arg, proc, thread>>'
               = <<state, lock, wait_lock, ret, arg, proc, thread>>
      BY <1>7 DEF Reparent, At, cpuVars
    <2>3. pc[p] \in Waiting /\ l \in Waiting
      BY <2>2 DEF Waiting
    <2> QED
      BY <2>1, <2>2, <2>3, KeepDiscipline, Zenon
  <1>8. CASE WakeInit(c, p)
    <2>1. pc[p] \in Waiting /\ "reparent" \in Waiting
      BY <1>8 DEF WakeInit, At, Waiting
    <2> QED
      BY <1>8, <2>1, WakeupDiscipline DEF WakeInit, At
  <1>9. CASE WakeParent(c, p)
    <2>1. pc[p] \in Waiting /\ "zombie" \in Waiting
      BY <1>9 DEF WakeParent, At, Waiting
    <2> QED
      BY <1>9, <2>1, WakeupDiscipline DEF WakeParent, At
  <1>10. CASE Zombie(c, p)
    <2>1. /\ thread[c] = p /\ pc[p] = "zombie" /\ pc' = [pc EXCEPT ![p] = "sched"]
          /\ lock' = [lock EXCEPT ![p] = c]
          /\ state' = [state EXCEPT ![p] = "ZOMBIE"]
          /\ wait_lock' = Null
          /\ <<proc, thread, arg, ret>>' = <<proc, thread, arg, ret>>
      BY <1>10 DEF Zombie, At, Goto, cpuVars
    <2>2. pc[p] \in Waiting
      BY <2>1 DEF Waiting
    <2>3. ret[p] = "none"
      BY <2>1 DEF LockDiscipline, ReturnPoints
    <2> QED
      BY <2>1, <2>2, <2>3, EnterSched, Zenon
  <1>11. CASE WaitSkip(c, p)
    <2>1. /\ thread[c] = p /\ pc[p] = "wait_scan"
          /\ <<state, lock, wait_lock, ret, arg, proc, thread, pc>>'
               = <<state, lock, wait_lock, ret, arg, proc, thread, pc>>
      BY <1>11 DEF WaitSkip, At, procVars, cpuVars
    <2> QED
      BY <2>1, SameDiscipline
  <1>12. CASE WaitReap(c, p)
    <2>1. PICK q \in Slot : /\ lock[q] = Null /\ state[q] = "ZOMBIE"
                            /\ state' = [state EXCEPT ![q] = "UNUSED"]
      BY <1>12, Zenon DEF WaitReap, FreeProc
    <2>2. /\ thread[c] = p /\ pc[p] = "wait_scan" /\ Return(p)
          /\ wait_lock' = Null /\ <<lock, proc, thread>>' = <<lock, proc, thread>>
      BY <1>12 DEF WaitReap, At, cpuVars
    <2>3. pc[p] \in Waiting
      BY <2>2 DEF Waiting
    <2> QED
      BY <2>1, <2>2, <2>3, ReturnDiscipline, Zenon
  <1>13. CASE WaitCopyFail(c, p) \/ WaitDone(c, p)
    <2>1. /\ thread[c] = p /\ pc[p] = "wait_scan"
          /\ <<state, lock, proc, thread>>' = <<state, lock, proc, thread>>
      BY <1>13 DEF WaitCopyFail, WaitDone, At, cpuVars
    <2>2. pc[p] \in Waiting /\ "wait_sleep" \in Waiting
      BY <2>1 DEF Waiting
    <2>3. CASE Return(p) /\ wait_lock' = Null
      <3>1. /\ pc' = [pc EXCEPT ![p] = "trapret"] /\ ret' = ret
            /\ \A q \in Slot \ {p} : arg'[q] = arg[q]
            /\ "trapret" \in Interruptible /\ "trapret" \notin Waiting
        BY <2>3, ReturnMoves
      <3> QED
        BY <2>1, <2>2, <2>3, <3>1, ThreadStep, Zenon
    <2>4. CASE /\ pc' = [pc EXCEPT ![p] = "wait_sleep"]
               /\ <<ret, arg, wait_lock>>' = <<ret, arg, wait_lock>>
      BY <2>1, <2>2, <2>4, KeepDiscipline, Zenon
    <2> QED
      BY <1>13, <2>3, <2>4 DEF WaitCopyFail, WaitDone, Goto
  <1>14. CASE WaitSleep(c, p)
    <2>1. /\ thread[c] = p /\ pc[p] = "wait_sleep"
          /\ pc' = [pc EXCEPT ![p] = "sched"]
          /\ lock' = [lock EXCEPT ![p] = c]
          /\ state' = [state EXCEPT ![p] = "SLEEPING"]
          /\ wait_lock' = Null /\ <<proc, thread, arg>>' = <<proc, thread, arg>>
      BY <1>14 DEF WaitSleep, Sleep, At, Goto, cpuVars
    <2>2. pc[p] \in Waiting
      BY <2>1 DEF Waiting
    <2>3. ret'[p] = "slept" /\ \A q \in Slot \ {p} : ret'[q] = ret[q]
      BY <1>14, LockTypes DEF WaitSleep, Sleep
    <2> QED
      BY <2>1, <2>2, <2>3, EnterSched, Zenon
  <1> QED
    BY <1>1, <1>2, <1>3, <1>4, <1>5, <1>6, <1>7, <1>8, <1>9, <1>10, <1>11,
       <1>12, <1>13, <1>14 DEF KernelStep

LEMMA NextDiscipline == TypeOK /\ LockDiscipline /\ [Next]_vars => LockDiscipline'
  <1> SUFFICES ASSUME TypeOK, LockDiscipline, [Next]_vars PROVE LockDiscipline'
    OBVIOUS
  <1>1. CASE UNCHANGED vars
    <2>1. <<state, lock, wait_lock, proc, thread, pc, ret, arg>>'
            = <<state, lock, wait_lock, proc, thread, pc, ret, arg>>
      BY <1>1 DEF vars, procVars, cpuVars, threadVars
    <2> QED
      BY <2>1, SameDiscipline
  <1>2. CASE Next
    BY <1>2, SchedulerDiscipline, SwitchDiscipline, UserDiscipline, KernelDiscipline
       DEF Next
  <1> QED
    BY <1>1, <1>2

(* The discipline of p->lock, c->proc and wait_lock is kept by every step  *)
(* of every CPU: locks are handed over across swtch(), and taken and       *)
(* released around kexit() and kwait(), as the code means them to be.      *)
THEOREM Discipline == Spec => []LockDiscipline
  <1>1. Init => TypeOK /\ LockDiscipline
    BY InitTypeOK, InitDiscipline
  <1>2. TypeOK /\ LockDiscipline /\ [Next]_vars => (TypeOK /\ LockDiscipline)'
    BY NextTypeOK, NextDiscipline
  <1> QED
    BY <1>1, <1>2, PTL DEF Spec

(* No two CPUs ever run on one kernel stack, and none runs on the stack of *)
(* a slot that is not in use (sched(), schedule_rr(), kwait()).            *)
THEOREM StacksExclusive == Spec => []StackExclusive
  <1>1. TypeOK /\ LockDiscipline => StackExclusive
    <2> SUFFICES ASSUME TypeOK, LockDiscipline, NEW c \in CPU, thread[c] # Null
                 PROVE  /\ \A d \in CPU : thread[d] = thread[c] => d = c
                        /\ state[thread[c]] \notin {"UNUSED", "USED"}
      BY DEF StackExclusive
    <2>1. thread[c] \in Slot
      BY LockTypes
    <2>2. \A d \in CPU : thread[d] = thread[c] => d = c
      BY <2>1, OwnCpu
    <2>3. state[thread[c]] \notin {"UNUSED", "USED"}
      BY DEF LockDiscipline, LocksHandedOver, ThreadsOnCpus
    <2> QED
      BY <2>2, <2>3
  <1> QED
    BY <1>1, TypeCorrect, Discipline, PTL

(* A process is RUNNING exactly while one CPU runs it.                     *)
THEOREM RunningIsOnCpu == Spec => []RunningOnCpu
  <1>1. TypeOK /\ LockDiscipline => RunningOnCpu
    <2> SUFFICES ASSUME TypeOK, LockDiscipline, NEW p \in Slot
                 PROVE  state[p] = "RUNNING" <=>
                          \E c \in CPU : /\ proc[c] = p /\ thread[c] = p
                                         /\ pc[p] # "sched"
      BY DEF RunningOnCpu
    <2>1. ASSUME state[p] = "RUNNING"
          PROVE  \E c \in CPU : proc[c] = p /\ thread[c] = p /\ pc[p] # "sched"
      <3>1. PICK c \in CPU : proc[c] = p
        BY <2>1 DEF LockDiscipline, LocksHandedOver
      <3>2. thread[c] # Null /\ pc[p] # "sched"
        BY <2>1, <3>1, IndexFacts DEF LockDiscipline, LocksHandedOver
      <3> QED
        BY <3>1, <3>2 DEF LockDiscipline, ThreadsOnCpus
    <2>2. ASSUME NEW c \in CPU, thread[c] = p, pc[p] # "sched"
          PROVE  state[p] = "RUNNING"
      BY <2>2, OwnCpu
    <2> QED
      BY <2>1, <2>2
  <1> QED
    BY <1>1, TypeCorrect, Discipline, PTL

(* None of the panics of sched() can happen. *)
THEOREM SchedNeverPanics == Spec => []SchedPreconditions
  <1>1. TypeOK /\ LockDiscipline => SchedPreconditions
    <2> SUFFICES ASSUME TypeOK, LockDiscipline, NEW c \in CPU, NEW p \in Slot,
                        thread[c] = p, pc[p] = "sched"
                 PROVE  /\ lock[p] = c
                        /\ wait_lock # c
                        /\ \A q \in Slot \ {p} : lock[q] # c
                        /\ state[p] # "RUNNING"
      BY DEF SchedPreconditions, At
    <2>1. p # Null /\ proc[c] = p
      BY IndexFacts, OwnCpu
    <2>2. lock[p] = c /\ state[p] # "RUNNING"
      BY <2>1 DEF LockDiscipline, LocksHandedOver
    <2>3. wait_lock # c
      BY <2>1 DEF LockDiscipline, WaitLockHeld, Waiting
    <2>4. ASSUME NEW q \in Slot, q # p PROVE lock[q] # c
      BY <2>1, <2>4, LockedByOwner, IndexFacts
    <2> QED
      BY <2>2, <2>3, <2>4
  <1> QED
    BY <1>1, TypeCorrect, Discipline, PTL
-----------------------------------------------------------------------------
(* The types of the fields these invariants speak of. *)
LEMMA KidTypes ==
    ASSUME TypeOK
    PROVE  /\ pc \in [Slot -> Labels] /\ state \in [Slot -> States]
           /\ chan \in [Slot -> Slot \cup {Null}] /\ killed \in [Slot -> BOOLEAN]
           /\ pid \in [Slot -> Nat] /\ parent \in [Slot -> Slot \cup {Null}]
           /\ ret \in [Slot -> Interruptible \cup {"slept", "none"}]
           /\ i \in [Slot -> Index] /\ arg \in [Slot -> Nat]
           /\ initproc \in Slot
  BY IndexFacts DEF TypeOK

(* Where the threads are after p has moved on to l. *)
LEMMA WhereMoves ==
    ASSUME TypeOK, NEW p \in Slot, NEW l, pc' = [pc EXCEPT ![p] = l], ret' = ret,
           l \notin {"sched", "resume"}
    PROVE  /\ pc'[p] = l /\ Where(p)' = l
           /\ \A q \in Slot : q # p => Where(q)' = Where(q) /\ pc'[q] = pc[q]
  BY KidTypes DEF Where

(* The end of a system call. *)
LEMMA WhereReturns ==
    ASSUME TypeOK, NEW p \in Slot, Return(p)
    PROVE  /\ pc' = [pc EXCEPT ![p] = "trapret"] /\ ret' = ret
           /\ pc'[p] = "trapret" /\ Where(p)' = "trapret"
           /\ \A q \in Slot : q # p => /\ Where(q)' = Where(q) /\ pc'[q] = pc[q]
                                       /\ arg'[q] = arg[q] /\ i'[q] = i[q]
  <1>1. pc' = [pc EXCEPT ![p] = "trapret"] /\ ret' = ret
    BY DEF Return, Goto
  <1>2. \A q \in Slot : q # p => arg'[q] = arg[q] /\ i'[q] = i[q]
    BY KidTypes DEF Return
  <1> QED
    BY <1>1, <1>2, WhereMoves, Zenon

(* sched(), and the way back from it. *)
LEMMA WhereSwitches ==
    ASSUME TypeOK, NEW c \in CPU, NEW p \in Slot, SwitchStep(c, p) \/ Yield(c, p)
    PROVE  /\ \A q \in Slot : q # p => Where(q)' = Where(q) /\ pc'[q] = pc[q]
           /\ Where(p)' = Where(p) \/ Where(p)' = "kwait"
           /\ pc'[p] \in Interruptible \cup {"sched", "resume", "none"}
           /\ pc'[p] \notin {"reparent", "wakeinit", "wakeparent", "zombie",
                             "wait_scan", "wait_sleep"}
  <1>1. \A q \in Slot : q # p => Where(q)' = Where(q) /\ pc'[q] = pc[q]
    BY KidTypes DEF SwitchStep, Sched, Resume, Yield, Goto, Where
  <1>2. CASE Sched(c, p)
    <2>1. pc[p] = "sched" /\ pc'[p] = "resume" /\ ret' = ret
      BY <1>2, KidTypes DEF Sched, At, Goto
    <2>2. Where(p)' = Where(p)
      BY <2>1 DEF Where
    <2> QED
      BY <1>1, <2>1, <2>2
  <1>3. CASE Resume(c, p)
    <2>1. pc[p] = "resume" /\ Where(p) = ret[p]
      BY <1>3 DEF Resume, At, Where
    <2>2. /\ pc'[p] = IF ret[p] = "slept" THEN "kwait" ELSE ret[p]
          /\ ret[p] \in Interruptible \cup {"slept", "none"}
      BY <1>3, KidTypes DEF Resume, Goto
    <2> QED
      BY <1>1, <2>1, <2>2 DEF Where, Interruptible
  <1>4. CASE Yield(c, p)
    <2>1. /\ Where(p) = pc[p] /\ pc'[p] = "sched" /\ ret'[p] = pc[p]
      BY <1>4, KidTypes DEF Yield, Goto, Where, Interruptible
    <2> QED
      BY <1>1, <2>1 DEF Where
  <1> QED
    BY <1>2, <1>3, <1>4 DEF SwitchStep

(* One round of wakeup(ch): at most one sleeper on ch is made RUNNABLE. *)
LEMMA WakeupMoves ==
    ASSUME TypeOK, NEW p \in Slot, NEW ch, NEW l, Wakeup(p, ch, l),
           pc[p] \notin {"sched", "resume"}, l \notin {"sched", "resume"}
    PROVE  /\ ret' = ret /\ arg' = arg
           /\ <<chan, killed, pid, parent, lock, wait_lock>>'
                = <<chan, killed, pid, parent, lock, wait_lock>>
           /\ \A q \in Slot : q # p => Where(q)' = Where(q) /\ pc'[q] = pc[q]
           /\ \A q \in Slot : q # p => i'[q] = i[q]
           /\ \A q \in Slot : \/ state'[q] = state[q]
                              \/ state[q] = "SLEEPING" /\ state'[q] = "RUNNABLE"
           /\ \/ pc'[p] = l /\ Where(p)' = l /\ i'[p] = 1 /\ i[p] > NPROC
              \/ /\ pc'[p] = pc[p] /\ Where(p)' = pc[p] /\ i'[p] = i[p] + 1
                 /\ i[p] \in Slot
                 /\ i[p] # p /\ chan[i[p]] = ch => state'[i[p]] # "SLEEPING"
  <1>1. /\ ret' = ret /\ arg' = arg
        /\ <<chan, killed, pid, parent, lock, wait_lock>>'
             = <<chan, killed, pid, parent, lock, wait_lock>>
    BY DEF Wakeup
  <1>2. CASE i[p] > NPROC
    <2>1. pc' = [pc EXCEPT ![p] = l] /\ i' = [i EXCEPT ![p] = 1] /\ state' = state
      BY <1>2 DEF Wakeup, Goto
    <2>2. i'[p] = 1 /\ \A q \in Slot : q # p => i'[q] = i[q]
      BY <2>1, KidTypes
    <2> QED
      BY <1>1, <1>2, <2>1, <2>2, WhereMoves, Zenon
  <1>3. CASE ~(i[p] > NPROC)
    <2>1. i[p] \in Slot
      BY <1>3, KidTypes, IndexFacts
    <2>2. /\ pc' = pc /\ i' = [i EXCEPT ![p] = i[p] + 1]
          /\ state' = [state EXCEPT ![i[p]] =
               IF i[p] # p /\ @ = "SLEEPING" /\ chan[i[p]] = ch
               THEN "RUNNABLE" ELSE @]
      BY <1>3 DEF Wakeup
    <2>3. i'[p] = i[p] + 1 /\ \A q \in Slot : q # p => i'[q] = i[q]
      BY <2>2, KidTypes
    <2>4. /\ \A q \in Slot : \/ state'[q] = state[q]
                             \/ state[q] = "SLEEPING" /\ state'[q] = "RUNNABLE"
          /\ i[p] # p /\ chan[i[p]] = ch => state'[i[p]] # "SLEEPING"
      BY <2>1, <2>2, KidTypes
    <2>5. Where(p)' = pc[p] /\ \A q \in Slot : Where(q)' = Where(q)
      BY <1>1, <2>2 DEF Where
    <2> QED
      BY <1>1, <2>1, <2>2, <2>3, <2>4, <2>5
  <1> QED
    BY <1>2, <1>3

-----------------------------------------------------------------------------
(* init lives *)

LEMMA LivesInit == Init => InitLives
  BY IndexFacts DEF Init, InitLives, Alive, Where

(* A thread moves on inside the kernel, and init's fields stay right. *)
LEMMA LivesMove ==
    ASSUME TypeOK, InitLives, NEW p \in Slot, NEW l,
           pc' = [pc EXCEPT ![p] = l], ret' = ret, l \notin {"sched", "resume"},
           \A q \in Slot \ {p} : arg'[q] = arg[q],
           l = "kkill" => arg'[p] # 1,
           p = initproc => l \notin {"kexit", "reparent", "wakeinit",
                                     "wakeparent", "zombie"},
           Alive(initproc)', ~killed'[initproc], pid'[initproc] = 1
    PROVE  InitLives'
  <1>1. /\ Where(p)' = l
        /\ \A q \in Slot : q # p => Where(q)' = Where(q)
    BY WhereMoves, Zenon
  <1> QED
    BY <1>1, IndexFacts DEF InitLives

(* A thread in kexit() is not init's. *)
LEMMA NotInit ==
    ASSUME InitLives, NEW p \in Slot,
           pc[p] \in {"kexit", "reparent", "wakeinit", "wakeparent", "zombie"}
    PROVE  p # initproc
  BY DEF InitLives, Where

(* Labels that are neither in kexit() nor in sched(). *)
LEMMA QuietLabels ==
    \A l \in {"user", "kfork", "kwait", "kkill", "trapret", "fork_run",
              "wait_scan", "wait_sleep"} :
        l \notin {"kexit", "reparent", "wakeinit", "wakeparent", "zombie",
                 "sched", "resume"}
  OBVIOUS

LEMMA LivesUser ==
    ASSUME TypeOK, LockDiscipline, InitLives, NEW c \in CPU, NEW p \in Slot,
           UserStep(c, p)
    PROVE  InitLives'
  <1>1. initproc \in Slot
    BY IndexFacts
  <1>2. ASSUME NEW call \in {"kfork", "kexit", "kwait"}, Syscall(c, p, call)
        PROVE  InitLives'
    <2>1. /\ <<state, killed, pid, ret, arg>>' = <<state, killed, pid, ret, arg>>
          /\ pc' = [pc EXCEPT ![p] = call] /\ (p = initproc => call # "kexit")
      BY <1>2 DEF Syscall, procVars, Goto
    <2>2. Alive(initproc)' /\ ~killed'[initproc] /\ pid'[initproc] = 1
      BY <2>1 DEF InitLives, Alive
    <2> QED
      BY <2>1, <2>2, LivesMove, QuietLabels, Zenon
  <1>3. ASSUME NEW n \in KillPids, SysKill(c, p, n) PROVE InitLives'
    <2>1. /\ <<state, killed, pid, ret>>' = <<state, killed, pid, ret>>
          /\ pc' = [pc EXCEPT ![p] = "kkill"] /\ arg' = [arg EXCEPT ![p] = n]
      BY <1>3 DEF SysKill, procVars, Goto
    <2>2. arg'[p] # 1 /\ \A q \in Slot \ {p} : arg'[q] = arg[q]
      BY <2>1, KidTypes, ProcAssumption
    <2>3. Alive(initproc)' /\ ~killed'[initproc] /\ pid'[initproc] = 1
      BY <2>1 DEF InitLives, Alive
    <2> QED
      BY <2>1, <2>2, <2>3, LivesMove, QuietLabels, Zenon
  <1>4. CASE UserFault(c, p)
    <2>1. /\ <<state, pid, ret, arg>>' = <<state, pid, ret, arg>> /\ p # initproc
          /\ pc' = [pc EXCEPT ![p] = "trapret"]
          /\ killed' = [killed EXCEPT ![p] = TRUE]
      BY <1>4 DEF UserFault, Goto
    <2>2. killed'[initproc] = killed[initproc]
      BY <1>1, <2>1, KidTypes, Zenon
    <2>3. Alive(initproc)' /\ ~killed'[initproc] /\ pid'[initproc] = 1
      BY <2>1, <2>2 DEF InitLives, Alive
    <2> QED
      BY <2>1, <2>3, LivesMove, QuietLabels, Zenon
  <1> QED
    BY <1>2, <1>3, <1>4 DEF UserStep

LEMMA LivesSwitch ==
    ASSUME TypeOK, LockDiscipline, InitLives, NEW c \in CPU, NEW p \in Slot,
           SwitchStep(c, p) \/ Yield(c, p)
    PROVE  InitLives'
  <1>1. <<killed, pid, arg>>' = <<killed, pid, arg>>
    BY DEF SwitchStep, Sched, Resume, Yield, procVars
  <1>2. Alive(initproc)'
    <2>1. state'[initproc] = state[initproc] \/ state'[initproc] = "RUNNABLE"
      BY KidTypes DEF SwitchStep, Sched, Resume, Yield, procVars
    <2> QED
      BY <2>1 DEF InitLives, Alive
  <1>3. /\ \A q \in Slot : q # p => Where(q)' = Where(q)
        /\ Where(p)' = Where(p) \/ Where(p)' = "kwait"
    BY WhereSwitches
  <1> QED
    BY <1>1, <1>2, <1>3, IndexFacts DEF InitLives

LEMMA LivesScheduler ==
    ASSUME TypeOK, InitLives, NEW c \in CPU, SchedulerStep(c)
    PROVE  InitLives'
  <1>1. <<killed, pid, arg, pc, ret>>' = <<killed, pid, arg, pc, ret>>
    BY DEF SchedulerStep, Dispatch, PassOver, Switched, procVars, threadVars
  <1>2. state'[initproc] = state[initproc] \/ state'[initproc] = "RUNNING"
    BY KidTypes DEF SchedulerStep, Dispatch, PassOver, Switched, procVars
  <1> QED
    BY <1>1, <1>2 DEF InitLives, Alive, Where

(* Steps of system calls that do not change what init is. *)
LEMMA LivesQuiet ==
    ASSUME TypeOK, InitLives, NEW c \in CPU, NEW p \in Slot, thread[c] = p,
           pc[p] \notin {"sched", "resume"},
           Alive(initproc)', ~killed'[initproc], pid'[initproc] = 1,
           \/ Return(p)
           \/ pc' = [pc EXCEPT ![p] = "wait_sleep"] /\ ret' = ret /\ arg' = arg
           \/ pc' = pc /\ ret' = ret /\ arg' = arg
    PROVE  InitLives'
  <1>1. CASE Return(p)
    <2>1. /\ pc' = [pc EXCEPT ![p] = "trapret"] /\ ret' = ret
          /\ \A q \in Slot \ {p} : arg'[q] = arg[q]
      BY <1>1, WhereReturns
    <2> QED
      BY <2>1, LivesMove, QuietLabels, Zenon
  <1>2. CASE pc' = [pc EXCEPT ![p] = "wait_sleep"] /\ ret' = ret /\ arg' = arg
    <2>1. \A q \in Slot \ {p} : arg'[q] = arg[q]
      BY <1>2
    <2> QED
      BY <1>2, <2>1, LivesMove, QuietLabels, Zenon
  <1>3. CASE pc' = pc /\ ret' = ret /\ arg' = arg
    BY <1>3 DEF InitLives, Where
  <1> QED
    BY <1>1, <1>2, <1>3

LEMMA LivesKernel ==
    ASSUME TypeOK, LockDiscipline, InitLives, NEW c \in CPU, NEW p \in Slot,
           KernelStep(c, p)
    PROVE  InitLives'
  <1>0. /\ initproc \in Slot /\ Alive(initproc) /\ ~killed[initproc]
        /\ pid[initproc] = 1
    BY IndexFacts DEF InitLives
  <1>1. CASE TrapKilled(c, p) \/ TrapReturn(c, p)
    <2>1. PICK l \in {"kexit", "user"} : /\ pc' = [pc EXCEPT ![p] = l]
                                         /\ l = "kexit" => killed[p]
      BY <1>1 DEF TrapKilled, TrapReturn, Goto
    <2>2. <<state, killed, pid, ret, arg>>' = <<state, killed, pid, ret, arg>>
      BY <1>1 DEF TrapKilled, TrapReturn, procVars
    <2>3. Alive(initproc)' /\ ~killed'[initproc] /\ pid'[initproc] = 1
      BY <1>0, <2>2 DEF Alive
    <2>4. p = initproc => l = "user"
      BY <1>0, <2>1
    <2> QED
      BY <2>1, <2>2, <2>3, <2>4, LivesMove, QuietLabels, Zenon
  <1>2. CASE AllocSkip(c, p) \/ WaitSkip(c, p) \/ WaitCopyFail(c, p) \/ WaitDone(c, p)
    <2>1. /\ thread[c] = p /\ pc[p] \notin {"sched", "resume"}
          /\ <<state, killed, pid>>' = <<state, killed, pid>>
      BY <1>2 DEF AllocSkip, WaitSkip, WaitCopyFail, WaitDone, At, procVars
    <2>2. Alive(initproc)' /\ ~killed'[initproc] /\ pid'[initproc] = 1
      BY <1>0, <2>1 DEF Alive
    <2>3. \/ Return(p)
          \/ pc' = [pc EXCEPT ![p] = "wait_sleep"] /\ ret' = ret /\ arg' = arg
          \/ pc' = pc /\ ret' = ret /\ arg' = arg
      BY <1>2 DEF AllocSkip, WaitSkip, WaitCopyFail, WaitDone, Goto
    <2> QED
      BY <2>1, <2>2, <2>3, LivesQuiet, Zenon
  <1>3. CASE AllocFound(c, p)
    <2>1. PICK np \in Slot : i[p] = np
      BY <1>3, KidTypes, IndexFacts, Zenon DEF AllocFound
    <2>2. /\ pc[p] = "kfork" /\ state[np] = "UNUSED" /\ state[p] = "RUNNING"
      BY <1>3, <2>1, OwnCpu DEF AllocFound, At
    <2>3. np # initproc /\ np # p
      BY <1>0, <2>2 DEF Alive
    <2>4. /\ pc'[p] = "fork_parent" /\ pc'[np] = "resume" /\ ret'[np] = "user"
          /\ killed' = killed /\ state'[initproc] = state[initproc]
          /\ pid'[initproc] = pid[initproc]
          /\ \A q \in Slot : q # p /\ q # np =>
                pc'[q] = pc[q] /\ ret'[q] = ret[q] /\ arg'[q] = arg[q]
      BY <1>0, <1>3, <2>1, <2>3, KidTypes DEF AllocFound
    <2>5. /\ Where(p)' = "fork_parent" /\ Where(np)' = "user"
          /\ \A q \in Slot : q # p /\ q # np => Where(q)' = Where(q)
      BY <2>4 DEF Where
    <2> QED
      BY <1>0, <2>3, <2>4, <2>5 DEF InitLives, Alive
  <1>4. CASE AllocFail(c, p)
    <2>1. PICK np \in Slot : i[p] = np
      BY <1>4, KidTypes, IndexFacts, Zenon DEF AllocFail
    <2>2. /\ thread[c] = p /\ pc[p] = "kfork" /\ state[np] = "UNUSED" /\ Return(p)
          /\ state' = [state EXCEPT ![np] = "UNUSED"]
          /\ pid' = [pid EXCEPT ![np] = 0]
          /\ killed' = [killed EXCEPT ![np] = FALSE]
      BY <1>4, <2>1 DEF AllocFail, FreeProc, At
    <2>3. np # initproc
      BY <1>0, <2>2 DEF Alive
    <2>4. /\ state'[initproc] = state[initproc] /\ pid'[initproc] = pid[initproc]
          /\ killed'[initproc] = killed[initproc]
      BY <1>0, <2>2, <2>3, KidTypes
    <2>5. Alive(initproc)' /\ ~killed'[initproc] /\ pid'[initproc] = 1
      BY <1>0, <2>4 DEF Alive
    <2> QED
      BY <2>2, <2>5, LivesQuiet
  <1>5. CASE ForkParent(c, p)
    <2>1. /\ pc' = [pc EXCEPT ![p] = "fork_run"]
          /\ state' = state /\ killed' = killed /\ pid' = pid
          /\ ret' = ret /\ arg' = arg
      BY <1>5 DEF ForkParent, Goto
    <2>2. Alive(initproc)' /\ ~killed'[initproc] /\ pid'[initproc] = 1
      BY <1>0, <2>1 DEF Alive
    <2>3. (\A q \in Slot \ {p} : arg'[q] = arg[q]) /\ "fork_run" # "kkill"
      BY <2>1
    <2> QED
      BY <2>1, <2>2, <2>3, LivesMove, QuietLabels, Zenon
  <1>6. CASE ForkRun(c, p)
    <2>1. /\ thread[c] = p /\ pc[p] = "fork_run" /\ Return(p)
          /\ state' = [state EXCEPT ![arg[p]] = "RUNNABLE"]
          /\ <<killed, pid>>' = <<killed, pid>>
      BY <1>6 DEF ForkRun, At
    <2>2. state'[initproc] = state[initproc] \/ state'[initproc] = "RUNNABLE"
      BY <1>0, <2>1, KidTypes
    <2>3. Alive(initproc)' /\ ~killed'[initproc] /\ pid'[initproc] = 1
      BY <1>0, <2>1, <2>2 DEF Alive
    <2> QED
      BY <2>1, <2>3, LivesQuiet
  <1>7. CASE ExitLock(c, p) \/ Reparent(c, p)
    <2>1. PICK l \in {"reparent", "wakeinit", "wakeparent"} :
             pc' = [pc EXCEPT ![p] = l]
      BY <1>7 DEF ExitLock, Reparent, Goto
    <2>2. /\ pc[p] \in {"kexit", "reparent"}
          /\ <<state, killed, pid, ret>>' = <<state, killed, pid, ret>>
      BY <1>7 DEF ExitLock, Reparent, At
    <2>3. \A q \in Slot \ {p} : arg'[q] = arg[q]
      BY <1>7, KidTypes DEF ExitLock, Reparent
    <2>4. p # initproc /\ l \notin {"sched", "resume", "kkill"}
      BY <2>2, NotInit
    <2>5. Alive(initproc)' /\ ~killed'[initproc] /\ pid'[initproc] = 1
      BY <1>0, <2>2 DEF Alive
    <2> QED
      BY <2>1, <2>2, <2>3, <2>4, <2>5, LivesMove, Zenon
  <1>8. CASE WakeInit(c, p) \/ WakeParent(c, p)
    <2>1. PICK ch \in Slot \cup {Null}, l \in {"reparent", "zombie"} :
             Wakeup(p, ch, l)
      BY <1>0, <1>8, KidTypes DEF WakeInit, WakeParent
    <2>2. pc[p] \in {"wakeinit", "wakeparent"}
      BY <1>8 DEF WakeInit, WakeParent, At
    <2>3. /\ \A q \in Slot : q # p => Where(q)' = Where(q)
          /\ Where(p)' \in {"reparent", "zombie", "wakeinit", "wakeparent"}
          /\ <<killed, pid, arg>>' = <<killed, pid, arg>>
          /\ \/ state'[initproc] = state[initproc]
             \/ state'[initproc] = "RUNNABLE"
      BY <1>0, <2>1, <2>2, WakeupMoves
    <2>4. p # initproc
      BY <2>2, NotInit
    <2> QED
      BY <1>0, <2>3, <2>4 DEF InitLives, Alive
  <1>9. CASE Zombie(c, p)
    <2>1. p # initproc /\ pc[p] = "zombie"
      BY <1>9, NotInit DEF Zombie, At
    <2>2. ret[p] = "none"
      BY <2>1 DEF LockDiscipline, ReturnPoints
    <2>3. /\ pc'[p] = "sched" /\ ret' = ret /\ state'[initproc] = state[initproc]
          /\ <<killed, pid, arg>>' = <<killed, pid, arg>>
          /\ \A q \in Slot : q # p => pc'[q] = pc[q]
      BY <1>0, <1>9, <2>1, KidTypes DEF Zombie, Goto
    <2>4. Where(p)' = "none" /\ \A q \in Slot : q # p => Where(q)' = Where(q)
      BY <2>2, <2>3 DEF Where
    <2> QED
      BY <1>0, <2>1, <2>3, <2>4 DEF InitLives, Alive
  <1>10. CASE WaitLock(c, p)
    <2>1. /\ pc' = [pc EXCEPT ![p] = "wait_scan"]
          /\ <<state, killed, pid, ret, arg>>' = <<state, killed, pid, ret, arg>>
      BY <1>10 DEF WaitLock, Goto
    <2>2. Alive(initproc)' /\ ~killed'[initproc] /\ pid'[initproc] = 1
      BY <1>0, <2>1 DEF Alive
    <2> QED
      BY <2>1, <2>2, LivesMove, QuietLabels, Zenon
  <1>11. CASE WaitReap(c, p)
    <2>1. PICK np \in Slot : state[np] = "ZOMBIE" /\ FreeProc(np)
      BY <1>11 DEF WaitReap
    <2>2. thread[c] = p /\ pc[p] = "wait_scan" /\ Return(p)
      BY <1>11 DEF WaitReap, At
    <2>3. np # initproc
      BY <1>0, <2>1 DEF Alive
    <2>4. /\ state'[initproc] = state[initproc] /\ pid'[initproc] = pid[initproc]
          /\ killed'[initproc] = killed[initproc]
      BY <1>0, <2>1, <2>3, KidTypes DEF FreeProc
    <2>5. Alive(initproc)' /\ ~killed'[initproc] /\ pid'[initproc] = 1
      BY <1>0, <2>4 DEF Alive
    <2> QED
      BY <2>2, <2>5, LivesQuiet
  <1>12. CASE WaitSleep(c, p)
    <2>1. /\ pc'[p] = "sched" /\ ret'[p] = "slept"
          /\ <<killed, pid, arg>>' = <<killed, pid, arg>>
          /\ \A q \in Slot : q # p => pc'[q] = pc[q] /\ ret'[q] = ret[q]
          /\ state'[initproc] = state[initproc] \/ state'[initproc] = "SLEEPING"
      BY <1>0, <1>12, KidTypes DEF WaitSleep, Sleep, Goto
    <2>2. Where(p)' = "slept" /\ \A q \in Slot : q # p => Where(q)' = Where(q)
      BY <2>1 DEF Where
    <2> QED
      BY <1>0, <2>1, <2>2 DEF InitLives, Alive
  <1>13. CASE KillScan(c, p)
    <2>1. /\ thread[c] = p /\ pc[p] = "kkill" /\ Where(p) = "kkill" /\ pid' = pid
          /\ Return(p) \/ <<pc, ret, arg>>' = <<pc, ret, arg>>
      BY <1>13 DEF KillScan, At, Where
    <2>2. arg[p] # 1
      BY <2>1 DEF InitLives
    <2>3. killed'[initproc] = killed[initproc]
      BY <1>0, <1>13, <2>2, KidTypes DEF KillScan
    <2>4. state'[initproc] = state[initproc] \/ state'[initproc] = "RUNNABLE"
      BY <1>0, <1>13, KidTypes DEF KillScan
    <2>5. Alive(initproc)' /\ ~killed'[initproc] /\ pid'[initproc] = 1
      BY <1>0, <2>1, <2>3, <2>4 DEF Alive
    <2> QED
      BY <2>1, <2>5, LivesQuiet
  <1> QED
    BY <1>1, <1>2, <1>3, <1>4, <1>5, <1>6, <1>7, <1>8, <1>9, <1>10, <1>11,
       <1>12, <1>13 DEF KernelStep

LEMMA LivesNext == TypeOK /\ LockDiscipline /\ InitLives /\ [Next]_vars => InitLives'
  <1> SUFFICES ASSUME TypeOK, LockDiscipline, InitLives, [Next]_vars
               PROVE  InitLives'
    OBVIOUS
  <1>1. CASE UNCHANGED vars
    BY <1>1 DEF InitLives, Alive, Where, vars, procVars, threadVars
  <1>2. CASE Next
    BY <1>2, LivesScheduler, LivesKernel, LivesSwitch, LivesUser DEF Next
  <1> QED
    BY <1>1, <1>2
-----------------------------------------------------------------------------
(* FreePid *)

(* What a step does to a slot that is free after it: freeproc() has just   *)
(* cleared it, or it was free before and at most kkill() has marked it.    *)
LEMMA FreeSlots ==
    ASSUME TypeOK, LockDiscipline, Next, NEW q \in Slot, state'[q] = "UNUSED"
    PROVE  \/ pid'[q] = 0 /\ ~killed'[q]
           \/ /\ state[q] = "UNUSED" /\ pid'[q] = pid[q]
              /\ \/ killed'[q] = killed[q]
                 \/ \E p \in Slot : pc[p] = "kkill" /\ i[p] = q /\ arg[p] = pid[q]
  <1> DEFINE Kept == /\ pid' = pid /\ killed' = killed
                     /\ \A r \in Slot : state'[r] = state[r] \/ state'[r] # "UNUSED"
  <1>1. Kept => state[q] = "UNUSED" /\ pid'[q] = pid[q] /\ killed'[q] = killed[q]
    OBVIOUS
  <1>2. ASSUME NEW c \in CPU, SchedulerStep(c)
        PROVE  Kept
    BY <1>2, KidTypes DEF SchedulerStep, Dispatch, PassOver, Switched, procVars
  <1>3. ASSUME NEW c \in CPU, NEW p \in Slot, SwitchStep(c, p) \/ Yield(c, p)
        PROVE  Kept
    BY <1>3, KidTypes DEF SwitchStep, Sched, Resume, Yield, procVars
  <1>4. ASSUME NEW c \in CPU, NEW p \in Slot, UserStep(c, p)
        PROVE  /\ state[q] = "UNUSED" /\ pid'[q] = pid[q]
               /\ killed'[q] = killed[q]
    <2>1. CASE UserFault(c, p)
      <3>0. state' = state /\ pid' = pid /\ thread[c] = p /\ pc[p] = "user"
        BY <2>1 DEF UserFault, At
      <3>1. state[p] = "RUNNING"
        BY <3>0, OwnCpu
      <3>2. \A r \in Slot : r # p => killed'[r] = killed[r]
        BY <2>1, KidTypes DEF UserFault
      <3> QED
        BY <3>0, <3>1, <3>2
    <2>2. CASE ~UserFault(c, p)
      BY <1>1, <1>4, <2>2 DEF UserStep, Syscall, SysKill, procVars
    <2> QED
      BY <2>1, <2>2
  <1>5. ASSUME NEW c \in CPU, NEW p \in Slot,
               \/ TrapKilled(c, p) \/ TrapReturn(c, p) \/ AllocSkip(c, p)
               \/ ForkParent(c, p) \/ ExitLock(c, p) \/ Reparent(c, p)
               \/ WaitLock(c, p) \/ WaitSkip(c, p) \/ WaitCopyFail(c, p)
               \/ WaitDone(c, p)
        PROVE  Kept
    BY <1>5 DEF TrapKilled, TrapReturn, AllocSkip, ForkParent, ExitLock, Reparent,
                WaitLock, WaitSkip, WaitCopyFail, WaitDone, procVars
  <1>6. ASSUME NEW c \in CPU, NEW p \in Slot,
               ForkRun(c, p) \/ Zombie(c, p) \/ WaitSleep(c, p)
        PROVE  Kept
    BY <1>6, KidTypes DEF ForkRun, Zombie, WaitSleep, Sleep
  <1>7. ASSUME NEW c \in CPU, NEW p \in Slot, WakeInit(c, p) \/ WakeParent(c, p)
        PROVE  Kept
    <2>1. PICK ch \in Slot \cup {Null}, l \in {"reparent", "zombie"} :
             Wakeup(p, ch, l) /\ pc[p] \in {"wakeinit", "wakeparent"}
      BY <1>7, KidTypes DEF WakeInit, WakeParent, At
    <2>2. pid' = pid /\ killed' = killed
      BY <2>1 DEF Wakeup
    <2>3. \A r \in Slot : \/ state'[r] = state[r]
                          \/ state[r] = "SLEEPING" /\ state'[r] = "RUNNABLE"
      BY <2>1, WakeupMoves
    <2> QED
      BY <2>2, <2>3
  <1>8. ASSUME NEW c \in CPU, NEW p \in Slot, AllocFail(c, p) \/ WaitReap(c, p)
        PROVE  \/ pid'[q] = 0 /\ ~killed'[q]
               \/ /\ state[q] = "UNUSED" /\ pid'[q] = pid[q]
                  /\ killed'[q] = killed[q]
    <2>1. PICK np \in Slot : FreeProc(np)
      BY <1>8, KidTypes, IndexFacts, Zenon DEF AllocFail, WaitReap
    <2> QED
      BY <2>1, KidTypes, Zenon DEF FreeProc
  <1>9. ASSUME NEW c \in CPU, NEW p \in Slot, AllocFound(c, p)
        PROVE  /\ state[q] = "UNUSED" /\ pid'[q] = pid[q]
               /\ killed'[q] = killed[q]
    BY <1>9, KidTypes DEF AllocFound
  <1>10. ASSUME NEW c \in CPU, NEW p \in Slot, KillScan(c, p)
         PROVE  /\ state[q] = "UNUSED" /\ pid'[q] = pid[q]
                /\ \/ killed'[q] = killed[q]
                   \/ pc[p] = "kkill" /\ i[p] = q /\ arg[p] = pid[q]
    <2>1. pid' = pid /\ pc[p] = "kkill"
      BY <1>10 DEF KillScan, At
    <2>2. state[q] = "UNUSED"
      BY <1>10, KidTypes DEF KillScan
    <2>3. killed'[q] = killed[q] \/ (i[p] = q /\ arg[p] = pid[q])
      BY <1>10, KidTypes DEF KillScan
    <2> QED
      BY <2>1, <2>2, <2>3
  <1>11. ASSUME NEW c \in CPU, NEW p \in Slot, KernelStep(c, p)
         PROVE  \/ pid'[q] = 0 /\ ~killed'[q]
                \/ /\ state[q] = "UNUSED" /\ pid'[q] = pid[q]
                   /\ \/ killed'[q] = killed[q]
                      \/ pc[p] = "kkill" /\ i[p] = q /\ arg[p] = pid[q]
    <2> HIDE DEF Kept
    <2> QED
      BY <1>1, <1>5, <1>6, <1>7, <1>8, <1>9, <1>10, <1>11 DEF KernelStep
  <1> HIDE DEF Kept
  <1> QED
    BY <1>1, <1>2, <1>3, <1>4, <1>11 DEF Next

LEMMA FreePidNext ==
    TypeOK /\ LockDiscipline /\ FreePid /\ [Next]_vars => FreePid'
  <1> SUFFICES ASSUME TypeOK, LockDiscipline, FreePid, [Next]_vars
               PROVE  FreePid'
    OBVIOUS
  <1>1. CASE UNCHANGED vars
    BY <1>1 DEF FreePid, vars, procVars
  <1>2. CASE Next
    BY <1>2, FreeSlots DEF FreePid
  <1> QED
    BY <1>1, <1>2

(* killed goes with the process: a slot that is free after a step has the  *)
(* mark only if it was free and marked before, or if a kill(0), which      *)
(* kkill() takes for the pid of a free slot, has come to it.               *)
THEOREM KilledNotInherited == Spec => BornAlive
  <1>1. Init => TypeOK /\ LockDiscipline /\ FreePid
    <2>1. Init => FreePid
      BY DEF Init, FreePid
    <2> QED
      BY <2>1, InitTypeOK, InitDiscipline
  <1>2. TypeOK /\ LockDiscipline /\ FreePid /\ [Next]_vars
          => (TypeOK /\ LockDiscipline /\ FreePid)'
    BY NextTypeOK, NextDiscipline, FreePidNext
  <1>3. TypeOK /\ LockDiscipline /\ FreePid /\ [Next]_vars =>
          [\A q \in Slot : state'[q] = "UNUSED" /\ killed'[q]
              => \/ state[q] = "UNUSED" /\ killed[q]
                 \/ \E p \in Slot : pc[p] = "kkill" /\ arg[p] = 0 /\ i[p] = q]_vars
    BY FreeSlots DEF FreePid
  <1> QED
    BY <1>1, <1>2, <1>3, PTL DEF Spec, BornAlive
=============================================================================
