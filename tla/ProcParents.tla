---------------------------- MODULE ProcParents -----------------------------
(*****************************************************************************)
(* Parents and children in Proc, for any number of CPUs and of slots in     *)
(* proc[]: every process has a parent that can collect it, and no wakeup of a*)
(* waiting parent is lost.                                                  *)
(*****************************************************************************)
EXTENDS ProcProofs, WellFoundedInduction

(* Every process that has been started has a parent, and a parent is       *)
(* alive: the one in kfork() until it has set p->parent, and the one in    *)
(* kexit() until reparent() has left it without children.                  *)
Parents ==
    /\ \A q \in Slot : q # initproc /\ state[q] \notin {"UNUSED", "USED"}
          => parent[q] # Null
    /\ \A q \in Slot : parent[q] # Null => Alive(parent[q])
    /\ \A p \in Slot : Where(p) = "fork_run" => parent[arg[p]] = p
    /\ \A p \in Slot : pc[p] \in {"wakeparent", "zombie"}
          => \A q \in Slot : parent[q] # p

AsleepInWait(p) == state[p] = "SLEEPING" /\ chan[p] = p

(* A parent asleep in kwait() has no child to collect, but for init while  *)
(* reparent() is about to wake it.  kwait() has seen no such child below   *)
(* its index; kexit() has woken its parent once past it in proc[].         *)
Wakes ==
    /\ \A p, q \in Slot : AsleepInWait(p) /\ parent[q] = p /\ state[q] = "ZOMBIE"
          => p = initproc /\ \E h \in Slot : pc[h] = "wakeinit" /\ i[h] = 1
    /\ \A h \in Slot : pc[h] = "reparent" => i[h] = 1
    /\ \A p, q \in Slot : pc[p] = "wait_scan" /\ parent[q] = p /\ q < i[p]
          => state[q] # "ZOMBIE"
    /\ \A p, q \in Slot : pc[p] = "wait_sleep" /\ parent[q] = p
          => state[q] # "ZOMBIE"
    /\ \A q \in Slot :
          /\ pc[q] = "zombie" \/ (pc[q] = "wakeparent" /\ parent[q] < i[q])
          /\ parent[q] # Null
          => ~AsleepInWait(parent[q])
-----------------------------------------------------------------------------
(* Parents *)

LEMMA ParentsInit == Init => Parents
  BY IndexFacts DEF Init, Parents, Alive, Where

LEMMA LivingParent ==
    ASSUME TypeOK, Parents, NEW q \in Slot, parent[q] # Null
    PROVE  /\ parent[q] \in Slot
           /\ state[parent[q]] \in {"SLEEPING", "RUNNABLE", "RUNNING"}
  <1>1. parent[q] \in Slot
    BY KidTypes
  <1> QED
    BY <1>1 DEF Parents, Alive

(* A step that keeps every parent, and takes no process from the living or *)
(* to them.                                                                *)
LEMMA ParentsKept ==
    ASSUME TypeOK, Parents, parent' = parent, NEW p \in Slot,
           \A q \in Slot : state'[q] = state[q] \/ (Alive(q) /\ Alive(q)'),
           \A q \in Slot : q # p => /\ Where(q)' = Where(q) /\ pc'[q] = pc[q]
                                    /\ arg'[q] = arg[q],
           Where(p)' = "fork_run" => Where(p) = "fork_run" /\ arg'[p] = arg[p],
           pc'[p] \in {"wakeparent", "zombie"} => pc[p] \in {"wakeparent", "zombie"}
    PROVE  Parents'
  <1>1. \A q \in Slot : q # initproc /\ state'[q] \notin {"UNUSED", "USED"}
          => parent[q] # Null
    BY DEF Parents, Alive
  <1>2. \A q \in Slot : parent[q] # Null => Alive(parent[q])'
    BY LivingParent DEF Alive
  <1>3. \A q \in Slot : Where(q)' = "fork_run" => parent[arg'[q]] = q
    BY DEF Parents
  <1>4. \A r \in Slot : pc'[r] \in {"wakeparent", "zombie"}
          => \A q \in Slot : parent[q] # r
    BY DEF Parents
  <1> QED
    BY <1>1, <1>2, <1>3, <1>4 DEF Parents

LEMMA ParentsScheduler ==
    ASSUME TypeOK, Parents, NEW c \in CPU, SchedulerStep(c)
    PROVE  Parents'
  <1>1. <<parent, arg, pc, ret>>' = <<parent, arg, pc, ret>>
    BY DEF SchedulerStep, Dispatch, PassOver, Switched, procVars, threadVars
  <1>2. \A q \in Slot : state'[q] = state[q] \/ (Alive(q) /\ Alive(q)')
    BY KidTypes DEF SchedulerStep, Dispatch, PassOver, Switched, procVars, Alive
  <1>3. \A q \in Slot : Where(q)' = Where(q)
    BY <1>1 DEF Where
  <1> QED
    BY <1>1, <1>2, <1>3, ParentsKept, IndexFacts

LEMMA ParentsSwitch ==
    ASSUME TypeOK, LockDiscipline, Parents, NEW c \in CPU, NEW p \in Slot,
           SwitchStep(c, p) \/ Yield(c, p)
    PROVE  Parents'
  <1>1. <<parent, arg>>' = <<parent, arg>>
    BY DEF SwitchStep, Sched, Resume, Yield, procVars
  <1>2. \A q \in Slot : state'[q] = state[q] \/ (Alive(q) /\ Alive(q)')
    <2>1. CASE SwitchStep(c, p)
      BY <2>1 DEF SwitchStep, Sched, Resume, procVars
    <2>2. CASE Yield(c, p)
      <3>1. state[p] = "RUNNING"
        BY <2>2, OwnCpu DEF Yield, Interruptible
      <3> QED
        BY <2>2, <3>1, KidTypes DEF Yield, Alive
    <2> QED
      BY <2>1, <2>2
  <1>3. /\ \A q \in Slot : q # p => Where(q)' = Where(q) /\ pc'[q] = pc[q]
        /\ Where(p)' = Where(p) \/ Where(p)' = "kwait"
        /\ pc'[p] \notin {"wakeparent", "zombie"}
    BY WhereSwitches
  <1> QED
    BY <1>1, <1>2, <1>3, ParentsKept

LEMMA ParentsUser ==
    ASSUME TypeOK, Parents, NEW c \in CPU, NEW p \in Slot, UserStep(c, p)
    PROVE  Parents'
  <1>1. PICK l \in {"kfork", "kexit", "kwait", "kkill", "trapret"} :
            pc' = [pc EXCEPT ![p] = l]
    BY DEF UserStep, Syscall, SysKill, UserFault, Goto
  <1>2. <<state, parent, ret>>' = <<state, parent, ret>>
    BY DEF UserStep, Syscall, SysKill, UserFault, procVars
  <1>3. \A q \in Slot : q # p => arg'[q] = arg[q]
    BY KidTypes DEF UserStep, Syscall, SysKill, UserFault
  <1>4. l \notin {"sched", "resume", "fork_run", "wakeparent", "zombie"}
    BY <1>1
  <1>5. /\ pc'[p] = l /\ Where(p)' = l
        /\ \A q \in Slot : q # p => Where(q)' = Where(q) /\ pc'[q] = pc[q]
    BY <1>1, <1>2, <1>4, WhereMoves, Zenon
  <1> QED
    BY <1>2, <1>3, <1>4, <1>5, ParentsKept

LEMMA ParentsKernel ==
    ASSUME TypeOK, LockDiscipline, InitLives, Parents, NEW c \in CPU, NEW p \in Slot,
           KernelStep(c, p)
    PROVE  Parents'
  <1>0. ASSUME NEW r \in Slot, Where(r) = "fork_run"
        PROVE  arg[r] \in Slot /\ state[arg[r]] = "USED" /\ parent[arg[r]] = r
    BY <1>0 DEF LockDiscipline, ForkOwnsSlot, Parents
  <1>1. CASE TrapKilled(c, p) \/ TrapReturn(c, p) \/ ExitLock(c, p) \/ WaitLock(c, p)
    <2>1. PICK l \in {"kexit", "user", "reparent", "wait_scan"} :
              pc' = [pc EXCEPT ![p] = l]
      BY <1>1 DEF TrapKilled, TrapReturn, ExitLock, WaitLock, Goto
    <2>2. <<state, parent, ret>>' = <<state, parent, ret>>
      BY <1>1 DEF TrapKilled, TrapReturn, ExitLock, WaitLock, procVars
    <2>3. \A q \in Slot : q # p => arg'[q] = arg[q]
      BY <1>1, KidTypes DEF TrapKilled, TrapReturn, ExitLock, WaitLock
    <2>4. l \notin {"sched", "resume", "fork_run", "wakeparent", "zombie"}
      BY <2>1
    <2>5. /\ pc'[p] = l /\ Where(p)' = l
          /\ \A q \in Slot : q # p => Where(q)' = Where(q) /\ pc'[q] = pc[q]
      BY <2>1, <2>2, <2>4, WhereMoves, Zenon
    <2> QED
      BY <2>2, <2>3, <2>4, <2>5, ParentsKept
  <1>2. CASE \/ AllocSkip(c, p) \/ WaitSkip(c, p) \/ WaitCopyFail(c, p)
             \/ WaitDone(c, p) \/ KillScan(c, p)
    <2>1. \A q \in Slot : state'[q] = state[q] \/ (Alive(q) /\ Alive(q)')
      <3>1. CASE KillScan(c, p)
        BY <3>1, KidTypes DEF KillScan, Alive
      <3> QED
        BY <1>2, <3>1 DEF AllocSkip, WaitSkip, WaitCopyFail, WaitDone, procVars
    <2>2. parent' = parent /\ pc[p] \in {"kfork", "wait_scan", "kkill"}
      BY <1>2 DEF AllocSkip, WaitSkip, WaitCopyFail, WaitDone, KillScan, procVars, At
    <2>3. \/ Return(p)
          \/ pc' = [pc EXCEPT ![p] = "wait_sleep"] /\ ret' = ret /\ arg' = arg
          \/ pc' = pc /\ ret' = ret /\ arg' = arg
      BY <1>2 DEF AllocSkip, WaitSkip, WaitCopyFail, WaitDone, KillScan, Goto
    <2>4. /\ \A q \in Slot : q # p => /\ Where(q)' = Where(q) /\ pc'[q] = pc[q]
                                      /\ arg'[q] = arg[q]
          /\ Where(p)' # "fork_run" /\ pc'[p] \notin {"wakeparent", "zombie"}
      <3>1. CASE Return(p)
        BY <3>1, WhereReturns
      <3>2. CASE pc' = [pc EXCEPT ![p] = "wait_sleep"] /\ ret' = ret /\ arg' = arg
        BY <3>2, KidTypes DEF Where
      <3>3. CASE pc' = pc /\ ret' = ret /\ arg' = arg
        BY <2>2, <3>3 DEF Where
      <3> QED
        BY <2>3, <3>1, <3>2, <3>3
    <2> QED
      BY <2>1, <2>2, <2>4, ParentsKept
  <1>3. CASE AllocFound(c, p)
    <2>1. PICK np \in Slot : i[p] = np
      BY <1>3, KidTypes, IndexFacts, Zenon DEF AllocFound
    <2>2. pc[p] = "kfork" /\ state[np] = "UNUSED" /\ state[p] = "RUNNING"
      BY <1>3, <2>1, OwnCpu DEF AllocFound, At
    <2>3. /\ pc'[p] = "fork_parent" /\ pc'[np] = "resume" /\ ret'[np] = "user"
          /\ state'[np] = "USED" /\ parent' = parent
          /\ \A q \in Slot : q # np => state'[q] = state[q]
          /\ \A q \in Slot : q # p /\ q # np =>
                pc'[q] = pc[q] /\ ret'[q] = ret[q] /\ arg'[q] = arg[q]
      BY <1>3, <2>1, <2>2, KidTypes DEF AllocFound
    <2>4. /\ Where(p)' = "fork_parent" /\ Where(np)' = "user"
          /\ \A q \in Slot : q # p /\ q # np => Where(q)' = Where(q)
      BY <2>3 DEF Where
    <2>5. \A q \in Slot : parent[q] # Null => Alive(parent[q])'
      BY <2>2, <2>3, LivingParent DEF Alive
    <2>6. \A q \in Slot : q # initproc /\ state'[q] \notin {"UNUSED", "USED"}
            => parent[q] # Null
      BY <2>3 DEF Parents
    <2>7. \A r \in Slot : pc'[r] \in {"wakeparent", "zombie"}
            => \A q \in Slot : parent[q] # r
      BY <2>3 DEF Parents
    <2>8. \A q \in Slot : Where(q)' = "fork_run" => parent[arg'[q]] = q
      BY <2>3, <2>4 DEF Parents
    <2> QED
      BY <2>3, <2>5, <2>6, <2>7, <2>8 DEF Parents
  <1>4. CASE AllocFail(c, p) \/ WaitReap(c, p)
    <2>1. PICK np \in Slot : state[np] \in {"UNUSED", "ZOMBIE"} /\ FreeProc(np)
      BY <1>4, KidTypes, IndexFacts DEF AllocFail, WaitReap
    <2>2. /\ Where(p)' = "trapret" /\ pc'[p] = "trapret"
          /\ \A q \in Slot : q # p => /\ Where(q)' = Where(q) /\ pc'[q] = pc[q]
                                      /\ arg'[q] = arg[q]
      BY <1>4, WhereReturns DEF AllocFail, WaitReap
    <2>3. /\ state'[np] = "UNUSED" /\ parent'[np] = Null
          /\ \A q \in Slot : q # np => state'[q] = state[q] /\ parent'[q] = parent[q]
      BY <2>1, KidTypes DEF FreeProc
    <2>4. \A q \in Slot : parent'[q] # Null => Alive(parent[q])'
      BY <2>1, <2>3, LivingParent DEF Alive
    <2>5. \A q \in Slot : q # initproc /\ state'[q] \notin {"UNUSED", "USED"}
            => parent'[q] # Null
      BY <2>3 DEF Parents
    <2>6. \A r \in Slot : pc'[r] \in {"wakeparent", "zombie"}
            => \A q \in Slot : parent'[q] # r
      BY <2>2, <2>3, IndexFacts DEF Parents
    <2>7. ASSUME NEW r \in Slot, Where(r)' = "fork_run"
          PROVE  parent'[arg'[r]] = r
      <3>1. Where(r) = "fork_run" /\ arg'[r] = arg[r]
        BY <2>2, <2>7
      <3>2. arg[r] \in Slot /\ state[arg[r]] = "USED" /\ parent[arg[r]] = r
        BY <1>0, <3>1, Zenon
      <3> QED
        BY <2>1, <2>3, <3>1, <3>2
    <2> QED
      BY <2>4, <2>5, <2>6, <2>7 DEF Parents
  <1>5. CASE ForkParent(c, p)
    <2>1. /\ thread[c] = p /\ pc[p] = "fork_parent" /\ Where(p) = "fork_parent"
          /\ pc' = [pc EXCEPT ![p] = "fork_run"]
          /\ <<state, ret, arg>>' = <<state, ret, arg>>
      BY <1>5 DEF ForkParent, At, Goto, Where
    <2>2. PICK np \in Slot : /\ arg[p] = np /\ state[np] = "USED"
                             /\ parent' = [parent EXCEPT ![np] = p]
      BY <1>5, <2>1, Zenon DEF ForkParent, LockDiscipline, ForkOwnsSlot
    <2>3. parent'[np] = p /\ \A q \in Slot : q # np => parent'[q] = parent[q]
      BY <2>2, KidTypes
    <2>4. /\ pc'[p] = "fork_run" /\ Where(p)' = "fork_run"
          /\ \A q \in Slot : q # p => Where(q)' = Where(q) /\ pc'[q] = pc[q]
      BY <2>1, KidTypes DEF Where
    <2>5. Alive(p) /\ p # Null
      BY <2>1, OwnCpu DEF Alive
    <2>6. \A q \in Slot : parent'[q] # Null => Alive(parent[q])'
      BY <2>1, <2>3, <2>5 DEF Parents, Alive
    <2>7. \A q \in Slot : q # initproc /\ state'[q] \notin {"UNUSED", "USED"}
            => parent'[q] # Null
      BY <2>1, <2>3, <2>5 DEF Parents
    <2>8. \A r \in Slot : pc'[r] \in {"wakeparent", "zombie"}
            => \A q \in Slot : parent'[q] # r
      BY <2>3, <2>4 DEF Parents
    <2>9. ASSUME NEW r \in Slot, Where(r)' = "fork_run"
          PROVE  parent'[arg'[r]] = r
      <3>1. CASE r = p
        BY <2>1, <2>2, <2>3, <3>1
      <3>2. CASE r # p
        <4>1. Where(r) = "fork_run" /\ arg[r] # np
          BY <2>1, <2>2, <2>4, <2>9, <3>2 DEF LockDiscipline, ForkOwnsSlot
        <4>2. arg[r] \in Slot /\ parent[arg[r]] = r
          BY <1>0, <4>1, Zenon
        <4> QED
          BY <2>1, <2>3, <4>1, <4>2
      <3> QED
        BY <3>1, <3>2
    <2> QED
      BY <2>6, <2>7, <2>8, <2>9 DEF Parents
  <1>6. CASE ForkRun(c, p)
    <2>1. /\ thread[c] = p /\ Where(p) = "fork_run" /\ Return(p) /\ parent' = parent
          /\ state' = [state EXCEPT ![arg[p]] = "RUNNABLE"]
      BY <1>6 DEF ForkRun, At, Where
    <2>2. PICK np \in Slot : arg[p] = np /\ state[np] = "USED" /\ parent[np] = p
      BY <1>0, <2>1
    <2>3. state'[np] = "RUNNABLE" /\ \A q \in Slot : q # np => state'[q] = state[q]
      BY <2>1, <2>2, KidTypes
    <2>4. /\ Where(p)' = "trapret" /\ pc'[p] = "trapret"
          /\ \A q \in Slot : q # p => /\ Where(q)' = Where(q) /\ pc'[q] = pc[q]
                                      /\ arg'[q] = arg[q]
      BY <2>1, WhereReturns
    <2>5. \A q \in Slot : parent[q] # Null => Alive(parent[q])'
      <3>1. \A q \in Slot : Alive(q) => state'[q] \in {"SLEEPING", "RUNNABLE", "RUNNING"}
        BY <2>3 DEF Alive
      <3> QED
        BY <2>1, <3>1, LivingParent DEF Alive
    <2>6. \A q \in Slot : q # initproc /\ state'[q] \notin {"UNUSED", "USED"}
            => parent[q] # Null
      BY <2>2, <2>3, IndexFacts DEF Parents
    <2>7. \A r \in Slot : pc'[r] \in {"wakeparent", "zombie"}
            => \A q \in Slot : parent[q] # r
      BY <2>4 DEF Parents
    <2>8. \A r \in Slot : Where(r)' = "fork_run" => parent[arg'[r]] = r
      BY <2>4 DEF Parents
    <2> QED
      BY <2>1, <2>5, <2>6, <2>7, <2>8 DEF Parents
  <1>7. CASE Reparent(c, p)
    <2>1. /\ pc[p] = "reparent" /\ Where(p) = "reparent"
          /\ <<state, ret, arg>>' = <<state, ret, arg>>
      BY <1>7 DEF Reparent, At, Where
    <2>2. CASE \E q \in Slot : parent[q] = p
      <3>1. PICK q \in Slot : /\ parent[q] = p
                              /\ parent' = [parent EXCEPT ![q] = initproc]
        BY <1>7, <2>2 DEF Reparent
      <3>2. pc' = [pc EXCEPT ![p] = "wakeinit"]
        BY <1>7, <2>2 DEF Reparent, Goto
      <3>3. /\ pc'[p] = "wakeinit" /\ Where(p)' = "wakeinit"
            /\ \A r \in Slot : r # p => Where(r)' = Where(r) /\ pc'[r] = pc[r]
        BY <2>1, <3>2, KidTypes DEF Where
      <3>4. /\ parent'[q] = initproc /\ initproc # Null
            /\ \A r \in Slot : r # q => parent'[r] = parent[r]
        BY <3>1, KidTypes, IndexFacts
      <3>5. \A r \in Slot : parent'[r] # Null => Alive(parent[r])'
        BY <2>1, <3>4 DEF Parents, Alive, InitLives
      <3>6. \A r \in Slot : r # initproc /\ state'[r] \notin {"UNUSED", "USED"}
              => parent'[r] # Null
        BY <2>1, <3>4 DEF Parents
      <3>7. \A h \in Slot : pc'[h] \in {"wakeparent", "zombie"}
              => \A r \in Slot : parent'[r] # h
        <4>1. pc'[initproc] \notin {"wakeparent", "zombie"}
          BY <3>3, NotInit, IndexFacts
        <4>2. \A h \in Slot : pc[h] \in {"wakeparent", "zombie"}
                => \A r \in Slot : parent[r] # h
          BY DEF Parents
        <4> QED
          BY <3>3, <3>4, <4>1, <4>2
      <3>8. ASSUME NEW r \in Slot, Where(r)' = "fork_run"
            PROVE  parent'[arg'[r]] = r
        <4>1. r # p /\ Where(r) = "fork_run" /\ arg'[r] = arg[r]
          BY <2>1, <3>3, <3>8
        <4> QED
          BY <1>0, <3>1, <3>4, <4>1
      <3> QED
        BY <3>5, <3>6, <3>7, <3>8 DEF Parents
    <2>3. CASE \A q \in Slot : parent[q] # p
      <3>1. pc' = [pc EXCEPT ![p] = "wakeparent"] /\ parent' = parent
        BY <1>7, <2>3 DEF Reparent, Goto
      <3>2. /\ pc'[p] = "wakeparent" /\ Where(p)' = "wakeparent"
            /\ \A r \in Slot : r # p => Where(r)' = Where(r) /\ pc'[r] = pc[r]
        BY <2>1, <3>1, KidTypes DEF Where
      <3> QED
        BY <2>1, <2>3, <3>1, <3>2 DEF Parents, Alive
    <2> QED
      BY <2>2, <2>3
  <1>8. CASE WakeInit(c, p) \/ WakeParent(c, p)
    <2>1. PICK ch \in Slot \cup {Null}, l \in {"reparent", "zombie"} :
             /\ Wakeup(p, ch, l)
             /\ pc[p] = IF l = "reparent" THEN "wakeinit" ELSE "wakeparent"
      BY <1>8, KidTypes DEF WakeInit, WakeParent, At
    <2>2. /\ parent' = parent /\ arg' = arg
          /\ \A q \in Slot : q # p => Where(q)' = Where(q) /\ pc'[q] = pc[q]
          /\ \A q \in Slot : \/ state'[q] = state[q]
                             \/ state[q] = "SLEEPING" /\ state'[q] = "RUNNABLE"
          /\ pc'[p] \in {pc[p], l} /\ Where(p)' \in {pc[p], l}
      BY <2>1, WakeupMoves
    <2>3. \A q \in Slot : state'[q] = state[q] \/ (Alive(q) /\ Alive(q)')
      BY <2>2 DEF Alive
    <2>4. /\ Where(p)' # "fork_run"
          /\ pc'[p] \in {"wakeparent", "zombie"} => pc[p] = "wakeparent"
      BY <2>1, <2>2
    <2> QED
      BY <2>2, <2>3, <2>4, ParentsKept
  <1>9. CASE Zombie(c, p)
    <2>1. pc[p] = "zombie" /\ state[p] = "RUNNING" /\ ret[p] = "none"
      BY <1>9, OwnCpu DEF Zombie, At, LockDiscipline, ReturnPoints
    <2>2. /\ pc'[p] = "sched" /\ state'[p] = "ZOMBIE"
          /\ <<parent, arg, ret>>' = <<parent, arg, ret>>
          /\ \A q \in Slot : q # p => pc'[q] = pc[q] /\ state'[q] = state[q]
      BY <1>9, KidTypes DEF Zombie, Goto
    <2>3. Where(p)' = "none" /\ \A q \in Slot : q # p => Where(q)' = Where(q)
      BY <2>1, <2>2 DEF Where
    <2>4. \A q \in Slot : parent[q] # p
      BY <2>1 DEF Parents
    <2>5. \A q \in Slot : parent[q] # Null => Alive(parent[q])'
      BY <2>2, <2>4, LivingParent DEF Alive
    <2> QED
      BY <2>1, <2>2, <2>3, <2>5 DEF Parents
  <1>10. CASE WaitSleep(c, p)
    <2>1. state[p] = "RUNNING"
      BY <1>10, OwnCpu DEF WaitSleep, At
    <2>2. /\ pc'[p] = "sched" /\ ret'[p] = "slept" /\ state'[p] = "SLEEPING"
          /\ <<parent, arg>>' = <<parent, arg>>
          /\ \A q \in Slot : q # p => /\ pc'[q] = pc[q] /\ ret'[q] = ret[q]
                                      /\ state'[q] = state[q]
      BY <1>10, KidTypes DEF WaitSleep, Sleep, Goto
    <2>3. Where(p)' = "slept" /\ \A q \in Slot : q # p => Where(q)' = Where(q)
      BY <2>2 DEF Where
    <2>4. \A q \in Slot : state'[q] = state[q] \/ (Alive(q) /\ Alive(q)')
      BY <2>1, <2>2 DEF Alive
    <2> QED
      BY <2>2, <2>3, <2>4, ParentsKept
  <1> QED
    BY <1>1, <1>2, <1>3, <1>4, <1>5, <1>6, <1>7, <1>8, <1>9, <1>10 DEF KernelStep

LEMMA ParentsNext ==
    TypeOK /\ LockDiscipline /\ InitLives /\ Parents /\ [Next]_vars => Parents'
  <1> SUFFICES ASSUME TypeOK, LockDiscipline, InitLives, Parents, [Next]_vars
               PROVE  Parents'
    OBVIOUS
  <1>1. CASE UNCHANGED vars
    BY <1>1 DEF Parents, Alive, Where, vars, procVars, threadVars
  <1>2. CASE Next
    BY <1>2, ParentsScheduler, ParentsKernel, ParentsSwitch, ParentsUser DEF Next
  <1> QED
    BY <1>1, <1>2

(* reparent() leaves no process with a parent that has exited or whose     *)
(* slot was given back, whatever forks, exits and waits of other CPUs run  *)
(* at the same time; and init, the last resort, is always there.           *)
THEOREM ParentsAlive == Spec => []ParentAlive
  <1>1. Init => TypeOK /\ LockDiscipline /\ InitLives /\ Parents
    BY InitTypeOK, InitDiscipline, LivesInit, ParentsInit
  <1>2. TypeOK /\ LockDiscipline /\ InitLives /\ Parents /\ [Next]_vars
          => (TypeOK /\ LockDiscipline /\ InitLives /\ Parents)'
    BY NextTypeOK, NextDiscipline, LivesNext, ParentsNext
  <1>3. Parents => ParentAlive
    BY DEF Parents, ParentAlive, Alive
  <1> QED
    BY <1>1, <1>2, <1>3, PTL DEF Spec
-----------------------------------------------------------------------------
(* Wakes *)

(* wait_lock lets one thread at a time into its sections. *)
LEMMA OneWaiter ==
    ASSUME LockDiscipline, NEW p \in Slot, NEW q \in Slot,
           pc[p] \in Waiting, pc[q] \in Waiting
    PROVE  p = q
  <1>1. pc[p] \notin {"resume", "none"} /\ pc[q] \notin {"resume", "none"}
    BY DEF Waiting
  <1>2. PICK c \in CPU : thread[c] = p
    BY <1>1 DEF LockDiscipline, ThreadsOnCpus
  <1>3. PICK d \in CPU : thread[d] = q
    BY <1>1 DEF LockDiscipline, ThreadsOnCpus
  <1>4. wait_lock = c /\ wait_lock = d
    BY <1>2, <1>3, HoldsWaitLock
  <1> QED
    BY <1>2, <1>3, <1>4

(* While another thread than reparent() holds wait_lock, nobody sleeps in  *)
(* kwait() with a child to collect.                                        *)
LEMMA NobodyMissed ==
    ASSUME LockDiscipline, Wakes, NEW p \in Slot, pc[p] \in Waiting,
           pc[p] # "wakeinit"
    PROVE  \A r, q \in Slot : AsleepInWait(r) /\ parent[q] = r => state[q] # "ZOMBIE"
  <1>1. \A h \in Slot : pc[h] # "wakeinit"
    BY OneWaiter DEF Waiting
  <1> QED
    BY <1>1 DEF Wakes

LEMMA WakesInit == Init => Wakes
  BY DEF Init, Wakes, AsleepInWait, initproc

(* A step that puts no one to sleep in kwait(), makes no ZOMBIE, gives no  *)
(* ZOMBIE a parent and leaves the threads that hold wait_lock alone, or    *)
(* takes wait_lock.                                                        *)
LEMMA WakesKept ==
    ASSUME TypeOK, Wakes,
           \A q \in Slot : AsleepInWait(q)' => AsleepInWait(q),
           \A q \in Slot : state'[q] = "ZOMBIE" => state[q] = "ZOMBIE",
           \A q \in Slot : \/ parent'[q] \in {parent[q], Null}
                           \/ state[q] # "ZOMBIE" /\ pc'[q] \notin Waiting,
           \A q \in Slot : pc'[q] \in Waiting =>
               \/ pc'[q] = pc[q] /\ i'[q] = i[q]
               \/ pc'[q] \in {"reparent", "wait_scan"} /\ i'[q] = 1,
           \A q \in Slot : pc[q] = "wakeinit" => pc'[q] = pc[q] /\ i'[q] = i[q]
    PROVE  Wakes'
  <1>1. ASSUME NEW r \in Slot, NEW q \in Slot, AsleepInWait(r)', parent'[q] = r,
               state'[q] = "ZOMBIE"
        PROVE  r = initproc /\ \E h \in Slot : pc'[h] = "wakeinit" /\ i'[h] = 1
    <2>1. AsleepInWait(r) /\ parent[q] = r /\ state[q] = "ZOMBIE"
      BY <1>1, IndexFacts
    <2>2. r = initproc /\ \E h \in Slot : pc[h] = "wakeinit" /\ i[h] = 1
      BY <2>1 DEF Wakes
    <2> QED
      BY <2>2
  <1>2. \A h \in Slot : pc'[h] = "reparent" => i'[h] = 1
    BY DEF Wakes, Waiting
  <1>3. ASSUME NEW r \in Slot, NEW q \in Slot, pc'[r] = "wait_scan", parent'[q] = r,
               q < i'[r], state'[q] = "ZOMBIE"
        PROVE  FALSE
    <2>1. parent[q] = r /\ state[q] = "ZOMBIE"
      BY <1>3, IndexFacts
    <2>2. i'[r] # 1
      BY <1>3 DEF Slot
    <2>3. pc[r] = "wait_scan" /\ i'[r] = i[r]
      BY <1>3, <2>2 DEF Waiting
    <2> QED
      BY <1>3, <2>1, <2>3 DEF Wakes
  <1>4. ASSUME NEW r \in Slot, NEW q \in Slot, pc'[r] = "wait_sleep", parent'[q] = r,
               state'[q] = "ZOMBIE"
        PROVE  FALSE
    <2>1. parent[q] = r /\ state[q] = "ZOMBIE"
      BY <1>4, IndexFacts
    <2>2. pc[r] = "wait_sleep"
      BY <1>4 DEF Waiting
    <2> QED
      BY <2>1, <2>2 DEF Wakes
  <1>5. ASSUME NEW q \in Slot, parent'[q] # Null, AsleepInWait(parent[q])',
               pc'[q] = "zombie" \/ (pc'[q] = "wakeparent" /\ parent'[q] < i'[q])
        PROVE  FALSE
    <2>1. pc[q] = pc'[q] /\ i'[q] = i[q] /\ parent'[q] = parent[q]
      BY <1>5 DEF Waiting
    <2>2. AsleepInWait(parent[q])
      BY <1>5, <2>1, KidTypes
    <2> QED
      BY <1>5, <2>1, <2>2 DEF Wakes
  <1> QED
    BY <1>1, <1>2, <1>3, <1>4, <1>5 DEF Wakes

(* A step of the thread that holds wait_lock: the other threads have no    *)
(* part in Wakes.                                                          *)
LEMMA WakesOfHolder ==
    ASSUME LockDiscipline, NEW p \in Slot, pc[p] \in Waiting,
           \A q \in Slot : q # p => pc'[q] = pc[q],
           \A r, q \in Slot : AsleepInWait(r)' /\ parent'[q] = r /\ state'[q] = "ZOMBIE"
             => r = initproc /\ pc'[p] = "wakeinit" /\ i'[p] = 1,
           pc'[p] = "reparent" => i'[p] = 1,
           \A q \in Slot : pc'[p] = "wait_scan" /\ parent'[q] = p /\ q < i'[p]
             => state'[q] # "ZOMBIE",
           \A q \in Slot : pc'[p] = "wait_sleep" /\ parent'[q] = p
             => state'[q] # "ZOMBIE",
           pc'[p] = "zombie" \/ (pc'[p] = "wakeparent" /\ parent'[p] < i'[p])
             => parent'[p] = Null \/ ~AsleepInWait(parent[p])'
    PROVE  Wakes'
  <1>1. \A q \in Slot : pc'[q] \in Waiting => q = p
    BY OneWaiter
  <1> QED
    BY <1>1 DEF Wakes, Waiting

(* What one step of wakeup() under wait_lock does to the table: it takes nobody
   out of a sleep it is not in, and the slot it passes no longer sleeps on ch. *)
LEMMA WakerMoves ==
    ASSUME TypeOK, NEW p \in Slot, NEW ch, NEW l, Wakeup(p, ch, l),
           pc[p] \in {"wakeinit", "wakeparent"}, l \in {"reparent", "zombie"}
    PROVE  /\ chan' = chan /\ parent' = parent
           /\ \A q \in Slot : q # p => pc'[q] = pc[q]
           /\ \A q \in Slot : \/ state'[q] = state[q]
                              \/ state[q] = "SLEEPING" /\ state'[q] = "RUNNABLE"
           /\ \/ pc'[p] = l /\ i'[p] = 1 /\ i[p] > NPROC
              \/ /\ pc'[p] = pc[p] /\ i'[p] = i[p] + 1 /\ i[p] \in Slot
                 /\ i[p] # p /\ chan[i[p]] = ch => state'[i[p]] # "SLEEPING"
  <1>1. pc[p] \notin {"sched", "resume"} /\ l \notin {"sched", "resume"}
    OBVIOUS
  <1>2. chan' = chan /\ parent' = parent
    BY DEF Wakeup
  <1> QED
    BY <1>1, <1>2, WakeupMoves

LEMMA WakesScheduler ==
    ASSUME TypeOK, Wakes, NEW c \in CPU, SchedulerStep(c)
    PROVE  Wakes'
  <1>1. <<parent, pc, i, chan>>' = <<parent, pc, i, chan>>
    BY DEF SchedulerStep, Dispatch, PassOver, Switched, procVars, threadVars
  <1>2. \A q \in Slot : state'[q] = state[q] \/ state'[q] = "RUNNING"
    BY KidTypes DEF SchedulerStep, Dispatch, PassOver, Switched, procVars
  <1>3. \A q \in Slot : AsleepInWait(q)' => AsleepInWait(q)
    BY <1>1, <1>2 DEF AsleepInWait
  <1> QED
    BY <1>1, <1>2, <1>3, WakesKept

LEMMA WakesSwitch ==
    ASSUME TypeOK, LockDiscipline, Wakes, NEW c \in CPU, NEW p \in Slot,
           SwitchStep(c, p) \/ Yield(c, p)
    PROVE  Wakes'
  <1>1. /\ <<parent, i>>' = <<parent, i>>
        /\ pc[p] \in Interruptible \cup {"sched", "resume"}
    BY DEF SwitchStep, Sched, Resume, Yield, procVars, At
  <1>2. \A q \in Slot : /\ state'[q] = state[q] \/ state'[q] = "RUNNABLE"
                        /\ chan'[q] = chan[q] \/ chan'[q] = Null
    BY KidTypes DEF SwitchStep, Sched, Resume, Yield, procVars
  <1>3. \A q \in Slot : AsleepInWait(q)' => AsleepInWait(q)
    BY <1>2, IndexFacts DEF AsleepInWait
  <1>4. pc[p] # "wakeinit"
    BY <1>1 DEF Interruptible
  <1>5. /\ \A q \in Slot : q # p => pc'[q] = pc[q]
        /\ pc'[p] \notin Waiting
    BY WhereSwitches DEF Waiting
  <1> QED
    BY <1>1, <1>2, <1>3, <1>4, <1>5, WakesKept

LEMMA WakesUser ==
    ASSUME TypeOK, Wakes, NEW c \in CPU, NEW p \in Slot, UserStep(c, p)
    PROVE  Wakes'
  <1>1. PICK l \in {"kfork", "kexit", "kwait", "kkill", "trapret"} :
            pc' = [pc EXCEPT ![p] = l]
    BY DEF UserStep, Syscall, SysKill, UserFault, Goto
  <1>2. pc[p] = "user" /\ <<state, parent, chan, i>>' = <<state, parent, chan, i>>
    BY DEF UserStep, Syscall, SysKill, UserFault, procVars, At
  <1>3. \A q \in Slot : AsleepInWait(q)' => AsleepInWait(q)
    BY <1>2 DEF AsleepInWait
  <1>4. pc'[p] \notin Waiting /\ \A q \in Slot : q # p => pc'[q] = pc[q]
    BY <1>1, KidTypes DEF Waiting
  <1> QED
    BY <1>2, <1>3, <1>4, WakesKept

(* The scan of kwait() comes to every child at or after its index. *)
LEMMA KidFound ==
    ASSUME TypeOK, NEW p \in Slot, NEW q \in Slot, q >= i[p], parent[q] = p
    PROVE  \E r \in Slot : NextKid(p, r)
  <1> DEFINE kids == {r \in Slot : r >= i[p] /\ parent[r] = p}
             less == OpToRel(<, Nat)
  <1>1. q \in kids /\ kids \subseteq Nat /\ kids \subseteq Slot
    BY IndexFacts, Zenon
  <1>2. PICK r \in kids : \A x \in kids : <<x, r>> \notin less
    <2> HIDE DEF kids, less
    <2>1. IsWellFoundedOn(less, Nat)
      BY NatLessThanWellFounded, Zenon DEF less
    <2> QED
      BY <1>1, <2>1, WFMin, Zenon
  <1>3. \A x \in kids : ~(x < r)
    BY <1>1, <1>2, Zenon DEF OpToRel
  <1> QED
    BY <1>3 DEF NextKid

(* The steps of the kernel that WakesKept covers. *)
LEMMA WakesQuiet ==
    ASSUME TypeOK, LockDiscipline, Wakes, NEW c \in CPU, NEW p \in Slot,
           \/ TrapKilled(c, p) \/ TrapReturn(c, p) \/ AllocSkip(c, p)
           \/ AllocFound(c, p) \/ AllocFail(c, p)
           \/ ForkParent(c, p) \/ ForkRun(c, p) \/ ExitLock(c, p) \/ WaitLock(c, p)
           \/ WaitReap(c, p) \/ WaitCopyFail(c, p) \/ KillScan(c, p)
    PROVE  Wakes'
  <1>0. pc[p] # "wakeinit"
    BY DEF TrapKilled, TrapReturn, AllocSkip, AllocFound, AllocFail, ForkParent,
           ForkRun, ExitLock, WaitLock, WaitReap, WaitCopyFail, KillScan, At
  <1>1. CASE TrapKilled(c, p) \/ TrapReturn(c, p) \/ ExitLock(c, p) \/ WaitLock(c, p)
    <2>1. <<state, parent, chan>>' = <<state, parent, chan>>
      BY <1>1 DEF TrapKilled, TrapReturn, ExitLock, WaitLock, procVars
    <2>2. \A q \in Slot : q # p => pc'[q] = pc[q] /\ i'[q] = i[q]
      BY <1>1, KidTypes DEF TrapKilled, TrapReturn, ExitLock, WaitLock, Goto
    <2>3. \/ pc'[p] \in {"kexit", "user"}
          \/ pc'[p] \in {"reparent", "wait_scan"} /\ i'[p] = 1
      BY <1>1, KidTypes DEF TrapKilled, TrapReturn, ExitLock, WaitLock, Goto
    <2>4. pc'[p] \in Waiting => pc'[p] \in {"reparent", "wait_scan"} /\ i'[p] = 1
      BY <2>3 DEF Waiting
    <2> QED
      BY <1>0, <2>1, <2>2, <2>4, WakesKept DEF AsleepInWait
  <1>2. CASE AllocSkip(c, p) \/ WaitCopyFail(c, p) \/ KillScan(c, p)
    <2>1. parent' = parent /\ chan' = chan
      BY <1>2 DEF AllocSkip, WaitCopyFail, KillScan, procVars
    <2>2. \A q \in Slot : state'[q] \in {state[q], "RUNNABLE"}
      <3>1. CASE AllocSkip(c, p) \/ WaitCopyFail(c, p)
        BY <3>1 DEF AllocSkip, WaitCopyFail, procVars
      <3>2. CASE KillScan(c, p)
        BY <3>2, KidTypes DEF KillScan
      <3> QED
        BY <1>2, <3>1, <3>2
    <2>3. \A q \in Slot : q # p => pc'[q] = pc[q] /\ i'[q] = i[q]
      BY <1>2, KidTypes DEF AllocSkip, WaitCopyFail, KillScan, Return, Goto
    <2>4. pc'[p] \notin Waiting
      BY <1>2, KidTypes DEF AllocSkip, WaitCopyFail, KillScan, Return, Goto, At, Waiting
    <2>5. \A q \in Slot : AsleepInWait(q)' => AsleepInWait(q)
      BY <2>1, <2>2 DEF AsleepInWait
    <2> QED
      BY <1>0, <2>1, <2>2, <2>3, <2>4, <2>5, WakesKept
  <1>3. CASE AllocFound(c, p)
    <2>1. PICK np \in Slot : i[p] = np
      BY <1>3, KidTypes, IndexFacts, Zenon DEF AllocFound
    <2>2. /\ pc'[p] \in {"fork_parent", "resume"} /\ pc'[np] = "resume"
          /\ parent' = parent /\ chan' = chan
          /\ \A q \in Slot : state'[q] \in {state[q], "USED"}
          /\ \A q \in Slot : q # p => i'[q] = i[q]
          /\ \A q \in Slot : q # p /\ q # np => pc'[q] = pc[q]
      BY <1>3, <2>1, KidTypes DEF AllocFound
    <2>3. pc[np] # "wakeinit"
      BY <1>3, <2>1, OffCpu DEF AllocFound
    <2>4. \A q \in Slot : AsleepInWait(q)' => AsleepInWait(q)
      BY <2>2 DEF AsleepInWait
    <2>5. pc'[p] \notin Waiting /\ pc'[np] \notin Waiting
      BY <2>2 DEF Waiting
    <2> QED
      BY <1>0, <2>2, <2>3, <2>4, <2>5, WakesKept
  <1>4. CASE AllocFail(c, p) \/ WaitReap(c, p)
    <2>1. PICK np \in Slot : FreeProc(np)
      BY <1>4, KidTypes, IndexFacts, Zenon DEF AllocFail, WaitReap
    <2>2. /\ pc'[p] = "trapret"
          /\ \A q \in Slot : q # p => pc'[q] = pc[q] /\ i'[q] = i[q]
      BY <1>4, WhereReturns DEF AllocFail, WaitReap
    <2>3. \A q \in Slot : /\ state'[q] \in {state[q], "UNUSED"}
                          /\ parent'[q] \in {parent[q], Null}
                          /\ chan'[q] \in {chan[q], Null}
      BY <2>1, KidTypes DEF FreeProc
    <2>4. \A q \in Slot : AsleepInWait(q)' => AsleepInWait(q)
      BY <2>3, IndexFacts DEF AsleepInWait
    <2>5. pc'[p] \notin Waiting
      BY <2>2 DEF Waiting
    <2> QED
      BY <1>0, <2>2, <2>3, <2>4, <2>5, WakesKept
  <1>5. CASE ForkParent(c, p)
    <2>1. /\ Where(p) = "fork_parent" /\ pc' = [pc EXCEPT ![p] = "fork_run"]
          /\ <<state, chan, i>>' = <<state, chan, i>>
          /\ parent' = [parent EXCEPT ![arg[p]] = p]
      BY <1>5 DEF ForkParent, At, Goto, Where
    <2>2. PICK np \in Slot : arg[p] = np /\ state[np] = "USED"
      BY <2>1 DEF LockDiscipline, ForkOwnsSlot
    <2>3. \A q \in Slot : q # np => parent'[q] = parent[q]
      BY <2>1, <2>2, KidTypes
    <2>4. pc'[p] = "fork_run" /\ \A q \in Slot : q # p => pc'[q] = pc[q]
      BY <2>1, KidTypes
    <2>5. pc'[p] \notin Waiting
      BY <2>4 DEF Waiting
    <2>6. pc'[np] \notin Waiting
      <3>1. ASSUME NEW d \in CPU, thread[d] = np
            PROVE  FALSE
        <4>1. proc[d] = np /\ np # Null
          BY <3>1, OwnCpu
        <4> QED
          BY <2>2, <3>1, <4>1 DEF LockDiscipline, LocksHandedOver
      <3>2. pc[np] \in {"resume", "none"}
        BY <3>1 DEF LockDiscipline, ThreadsOnCpus
      <3> QED
        BY <2>4, <2>5, <3>2 DEF Waiting
    <2> QED
      BY <1>0, <2>1, <2>2, <2>3, <2>4, <2>5, <2>6, WakesKept DEF AsleepInWait
  <1>6. CASE ForkRun(c, p)
    <2>1. parent' = parent /\ chan' = chan
      BY <1>6 DEF ForkRun
    <2>2. \A q \in Slot : state'[q] \in {state[q], "RUNNABLE"}
      BY <1>6, KidTypes DEF ForkRun
    <2>3. /\ pc'[p] = "trapret"
          /\ \A q \in Slot : q # p => pc'[q] = pc[q] /\ i'[q] = i[q]
      BY <1>6, WhereReturns, Zenon DEF ForkRun
    <2>4. \A q \in Slot : AsleepInWait(q)' => AsleepInWait(q)
      BY <2>1, <2>2 DEF AsleepInWait
    <2>5. pc'[p] \notin Waiting
      BY <2>3 DEF Waiting
    <2> QED
      BY <1>0, <2>1, <2>2, <2>3, <2>4, <2>5, WakesKept
  <1> QED
    BY <1>1, <1>2, <1>3, <1>4, <1>5, <1>6

(* reparent() and its wakeups of init. *)
LEMMA WakesReparent ==
    ASSUME TypeOK, LockDiscipline, InitLives, Wakes, NEW c \in CPU, NEW p \in Slot,
           Reparent(c, p)
    PROVE  Wakes'
  <1>1. /\ pc[p] = "reparent" /\ pc[p] \in Waiting
        /\ <<state, chan, i>>' = <<state, chan, i>>
    BY DEF Reparent, At, Waiting
  <1>2. i'[p] = 1
    BY <1>1 DEF Wakes
  <1>3. \A r, q \in Slot : AsleepInWait(r) /\ parent[q] = r => state[q] # "ZOMBIE"
    BY <1>1, NobodyMissed
  <1>4. \A r \in Slot : AsleepInWait(r)' <=> AsleepInWait(r)
    BY <1>1 DEF AsleepInWait
  <1>5. CASE \E q \in Slot : parent[q] = p
    <2>1. PICK q \in Slot : parent' = [parent EXCEPT ![q] = initproc]
      BY <1>5 DEF Reparent
    <2>2. pc' = [pc EXCEPT ![p] = "wakeinit"]
      BY <1>5 DEF Reparent, Goto
    <2>3. pc'[p] = "wakeinit" /\ \A r \in Slot : r # p => pc'[r] = pc[r]
      BY <2>2, KidTypes
    <2>4. \A r \in Slot : parent'[r] \in {initproc, parent[r]}
      BY <2>1, KidTypes
    <2>5. \A r, x \in Slot : AsleepInWait(r)' /\ parent'[x] = r /\ state'[x] = "ZOMBIE"
            => r = initproc
      BY <1>1, <1>3, <1>4, <2>4
    <2> QED
      BY <1>1, <1>2, <2>3, <2>5, WakesOfHolder
  <1>6. CASE \A q \in Slot : parent[q] # p
    <2>1. pc' = [pc EXCEPT ![p] = "wakeparent"] /\ parent' = parent
      BY <1>6 DEF Reparent, Goto
    <2>2. pc'[p] = "wakeparent" /\ \A r \in Slot : r # p => pc'[r] = pc[r]
      BY <2>1, KidTypes
    <2>3. parent'[p] < i'[p] => parent'[p] = Null
      BY <1>2, <2>1, KidTypes DEF Slot, Null
    <2> QED
      BY <1>1, <1>3, <1>4, <2>1, <2>2, <2>3, WakesOfHolder
  <1> QED
    BY <1>5, <1>6

LEMMA WakesWakeInit ==
    ASSUME TypeOK, LockDiscipline, InitLives, Wakes, NEW c \in CPU, NEW p \in Slot,
           WakeInit(c, p)
    PROVE  Wakes'
  <1>1. /\ pc[p] = "wakeinit" /\ pc[p] \in Waiting /\ p # initproc
        /\ Wakeup(p, initproc, "reparent")
    BY NotInit DEF WakeInit, At, Waiting
  <1>2. /\ chan' = chan /\ parent' = parent
        /\ \A q \in Slot : q # p => pc'[q] = pc[q]
        /\ \A q \in Slot : \/ state'[q] = state[q]
                           \/ state[q] = "SLEEPING" /\ state'[q] = "RUNNABLE"
        /\ \/ pc'[p] = "reparent" /\ i'[p] = 1 /\ i[p] > NPROC
           \/ /\ pc'[p] = "wakeinit" /\ i[p] \in Slot
              /\ i[p] # p /\ chan[i[p]] = initproc => state'[i[p]] # "SLEEPING"
    BY <1>1, WakerMoves
  <1>3. ASSUME NEW r \in Slot, NEW q \in Slot, AsleepInWait(r)', parent'[q] = r,
               state'[q] = "ZOMBIE"
        PROVE  FALSE
    <2>1. AsleepInWait(r) /\ parent[q] = r /\ state[q] = "ZOMBIE"
      BY <1>2, <1>3 DEF AsleepInWait
    <2>2. r = initproc /\ \E h \in Slot : pc[h] = "wakeinit" /\ i[h] = 1
      BY <2>1 DEF Wakes
    <2>3. i[p] = 1
      BY <1>1, <2>2, OneWaiter DEF Waiting
    <2>4. ~(i[p] > NPROC) /\ i[p] = initproc
      BY <2>3, ProcAssumption DEF initproc
    <2> QED
      BY <1>1, <1>2, <1>3, <2>1, <2>2, <2>4 DEF AsleepInWait
  <1>4. \A r, q \in Slot : AsleepInWait(r)' /\ parent'[q] = r => state'[q] # "ZOMBIE"
    BY <1>3, Zenon
  <1>5. /\ pc'[p] = "reparent" => i'[p] = 1
        /\ pc'[p] \notin {"wait_scan", "wait_sleep", "zombie", "wakeparent"}
    BY <1>2
  <1>6. /\ pc[p] \in Waiting
        /\ \A q \in Slot : q # p => pc'[q] = pc[q]
    BY <1>1, <1>2, Zenon
  <1> QED
    BY <1>4, <1>5, <1>6, WakesOfHolder

LEMMA WakesWakeParent ==
    ASSUME TypeOK, LockDiscipline, Wakes, NEW c \in CPU, NEW p \in Slot,
           WakeParent(c, p)
    PROVE  Wakes'
  <1>0. PICK ch \in Slot \cup {Null} : ch = parent[p]
    BY KidTypes
  <1>1. /\ pc[p] = "wakeparent" /\ pc[p] \in Waiting /\ thread[c] = p
        /\ Wakeup(p, ch, "zombie")
    BY <1>0 DEF WakeParent, At, Waiting
  <1>2. state[p] = "RUNNING"
    BY <1>1, OwnCpu
  <1>3. /\ chan' = chan /\ parent' = parent
        /\ \A q \in Slot : q # p => pc'[q] = pc[q]
        /\ \A q \in Slot : \/ state'[q] = state[q]
                           \/ state[q] = "SLEEPING" /\ state'[q] = "RUNNABLE"
    BY <1>1, WakerMoves
  <1>4. \/ pc'[p] = "zombie" /\ i[p] > NPROC
        \/ /\ pc'[p] = "wakeparent" /\ i'[p] = i[p] + 1 /\ i[p] \in Slot
           /\ i[p] # p /\ chan[i[p]] = ch => state'[i[p]] # "SLEEPING"
    BY <1>1, WakerMoves
  <1>5. \A q \in Slot : AsleepInWait(q)' => AsleepInWait(q)
    BY <1>3 DEF AsleepInWait
  <1>6. \A r, q \in Slot : AsleepInWait(r)' /\ parent'[q] = r => state'[q] # "ZOMBIE"
    <2>1. \A r, q \in Slot : AsleepInWait(r) /\ parent[q] = r => state[q] # "ZOMBIE"
      BY <1>1, NobodyMissed
    <2> QED
      BY <1>3, <1>5, <2>1
  <1>7. ASSUME parent[p] # Null, AsleepInWait(parent[p])'
        PROVE  pc'[p] = "wakeparent" /\ ~(parent'[p] < i'[p])
    <2>1. ch \in Slot /\ AsleepInWait(ch) /\ AsleepInWait(ch)'
      BY <1>0, <1>3, <1>5, <1>7
    <2>2. ~(ch < i[p])
      BY <1>0, <1>1, <1>7, <2>1 DEF Wakes
    <2>3. ch # p
      BY <1>2, <2>1 DEF AsleepInWait
    <2>4. /\ ch <= NPROC /\ ch \in Nat /\ i[p] \in Nat /\ NPROC \in Nat
      <3>1. i[p] \in Index
        BY KidTypes
      <3> QED
        BY <2>1, <3>1, ProcAssumption DEF Slot, Index
    <2>5. ~(i[p] > NPROC)
      BY <2>2, <2>4
    <2>6. pc'[p] = "wakeparent" /\ i'[p] = i[p] + 1
      BY <1>4, <2>5
    <2>7. ch # i[p]
      <3>1. state'[ch] = "SLEEPING" /\ chan[ch] = ch
        BY <2>1 DEF AsleepInWait
      <3> QED
        BY <1>4, <2>3, <2>5, <3>1
    <2>8. ~(ch < i'[p])
      BY <2>2, <2>4, <2>6, <2>7
    <2> QED
      BY <1>0, <1>3, <2>6, <2>8
  <1>8. pc'[p] # "reparent" /\ pc'[p] # "wait_scan" /\ pc'[p] # "wait_sleep"
    BY <1>4
  <1>9. /\ pc[p] \in Waiting
        /\ \A q \in Slot : q # p => pc'[q] = pc[q]
    BY <1>1, <1>3, Zenon
  <1>10. pc'[p] = "zombie" \/ (pc'[p] = "wakeparent" /\ parent'[p] < i'[p])
           => parent'[p] = Null \/ ~AsleepInWait(parent[p])'
    BY <1>3, <1>7
  <1> QED
    BY <1>6, <1>8, <1>9, <1>10, WakesOfHolder

(* The child's exit, and the parent's scan and sleep. *)
LEMMA WakesZombie ==
    ASSUME TypeOK, LockDiscipline, Wakes, NEW c \in CPU, NEW p \in Slot,
           Zombie(c, p)
    PROVE  Wakes'
  <1>1. /\ pc[p] = "zombie" /\ pc[p] \in Waiting
        /\ parent' = parent /\ chan' = chan
    BY DEF Zombie, At, Waiting
  <1>2. /\ pc'[p] = "sched" /\ state'[p] = "ZOMBIE"
        /\ \A q \in Slot : q # p => pc'[q] = pc[q] /\ state'[q] = state[q]
    BY KidTypes DEF Zombie, Goto
  <1>3. \A r, q \in Slot : AsleepInWait(r) /\ parent[q] = r => state[q] # "ZOMBIE"
    BY <1>1, NobodyMissed
  <1>4. parent[p] # Null => ~AsleepInWait(parent[p])
    BY <1>1 DEF Wakes
  <1>5. \A r, q \in Slot : AsleepInWait(r)' /\ parent'[q] = r => state'[q] # "ZOMBIE"
    <2>1. \A r \in Slot : AsleepInWait(r)' => AsleepInWait(r)
      BY <1>1, <1>2 DEF AsleepInWait
    <2> QED
      BY <1>1, <1>2, <1>3, <1>4, <2>1, IndexFacts
  <1> QED
    BY <1>1, <1>2, <1>5, WakesOfHolder

LEMMA WakesWait ==
    ASSUME TypeOK, LockDiscipline, Wakes, NEW c \in CPU, NEW p \in Slot,
           WaitSkip(c, p) \/ WaitDone(c, p) \/ WaitSleep(c, p)
    PROVE  Wakes'
  <1>1. pc[p] \in Waiting /\ pc[p] # "wakeinit" /\ parent' = parent
    BY DEF WaitSkip, WaitDone, WaitSleep, Sleep, At, Waiting, procVars
  <1>2. \A r, q \in Slot : AsleepInWait(r) /\ parent[q] = r => state[q] # "ZOMBIE"
    BY <1>1, NobodyMissed
  <1>3. CASE WaitSkip(c, p)
    <2>1. PICK k \in Slot : /\ NextKid(p, k) /\ state[k] # "ZOMBIE"
                            /\ i' = [i EXCEPT ![p] = k + 1]
      BY <1>3, Zenon DEF WaitSkip
    <2>2. pc[p] = "wait_scan" /\ <<pc, state, chan>>' = <<pc, state, chan>>
      BY <1>3 DEF WaitSkip, At, procVars
    <2>3. i'[p] = k + 1
      BY <2>1, KidTypes
    <2>4. ASSUME NEW q \in Slot, parent[q] = p, q < k + 1
          PROVE  state[q] # "ZOMBIE"
      <3>1. CASE q < i[p]
        BY <2>2, <2>4, <3>1 DEF Wakes
      <3>2. CASE ~(q < i[p])
        <4>1. ~(q < k)
          BY <2>1, <2>4, <3>2, KidTypes DEF NextKid, Slot, Index
        <4>2. q = k
          BY <2>4, <4>1 DEF Slot
        <4> QED
          BY <2>1, <4>2
      <3> QED
        BY <3>1, <3>2
    <2>5. \A r \in Slot : AsleepInWait(r)' <=> AsleepInWait(r)
      BY <2>2 DEF AsleepInWait
    <2>6. \A r, q \in Slot : AsleepInWait(r)' /\ parent'[q] = r => state'[q] # "ZOMBIE"
      BY <1>1, <1>2, <2>2, <2>5
    <2>7. \A q \in Slot : parent'[q] = p /\ q < i'[p] => state'[q] # "ZOMBIE"
      BY <1>1, <2>2, <2>3, <2>4
    <2>8. \A q \in Slot : q # p => pc'[q] = pc[q]
      BY <2>2
    <2>9. /\ pc[p] \in Waiting
          /\ pc'[p] # "reparent" /\ pc'[p] # "wait_sleep"
          /\ pc'[p] # "zombie" /\ pc'[p] # "wakeparent"
      BY <1>1, <2>2
    <2> QED
      BY <2>6, <2>7, <2>8, <2>9, WakesOfHolder
  <1>4. CASE WaitDone(c, p)
    <2>1. pc[p] = "wait_scan" /\ <<state, chan>>' = <<state, chan>>
      BY <1>4 DEF WaitDone, At
    <2>2. \A q \in Slot : parent[q] = p => state[q] # "ZOMBIE"
      <3>1. ASSUME NEW q \in Slot, parent[q] = p
            PROVE  q < i[p]
        <4>1. ~(q >= i[p])
          BY <1>4, <3>1, KidFound, Zenon DEF WaitDone
        <4> QED
          BY <4>1, KidTypes DEF Slot, Index
      <3> QED
        BY <2>1, <3>1 DEF Wakes
    <2>3. /\ pc'[p] \in {"trapret", "wait_sleep"}
          /\ \A q \in Slot : q # p => pc'[q] = pc[q]
      BY <1>4, KidTypes DEF WaitDone, Return, Goto
    <2>4. \A r \in Slot : AsleepInWait(r)' <=> AsleepInWait(r)
      BY <2>1 DEF AsleepInWait
    <2>5. \A r, q \in Slot : AsleepInWait(r)' /\ parent'[q] = r => state'[q] # "ZOMBIE"
      BY <1>1, <1>2, <2>1, <2>4
    <2>6. \A q \in Slot : parent'[q] = p => state'[q] # "ZOMBIE"
      BY <1>1, <2>1, <2>2
    <2> QED
      BY <1>1, <2>3, <2>5, <2>6, WakesOfHolder
  <1>5. CASE WaitSleep(c, p)
    <2>1. pc[p] = "wait_sleep"
      BY <1>5 DEF WaitSleep, At
    <2>2. /\ pc'[p] = "sched" /\ state'[p] = "SLEEPING" /\ chan'[p] = p
          /\ \A q \in Slot : q # p => /\ pc'[q] = pc[q] /\ state'[q] = state[q]
                                      /\ chan'[q] = chan[q]
      BY <1>5, KidTypes DEF WaitSleep, Sleep, Goto
    <2>3. \A q \in Slot : parent[q] = p => state[q] # "ZOMBIE"
      BY <2>1 DEF Wakes
    <2>4. \A r, q \in Slot : AsleepInWait(r)' /\ parent'[q] = r => state'[q] # "ZOMBIE"
      <3>1. \A r \in Slot : r # p => (AsleepInWait(r)' <=> AsleepInWait(r))
        BY <2>2 DEF AsleepInWait
      <3> QED
        BY <1>1, <1>2, <2>2, <2>3, <3>1
    <2>5. pc'[p] = "sched" /\ \A q \in Slot : q # p => pc'[q] = pc[q]
      BY <2>2
    <2>6. pc[p] \in Waiting
      BY <1>1
    <2> QED
      BY <2>4, <2>5, <2>6, WakesOfHolder
  <1> QED
    BY <1>3, <1>4, <1>5

LEMMA WakesNext ==
    TypeOK /\ LockDiscipline /\ InitLives /\ Wakes /\ [Next]_vars => Wakes'
  <1> SUFFICES ASSUME TypeOK, LockDiscipline, InitLives, Wakes, [Next]_vars
               PROVE  Wakes'
    OBVIOUS
  <1>1. CASE UNCHANGED vars
    BY <1>1 DEF Wakes, AsleepInWait, vars, procVars, threadVars
  <1>2. ASSUME NEW c \in CPU, NEW p \in Slot, KernelStep(c, p)
        PROVE  Wakes'
    BY <1>2, WakesQuiet, WakesReparent, WakesWakeInit, WakesWakeParent, WakesZombie,
       WakesWait DEF KernelStep
  <1>3. CASE Next
    BY <1>2, <1>3, WakesScheduler, WakesSwitch, WakesUser DEF Next
  <1> QED
    BY <1>1, <1>3

(* wait_lock does what its comment says: whenever it is free, no process   *)
(* sleeps in wait() while it has a child to collect.                       *)
THEOREM WakeupsNotLost == Spec => []NoLostWakeup
  <1>1. Init => TypeOK /\ LockDiscipline /\ InitLives /\ Wakes
    BY InitTypeOK, InitDiscipline, LivesInit, WakesInit
  <1>2. TypeOK /\ LockDiscipline /\ InitLives /\ Wakes /\ [Next]_vars
          => (TypeOK /\ LockDiscipline /\ InitLives /\ Wakes)'
    BY NextTypeOK, NextDiscipline, LivesNext, WakesNext
  <1>3. LockDiscipline /\ Wakes => NoLostWakeup
    <2> SUFFICES ASSUME LockDiscipline, Wakes, wait_lock = Null
                 PROVE  \A p, q \in Slot : AsleepInWait(p) /\ parent[q] = p
                                             => state[q] # "ZOMBIE"
      BY DEF NoLostWakeup, AsleepInWait
    <2>1. ASSUME NEW h \in Slot, pc[h] = "wakeinit"
          PROVE  FALSE
      <3>1. PICK c \in CPU : thread[c] = h
        BY <2>1 DEF LockDiscipline, ThreadsOnCpus
      <3>2. wait_lock = c
        BY <2>1, <3>1, HoldsWaitLock DEF Waiting
      <3> QED
        BY <3>2, IndexFacts
    <2> QED
      BY <2>1 DEF Wakes
  <1> QED
    BY <1>1, <1>2, <1>3, PTL DEF Spec
=============================================================================
