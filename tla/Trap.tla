-------------------------------- MODULE Trap --------------------------------
(***************************************************************************)
(* Interrupts and spin locks: push_off() and pop_off() of spinlock.c, the  *)
(* traps of trap.c, and the switches of proc.c that carry a held lock and  *)
(* intena from one kernel thread to another.                               *)
(*                                                                         *)
(* A context is a process or the scheduler of a CPU.  What it has still to *)
(* execute is its code, a sequence of instructions; a trap puts the code   *)
(* of its handler in front, and a CPU executes the context it runs.  Code  *)
(* keeps the calls that lock, unlock, switch and set the interrupt enable  *)
(* bit.  myproc() pushes and pops at once, and is left out.  The timer     *)
(* interrupt, whose handler takes a lock that system calls sleep with,     *)
(* stands for the other devices'.                                          *)
(***************************************************************************)
EXTENDS Naturals, Sequences, FiniteSets, SequencesExt

CONSTANTS
    Cpu, Proc,
    Cpu0,           \* the CPU that counts ticks
    None

ASSUME TrapAssumption == Cpu0 \in Cpu /\ Cpu \cap Proc = {} /\ None \notin Cpu \cup Proc

VARIABLES
    cpu,            \* sstatus.SIE, stvec, noff, intena, proc, and the context it runs
    lock,           \* the CPU in lk->cpu, or None when it is not locked
    code,           \* of each context
    intena,         \* the local of sched(), in each process
    state,          \* of each process; its channel is &ticks
    panic

vars == <<cpu, lock, code, intena, state, panic>>

Table == SetToSeq(Proc)

Lock == Proc \cup {"tickslock"}

-----------------------------------------------------------------------------
(* The code of the kernel *)

Acquire(l) == <<<<"acquire", l>>>>

Release(l) == <<<<"release", l>>>>

killed(p) == Acquire(p) \o Release(p)

yield(p) == Acquire(p) \o <<<<"sched", "RUNNABLE">>>> \o Release(p)

sleep(p, lk) == Acquire(p) \o Release(lk) \o <<<<"sched", "SLEEPING">>>> \o Release(p) \o Acquire(lk)

(* By process p, or by a scheduler *)
wakeup(p) ==
    FoldLeft(LAMBDA s, q : s \o Acquire(q) \o <<<<"wake", q>>>> \o Release(q),
             <<>>, SelectSeq(Table, LAMBDA q : q # p))

clockintr(c, p) ==
    IF c = Cpu0 THEN Acquire("tickslock") \o wakeup(p) \o Release("tickslock") ELSE <<>>

prepare_return == <<<<"intr_off">>, <<"stvec">>, <<"user">>>>

(* A system call that takes and drops a lock, and one that sleeps *)
sys_uptime(p) == Acquire("tickslock") \o Release("tickslock")

sys_pause(p) == Acquire("tickslock") \o killed(p) \o sleep(p, "tickslock") \o Release("tickslock")

UserSyscall(p, body) ==
    killed(p) \o <<<<"intr_on">>>> \o body \o <<<<"returned">>>> \o killed(p) \o prepare_return

UserIntr(c, p) == clockintr(c, p) \o killed(p) \o Acquire(p) \o Release(p) \o yield(p) \o prepare_return

kerneltrap(c, p) == clockintr(c, p) \o (IF p # None THEN yield(p) ELSE <<>>) \o <<<<"sret">>>>

forkret(p) == Release(p) \o prepare_return

(* One round of scheduler(), with schedule_rr() *)
SchedulerRound ==
    FoldLeft(LAMBDA s, q : s \o Acquire(q) \o <<<<"pick", q>>>> \o Release(q),
             <<<<"intr_on">>, <<"intr_off">>>>, Table)

Init ==
    /\ cpu = [c \in Cpu |-> [sie |-> FALSE, stvec |-> "kernelvec", noff |-> 0, intena |-> FALSE,
                             proc |-> None, run |-> c]]
    /\ lock = [l \in Lock |-> None]
    /\ code = [x \in Cpu \cup Proc |-> IF x \in Cpu THEN SchedulerRound ELSE forkret(x)]
    /\ intena = [p \in Proc |-> FALSE]
    /\ state = [p \in Proc |-> "RUNNABLE"] /\ panic = "no"

-----------------------------------------------------------------------------
(* Execution *)

Code(c) == code[cpu[c].run]

Does(c, op) == panic = "no" /\ Code(c) # <<>> /\ Head(Code(c))[1] = op

Arg(c) == Head(Code(c))[2]

(* The instruction is done, and k comes next. *)
Go(c, k) == code' = [code EXCEPT ![cpu[c].run] = k \o Tail(@)]

Panics(why) == panic' = why /\ UNCHANGED <<cpu, lock, code, intena, state>>

push_off(c, old) ==
    [cpu EXCEPT ![c].sie = FALSE, ![c].noff = @ + 1,
                ![c].intena = IF cpu[c].noff = 0 THEN old ELSE @]

(* The test-and-set of acquire(), once the lock is free *)
Locks(c, pushed) ==
    LET l == Arg(c) IN
    IF lock[l] = c THEN panic' = "acquire" /\ UNCHANGED <<cpu, lock, code>>
    ELSE /\ lock[l] = None
         /\ lock' = [lock EXCEPT ![l] = c]
         /\ cpu' = pushed /\ Go(c, <<>>) /\ UNCHANGED panic

(* acquire(): push_off() reads sie, an interrupt may come, and it goes on  *)
(* with what it read.  With interrupts off nothing comes in between.       *)
IntrGet(c) ==
    /\ Does(c, "acquire")
    /\ IF cpu[c].sie THEN Go(c, <<<<"push_off", Arg(c)>>>>) /\ UNCHANGED <<cpu, lock, panic>>
       ELSE Locks(c, push_off(c, FALSE))
    /\ UNCHANGED <<intena, state>>

PushOff(c) ==
    /\ Does(c, "push_off")
    /\ cpu' = push_off(c, TRUE) /\ Go(c, <<<<"spin", Arg(c)>>>>)
    /\ UNCHANGED <<lock, intena, state, panic>>

Spin(c) ==
    /\ Does(c, "spin")
    /\ Locks(c, cpu)
    /\ UNCHANGED <<intena, state>>

PopPanics(c) == cpu[c].sie \/ cpu[c].noff < 1

pop_off(c) == [cpu EXCEPT ![c].noff = @ - 1,
                          ![c].sie = cpu[c].noff = 1 /\ cpu[c].intena]

release(c) ==
    /\ Does(c, "release")
    /\ IF lock[Arg(c)] # c THEN Panics("release")
       ELSE IF PopPanics(c) THEN Panics("pop_off")
       ELSE /\ lock' = [lock EXCEPT ![Arg(c)] = None]
            /\ cpu' = pop_off(c) /\ Go(c, <<>>)
            /\ UNCHANGED <<intena, state, panic>>

Wake(c) ==
    /\ Does(c, "wake")
    /\ state' = [state EXCEPT ![Arg(c)] = IF @ = "SLEEPING" THEN "RUNNABLE" ELSE @]
    /\ Go(c, <<>>)
    /\ UNCHANGED <<cpu, lock, intena, panic>>

(* The change of state that yield() and sleep() make, and sched() up to    *)
(* its swtch()                                                             *)
sched(c) ==
    /\ Does(c, "sched")
    /\ LET p == cpu[c].proc
       IN  IF lock[p] # c THEN Panics("sched p->lock")
           ELSE IF cpu[c].noff # 1 THEN Panics("sched locks")
           ELSE IF cpu[c].sie THEN Panics("sched interruptible")
           ELSE /\ state' = [state EXCEPT ![p] = Arg(c)]
                /\ intena' = [intena EXCEPT ![p] = cpu[c].intena]
                /\ cpu' = [cpu EXCEPT ![c].run = c]
                /\ Go(c, <<<<"swtched">>>>)
                /\ UNCHANGED <<lock, panic>>

(* A plausible slip: intena is left as the last thread on this CPU had it. *)
SchedBackUnset(c) ==
    /\ Does(c, "swtched")
    /\ Go(c, <<>>)
    /\ UNCHANGED <<cpu, lock, intena, state, panic>>

(* sched(), after its swtch(), perhaps on another CPU *)
SchedBack(c) ==
    /\ Does(c, "swtched")
    /\ cpu' = [cpu EXCEPT ![c].intena = intena[cpu[c].proc]]
    /\ Go(c, <<>>)
    /\ UNCHANGED <<lock, intena, state, panic>>

(* schedule_rr() with p->lock held: run p if it may run. *)
Pick(c) ==
    /\ Does(c, "pick")
    /\ LET p == Arg(c)
       IN  IF state[p] = "RUNNABLE"
           THEN /\ state' = [state EXCEPT ![p] = "RUNNING"]
                /\ cpu' = [cpu EXCEPT ![c].proc = p, ![c].run = p]
                /\ Go(c, <<<<"ran">>>>)
           ELSE Go(c, <<>>) /\ UNCHANGED <<state, cpu>>
    /\ UNCHANGED <<lock, intena, panic>>

Ran(c) ==
    /\ Does(c, "ran")
    /\ cpu' = [cpu EXCEPT ![c].proc = None] /\ Go(c, <<>>)
    /\ UNCHANGED <<lock, intena, state, panic>>

(* scheduler()'s loop *)
Again(c) ==
    /\ cpu[c].run = c /\ code[c] = <<>> /\ panic = "no"
    /\ code' = [code EXCEPT ![c] = SchedulerRound]
    /\ UNCHANGED <<cpu, lock, intena, state, panic>>

(* intr_on(), intr_off(), and the sret that ends a trap *)
SetSie(c) ==
    /\ \E op \in {"intr_on", "intr_off", "sret", "user"} :
          Does(c, op) /\ cpu' = [cpu EXCEPT ![c].sie = op # "intr_off"]
    /\ Go(c, <<>>)
    /\ UNCHANGED <<lock, intena, state, panic>>

(* prepare_return() sends traps to usertrap(). *)
SetStvec(c) ==
    /\ Does(c, "stvec") /\ Go(c, <<>>)
    /\ cpu' = [cpu EXCEPT ![c].stvec = "uservec"]
    /\ UNCHANGED <<lock, intena, state, panic>>

SyscallReturned(c) ==
    /\ Does(c, "returned") /\ Go(c, <<>>)
    /\ UNCHANGED <<cpu, lock, intena, state, panic>>

-----------------------------------------------------------------------------
(* Traps *)

InUser(c) == cpu[c].run \in Proc /\ Code(c) = <<>>

(* The trap turns interrupts off; usertrap() sets stvec. *)
Masked(c) == [cpu EXCEPT ![c].sie = FALSE, ![c].stvec = "kernelvec"]

(* A process in user space makes a system call. *)
Ecall(c) ==
    /\ InUser(c) /\ panic = "no"
    /\ \E p \in {cpu[c].run} : \E body \in {sys_uptime(p), sys_pause(p)} :
          code' = [code EXCEPT ![p] = UserSyscall(p, body)]
    /\ cpu' = Masked(c)
    /\ UNCHANGED <<lock, intena, state, panic>>

(* An interrupt in user space, or in the kernel while sie is set *)
Interrupt(c) ==
    /\ cpu[c].sie /\ panic = "no"
    /\ IF cpu[c].stvec = "uservec" /\ ~InUser(c) THEN Panics("usertrap: not from user mode")
       ELSE /\ code' = [code EXCEPT ![cpu[c].run] = IF InUser(c) THEN UserIntr(c, cpu[c].proc)
                                                    ELSE kerneltrap(c, cpu[c].proc) \o @]
            /\ cpu' = Masked(c)
            /\ UNCHANGED <<lock, intena, state, panic>>

Next ==
    \E c \in Cpu :
        \/ IntrGet(c) \/ PushOff(c) \/ Spin(c) \/ release(c)
        \/ Wake(c) \/ sched(c) \/ SchedBack(c)
        \/ Pick(c) \/ Ran(c) \/ Again(c) \/ SetSie(c) \/ SetStvec(c) \/ SyscallReturned(c)
        \/ Ecall(c) \/ Interrupt(c)

Spec == Init /\ [][Next]_vars

-----------------------------------------------------------------------------
(* Interrupts are off on a CPU exactly as long as its locks require: noff  *)
(* counts the locks the CPU holds or spins on, whichever of its contexts   *)
(* took them, and no interrupt comes while one is held; a thread finds     *)
(* interrupts after a system call as it had them before, on whatever CPU   *)
(* it woke up; and no acquire(), release(), pop_off() or sched() panics,   *)
(* so that no handler spins on a lock of the code it interrupted, nor does *)
(* usertrap(), for a trap of the kernel on its way to user space.          *)
InterruptsNest ==
    /\ panic = "no"
    /\ \A c \in Cpu :
          /\ cpu[c].noff = Cardinality({l \in Lock : lock[l] = c}) + (IF Does(c, "spin") THEN 1 ELSE 0)
          /\ cpu[c].sie => cpu[c].noff = 0
          /\ Does(c, "returned") => cpu[c].sie
          /\ Does(c, "sret") => cpu[c].noff = 0
=============================================================================
