-------------------------------- MODULE Times --------------------------------
(***************************************************************************)
(* What the kernel writes down about the time of one process: the "metadata*)
(* for scheduling" of struct proc, kept by allocproc, the scheduling       *)
(* policies, kexit, usertrap and starvation_clean in kernel/proc.c and     *)
(* trap.c.                                                                 *)
(*                                                                         *)
(* The module follows one slot of proc[]; the rest of the system only lets *)
(* the clock run, and under MLFQ ages the process.  uint64 is W bits wide  *)
(* and subtraction wraps.  Several getTime() in one handler read the same  *)
(* now.                                                                    *)
(***************************************************************************)
EXTENDS Naturals

CONSTANTS
    Policies,   \* the SCHED_POLICY of the kernels considered
    W,          \* width of a uint64
    MaxTime,    \* bound: the clock stops here
    Hints,      \* arguments of setexpected() and setstcfvals(), clamped at 0
    quantum0, quantum1, quantum2,   \* quantum[]
    starv_cut

ASSUME TimesAssumption ==
    /\ Policies \subseteq {"RR", "FIFO", "SJF", "STCF", "MLFQ"}
    /\ W \in Nat /\ 2^W \in Nat /\ MaxTime \in Nat \ {0}
    /\ 4 * MaxTime < 2^W            \* rtime does not wrap
    /\ Hints \subseteq 0 .. 2^W - 2
    /\ 0 < quantum0 /\ quantum0 <= quantum1 /\ quantum1 <= quantum2
    /\ {quantum0, quantum1, quantum2, starv_cut} \subseteq 0 .. 2^W - 1

uint64 == 0 .. 2^W - 1
Minus(a, b) == (a + 2^W - b) % 2^W
quantum(l) == IF l = 0 THEN quantum0 ELSE IF l = 1 THEN quantum1 ELSE quantum2

VARIABLES
    policy,         \* SCHED_POLICY, fixed when the kernel is built
    now,            \* getTime()
    state,          \* p->state
    cpu,            \* off: on no CPU; on: between the two swtch(); back: p has
                    \* given up the CPU and the scheduler has not yet gone on
    fallback,       \* p was picked by the schedule_rr() inside SJF or STCF
    ctime, etime, rtime, stime, ltime, expected_runtime, time_left,
    priority, queue_level, time_slice, demote,
    time,           \* of another CPU in starvation_clean(); 0: of none
    ran,            \* history: clock units on a CPU, and timer ticks charged
    stopped         \* history: when p last gave up a CPU; 0: it never did

sched == <<ctime, etime, rtime, stime, ltime, expected_runtime, time_left,
           priority, queue_level, time_slice, demote>>
vars == <<policy, now, state, cpu, fallback, sched, time, ran, stopped>>

TypeOK ==
    /\ policy \in Policies
    /\ now \in 1 .. MaxTime
    /\ state \in {"UNUSED", "USED", "SLEEPING", "RUNNABLE", "RUNNING", "ZOMBIE"}
    /\ cpu \in {"off", "on", "back"} /\ fallback \in BOOLEAN
    /\ {ctime, etime, rtime, stime, ltime, expected_runtime, time_left,
        time_slice} \subseteq uint64
    /\ {priority, queue_level} \subseteq 0 .. 2 /\ demote \in 0 .. 1
    /\ time \in 0 .. MaxTime
    /\ ran \in Nat /\ stopped \in 0 .. MaxTime

(* The slot before its first use: static storage. *)
Init ==
    /\ policy \in Policies
    /\ now = 1
    /\ state = "UNUSED" /\ cpu = "off" /\ fallback = FALSE
    /\ ctime = 0 /\ etime = 0 /\ rtime = 0 /\ stime = 0 /\ ltime = 0
    /\ expected_runtime = 0 /\ time_left = 0
    /\ priority = 0 /\ queue_level = 0 /\ time_slice = 0 /\ demote = 0
    /\ time = 0 /\ ran = 0 /\ stopped = 0

-----------------------------------------------------------------------------

(* The clock runs. *)
Tick ==
    /\ now < MaxTime
    /\ now' = now + 1
    /\ ran' = IF cpu = "off" THEN ran ELSE ran + 1
    /\ UNCHANGED <<policy, state, cpu, fallback, sched, time, stopped>>

(* allocproc(), and kfork() of a parent with hint n.  (When memory runs    *)
(* out freeproc() follows at once, and the slot is UNUSED as before.)      *)
Alloc(n) ==
    /\ state = "UNUSED"
    /\ state' = "USED"
    /\ ctime' = now
    /\ etime' = 0 /\ rtime' = 0 /\ stime' = 0 /\ ltime' = 0
    /\ expected_runtime' = n
    /\ time_left' = 0
    /\ priority' = 0 /\ queue_level' = 0 /\ time_slice' = quantum(0) /\ demote' = 0
    /\ UNCHANGED <<policy, now, cpu, fallback, time, ran, stopped>>

(* The end of kfork(), or of userinit(). *)
MakeRunnable ==
    /\ state = "USED"
    /\ state' = "RUNNABLE"
    /\ UNCHANGED <<policy, now, cpu, fallback, sched, time, ran, stopped>>

(* Mutation: ltime is set with stime only. *)
DispatchKeepsLtime(rr) ==
    /\ state = "RUNNABLE" /\ cpu = "off"
    /\ rr => policy \in {"SJF", "STCF"}
    /\ state' = "RUNNING" /\ cpu' = "on"
    /\ fallback' = rr
    /\ LET first == IF policy = "MLFQ" THEN stime = 0 ELSE rtime = 0 IN
       /\ ltime' = IF first THEN now ELSE ltime
       /\ stime' = IF first THEN now ELSE stime
    /\ UNCHANGED <<policy, now, ctime, etime, rtime, expected_runtime, time_left,
                   priority, queue_level, time_slice, demote, time, ran, stopped>>

(* A policy switches to p.  rr: it is schedule_rr() called by SJF or STCF. *)
Dispatch(rr) ==
    /\ state = "RUNNABLE" /\ cpu = "off"
    /\ rr => policy \in {"SJF", "STCF"}
    /\ state' = "RUNNING" /\ cpu' = "on"
    /\ fallback' = rr
    /\ ltime' = now
    /\ stime' = IF (IF policy = "MLFQ" THEN stime = 0 ELSE rtime = 0)
                THEN now ELSE stime
    /\ UNCHANGED <<policy, now, ctime, etime, rtime, expected_runtime, time_left,
                   priority, queue_level, time_slice, demote, time, ran, stopped>>

(* usertrap() on a timer interrupt charges a tick; yield() follows.  The   *)
(* interrupts are more than one unit of the clock apart, so at most now of *)
(* them have been charged.                                                 *)
TimerYield ==
    /\ cpu = "on"
    /\ ran < 2 * now
    /\ rtime' = (rtime + 1) % 2^W
    /\ ran' = ran + 1
    /\ state' = "RUNNABLE" /\ cpu' = "back" /\ stopped' = now
    /\ UNCHANGED <<policy, now, fallback, ctime, etime, stime, ltime, expected_runtime,
                   time_left, priority, queue_level, time_slice, demote, time>>

(* yield() from sys_yield() or kerneltrap(), and sleep(). *)
GiveUp(st) ==
    /\ cpu = "on"
    /\ state' = st /\ cpu' = "back" /\ stopped' = now
    /\ UNCHANGED <<policy, now, fallback, sched, time, ran>>

(* The elapsed time of a run, taken off the time slice. *)
Charge(elapsed) ==
    IF elapsed < time_slice
    THEN time_slice' = time_slice - elapsed /\ UNCHANGED demote
    ELSE time_slice' = 0 /\ demote' = 1

(* Mutation: etime is not set. *)
ExitKeepsEtime ==
    LET elapsed == Minus(now, ltime) IN
    /\ cpu = "on"
    /\ Charge(elapsed)
    /\ rtime' = (rtime + elapsed) % 2^W
    /\ time_left' = IF time_left > 0 THEN Minus(time_left, elapsed) ELSE time_left
    /\ state' = "ZOMBIE" /\ cpu' = "back" /\ stopped' = now
    /\ UNCHANGED <<policy, now, fallback, ctime, etime, stime, ltime, expected_runtime,
                   priority, queue_level, time, ran>>

(* kexit(), p->lock held. *)
Exit ==
    LET elapsed == Minus(now, ltime) IN
    /\ cpu = "on"
    /\ Charge(elapsed)
    /\ rtime' = (rtime + elapsed) % 2^W
    /\ time_left' = IF time_left > 0 THEN Minus(time_left, elapsed) ELSE time_left
    /\ etime' = now
    /\ state' = "ZOMBIE" /\ cpu' = "back" /\ stopped' = now
    /\ UNCHANGED <<policy, now, fallback, ctime, stime, ltime, expected_runtime,
                   priority, queue_level, time, ran>>

(* wakeup() *)
Wakeup ==
    /\ state = "SLEEPING" /\ cpu = "off"
    /\ state' = "RUNNABLE"
    /\ UNCHANGED <<policy, now, cpu, fallback, sched, time, ran, stopped>>

(* setexpected(n) *)
SetExpected(n) ==
    /\ cpu = "on"
    /\ expected_runtime' = n
    /\ UNCHANGED <<policy, now, state, cpu, fallback, ctime, etime, rtime, stime, ltime,
                   time_left, priority, queue_level, time_slice, demote, time,
                   ran, stopped>>

(* setstcfvals(n) *)
SetStcfVals(n) ==
    /\ cpu = "on"
    /\ expected_runtime' = n
    /\ time_left' = n + 1
    /\ UNCHANGED <<policy, now, state, cpu, fallback, ctime, etime, rtime, stime, ltime,
                   priority, queue_level, time_slice, demote, time, ran, stopped>>

(* schedule_rr(), schedule_fifo(), schedule_sjf() and schedule_stcf() are  *)
(* back from swtch().  The clamp at 0 of schedule_stcf() compares a uint64 *)
(* with 0 and does nothing.                                                *)
Back ==
    LET elapsed == Minus(now, ltime) IN
    /\ cpu = "back" /\ policy # "MLFQ"
    /\ cpu' = "off" /\ fallback' = FALSE
    /\ rtime' = (rtime + elapsed) % 2^W
    /\ time_left' = IF policy = "STCF" /\ ~fallback /\ time_left > 0
                    THEN Minus(time_left, elapsed) ELSE time_left
    /\ UNCHANGED <<policy, now, state, ctime, etime, stime, ltime, expected_runtime,
                   priority, queue_level, time_slice, demote, time, ran, stopped>>

(* schedule_mlfq() is back from swtch(): the slice is charged, and a       *)
(* process that has used it up goes one level down.                        *)
BackMlfq ==
    LET elapsed == Minus(now, ltime)
        down == elapsed >= time_slice /\ queue_level < 2 IN
    /\ cpu = "back" /\ policy = "MLFQ"
    /\ cpu' = "off"
    /\ rtime' = (rtime + 2 * elapsed) % 2^W
    /\ etime' = now
    /\ priority' = IF down /\ priority < 2 THEN priority + 1 ELSE priority
    /\ queue_level' = IF down THEN queue_level + 1 ELSE queue_level
    /\ IF down THEN time_slice' = quantum(priority') /\ demote' = 0
               ELSE Charge(elapsed)
    /\ UNCHANGED <<policy, now, state, fallback, ctime, stime, ltime, expected_runtime,
                   time_left, time, ran, stopped>>

(* kwait(): freeproc().  time_left is left as it is. *)
Free ==
    /\ state = "ZOMBIE" /\ cpu = "off"
    /\ state' = "UNUSED"
    /\ ctime' = 0 /\ etime' = 0 /\ rtime' = 0 /\ stime' = 0 /\ ltime' = 0
    /\ expected_runtime' = 0
    /\ priority' = 0 /\ queue_level' = 0 /\ time_slice' = 0 /\ demote' = 0
    /\ ran' = 0 /\ stopped' = 0
    /\ UNCHANGED <<policy, now, cpu, fallback, time_left, time>>

(* starvation_clean() on another CPU: it reads the clock, and comes to p   *)
(* some time later.                                                        *)
CleanStart ==
    /\ policy = "MLFQ"
    /\ time' = now
    /\ UNCHANGED <<policy, now, state, cpu, fallback, sched, ran, stopped>>

(* Mutation: the slice is not refilled.  *)
CleanKeepsSlice ==
    LET boost == /\ state = "RUNNABLE"
                 /\ Minus(time, etime) > starv_cut
                 /\ queue_level > 0 IN
    /\ time # 0 /\ cpu # "back"
    /\ time' = 0
    /\ queue_level' = IF boost THEN queue_level - 1 ELSE queue_level
    /\ UNCHANGED <<policy, now, state, cpu, fallback, ctime, etime, rtime, stime, ltime,
                   expected_runtime, time_left, priority, time_slice, demote, ran, stopped>>

(* Mutation: from when the process was created, not from when it stopped. *)
CleanFromCtime ==
    LET boost == /\ state = "RUNNABLE"
                 /\ Minus(time, ctime) > starv_cut
                 /\ queue_level > 0 IN
    /\ time # 0 /\ cpu # "back"
    /\ time' = 0
    /\ queue_level' = IF boost THEN queue_level - 1 ELSE queue_level
    /\ time_slice' = IF boost THEN quantum(queue_level - 1) ELSE time_slice
    /\ UNCHANGED <<policy, now, state, cpu, fallback, ctime, etime, rtime, stime,
                   ltime, expected_runtime, time_left, priority, demote, ran,
                   stopped>>

Clean ==
    LET boost == /\ state = "RUNNABLE"
                 /\ Minus(time, etime) > starv_cut
                 /\ queue_level > 0 IN
    /\ time # 0 /\ cpu # "back"
    /\ time' = 0
    /\ queue_level' = IF boost THEN queue_level - 1 ELSE queue_level
    /\ time_slice' = IF boost THEN quantum(queue_level - 1) ELSE time_slice
    /\ UNCHANGED <<policy, now, state, cpu, fallback, ctime, etime, rtime, stime, ltime,
                   expected_runtime, time_left, priority, demote, ran, stopped>>

Next ==
    \/ Tick
    \/ \E n \in Hints : Alloc(n) \/ SetExpected(n) \/ SetStcfVals(n)
    \/ MakeRunnable
    \/ \E rr \in BOOLEAN : Dispatch(rr)
    \/ TimerYield
    \/ \E st \in {"RUNNABLE", "SLEEPING"} : GiveUp(st)
    \/ Exit \/ Wakeup \/ Back \/ BackMlfq \/ Free
    \/ CleanStart \/ Clean

Spec == Init /\ [][Next]_vars
-----------------------------------------------------------------------------
(* Properties *)

Live == state \in {"SLEEPING", "RUNNABLE", "RUNNING"}

(* rtime is the "total CPU time (time this process has run)" (proc.h) of a *)
(* live process but for the time since ltime, under every policy but MLFQ, *)
(* whose scheduler adds a run twice.  (After the exit the last run is in   *)
(* rtime twice under all of them: kexit() and the policy both add it.)     *)
RtimeExact ==
    Live /\ policy # "MLFQ" => ran = rtime + IF cpu = "off" THEN 0 ELSE now - ltime

(* The times a program computes from getprocinfo() (user/schedeval.c) do   *)
(* not wrap once the process has exited: it was created before it was      *)
(* first scheduled, and that was before it was last scheduled and exited.  *)
(* Under MLFQ, etime is also "the most recent time that the process        *)
(* finishes running" (proc.h), which starvation_clean() counts from.       *)
TimesOrdered ==
    /\ state = "ZOMBIE" =>
          ctime <= stime /\ stime <= ltime /\ ltime <= etime /\ etime <= now
    /\ policy = "MLFQ" /\ Live /\ cpu = "off" /\ stopped # 0 => etime >= stopped

(* A process that has used up its slice is demoted, down to the last       *)
(* level, where it stays; kexit() and starvation_clean() do not upset it.  *)
SliceUsedUp ==
    /\ TypeOK
    /\ queue_level <= priority
    /\ Live /\ cpu = "off" /\ time_slice = 0 => queue_level = 2

(* Only a process that has waited is moved up: for longer than starv_cut,  *)
(* or it came off its CPU after another CPU had read the clock for         *)
(* starvation_clean(), so that the difference wrapped.  And running makes  *)
(* time_left, "Remaining time" (proc.h), grow only when the run was longer *)
(* than what was left: the difference wraps, and the clamp at 0 after it   *)
(* does nothing.                                                           *)
ChangesEarned ==
    [][/\ queue_level' < queue_level /\ Live => now - stopped > starv_cut \/ time < etime
       /\ cpu = "back" /\ cpu' = "off" =>
             time_left' <= time_left \/ time_left < now - ltime]_vars
=============================================================================
