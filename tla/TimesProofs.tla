----------------------------- MODULE TimesProofs -----------------------------
(***************************************************************************)
(* The times the kernel keeps of a process are what proc.h says they are,  *)
(* under every policy, for any clock, any quanta and any width of uint64   *)
(* in which the clock does not wrap.                                       *)
(***************************************************************************)
EXTENDS Times, TLAPS

(* Nothing is later than now; a process runs no faster than the clock.     *)
Past ==
    /\ ctime <= now /\ stime <= now /\ ltime <= now /\ etime <= now
    /\ time <= now /\ stopped <= now
    /\ ran <= 2 * now
    /\ time # 0 => policy = "MLFQ"

(* The course of a life: created, first scheduled, last scheduled, exited. *)
(* A process on a CPU, or charged for time, was scheduled before.          *)
Course ==
    /\ cpu = "on" <=> state = "RUNNING"
    /\ state \in {"UNUSED", "USED"} =>
          /\ cpu = "off" /\ ran = 0 /\ rtime = 0 /\ stopped = 0
    /\ state = "USED" => time_slice # 0
    /\ cpu # "off" \/ rtime # 0 \/ state = "ZOMBIE" => stime # 0
    /\ stime # 0 => ctime <= stime /\ stime <= ltime
    /\ state = "ZOMBIE" => ltime <= etime

(* etime is kept up to date under MLFQ. *)
Stopped == policy = "MLFQ" /\ cpu = "off" => stopped <= etime

(* SliceUsedUp, also while the process is on a CPU. *)
Slice ==
    /\ queue_level <= priority
    /\ Live /\ time_slice = 0 => queue_level = 2

TimesInv == TypeOK /\ Past /\ Course /\ Stopped /\ RtimeExact /\ Slice
-----------------------------------------------------------------------------
(* Arithmetic *)

LEMMA Width ==
    /\ 2^W \in Nat \ {0} /\ MaxTime \in Nat \ {0} /\ 2 * MaxTime < 2^W
    /\ 0 \in uint64
    /\ \A k \in 0 .. 2 * MaxTime : k \in uint64
    /\ quantum0 \in uint64 \ {0} /\ quantum1 \in uint64 \ {0}
    /\ quantum2 \in uint64 \ {0}
  BY TimesAssumption DEF uint64

LEMMA Zero == 0 \in uint64 /\ 0 \in 0 .. MaxTime /\ 1 \in 1 .. MaxTime
  <1>1. MaxTime \in Nat \ {0}
    BY TimesAssumption
  <1> QED
    BY <1>1, Width

LEMMA Quantum == ASSUME NEW l PROVE quantum(l) \in uint64 /\ quantum(l) # 0
  BY Width DEF quantum

LEMMA Mod ==
    ASSUME NEW x \in Nat
    PROVE  x % 2^W \in uint64 /\ (x < 2^W => x % 2^W = x)
  <1>1. ASSUME NEW m \in Nat \ {0}
        PROVE  x % m \in 0 .. m - 1 /\ (x < m => x % m = x)
    OBVIOUS
  <1> QED
    BY <1>1, Width DEF uint64

(* Unsigned subtraction wraps only below zero. *)
LEMMA MinusFacts ==
    ASSUME NEW a \in uint64, NEW b \in uint64
    PROVE  Minus(a, b) \in uint64 /\ (b <= a => Minus(a, b) = a - b)
  <1>1. ASSUME NEW m \in Nat \ {0}, NEW x \in 0 .. m - 1, NEW y \in 0 .. m - 1
        PROVE  /\ (x + m - y) % m \in 0 .. m - 1
               /\ y <= x => (x + m - y) % m = x - y
    <2>1. x + m - y \in Nat
      OBVIOUS
    <2>2. ASSUME NEW z \in Nat PROVE z % m \in 0 .. m - 1
      OBVIOUS
    <2>3. ASSUME NEW z \in 0 .. m - 1 PROVE (z + m) % m = z
      OBVIOUS
    <2>4. y <= x => x - y \in 0 .. m - 1 /\ x + m - y = (x - y) + m
      OBVIOUS
    <2> QED
      BY <2>1, <2>2, <2>3, <2>4, Zenon
  <1> QED
    BY <1>1, Width DEF Minus, uint64

(* The type invariant, variable by variable. *)
LEMMA Types ==
    ASSUME TypeOK
    PROVE  /\ now \in Nat /\ now >= 1 /\ now <= MaxTime /\ now \in uint64
           /\ ctime \in uint64 /\ etime \in uint64 /\ rtime \in uint64
           /\ stime \in uint64 /\ ltime \in uint64 /\ time_left \in uint64
           /\ expected_runtime \in uint64 /\ time_slice \in uint64
           /\ priority \in 0 .. 2 /\ queue_level \in 0 .. 2 /\ demote \in 0 .. 1
           /\ time \in Nat /\ stopped \in Nat /\ ran \in Nat
           /\ uint64 \subseteq Nat
  BY Width DEF TypeOK, uint64

(* The time since p was scheduled, in uint64. *)
LEMMA Elapsed ==
    ASSUME TypeOK, Past
    PROVE  /\ Minus(now, ltime) = now - ltime /\ now - ltime \in Nat
           /\ now - ltime <= now
  BY Types, MinusFacts DEF Past

LEMMA ChargeTypes ==
    ASSUME TypeOK, NEW e \in uint64, Charge(e)
    PROVE  /\ time_slice' \in uint64 /\ demote' \in 0 .. 1
           /\ time_slice' = 0 <=> e >= time_slice
  BY Types, Width DEF Charge, uint64
-----------------------------------------------------------------------------
(* The invariant holds initially. *)
LEMMA InitInv == Init => TimesInv
  <1> SUFFICES ASSUME Init PROVE TimesInv
    OBVIOUS
  <1>1. TypeOK
    <2>1. 0 \in 0 .. 2 /\ 0 \in 0 .. 1 /\ 0 \in Nat
      OBVIOUS
    <2> QED
      BY <2>1, Zero, Zenon DEF Init, TypeOK
  <1>2. Past /\ Course /\ Stopped /\ RtimeExact /\ Slice
    BY DEF Init, Past, Course, Stopped, RtimeExact, Slice, Live
  <1> QED
    BY <1>1, <1>2 DEF TimesInv
-----------------------------------------------------------------------------
(* Types *)

LEMMA TypesNext == TypeOK /\ Past /\ [Next]_vars => TypeOK'
  <1> SUFFICES ASSUME TypeOK, Past, [Next]_vars PROVE TypeOK'
    OBVIOUS
  <1>1. CASE UNCHANGED vars
    BY <1>1 DEF vars, sched, TypeOK
  <1>2. CASE Tick
    <2>1. now' \in 1 .. MaxTime /\ ran' \in Nat
      BY <1>2, Types, Width DEF Tick
    <2> QED
      BY <1>2, <2>1 DEF Tick, sched, TypeOK
  <1>3. ASSUME NEW n \in Hints, Alloc(n) PROVE TypeOK'
    <2>1. n \in uint64 /\ 0 \in uint64
      BY TimesAssumption DEF uint64
    <2> QED
      BY <1>3, <2>1, Types, Quantum DEF Alloc, TypeOK
  <1>4. ASSUME NEW n \in Hints, SetExpected(n) \/ SetStcfVals(n) PROVE TypeOK'
    <2>1. n \in uint64 /\ n + 1 \in uint64
      BY TimesAssumption DEF uint64
    <2> QED
      BY <1>4, <2>1 DEF SetExpected, SetStcfVals, TypeOK
  <1>5. CASE MakeRunnable \/ Wakeup
    BY <1>5 DEF MakeRunnable, Wakeup, sched, TypeOK
  <1>6. ASSUME NEW rr \in BOOLEAN, Dispatch(rr) PROVE TypeOK'
    BY <1>6, Types DEF Dispatch, TypeOK
  <1>7. CASE TimerYield
    <2>1. (rtime + 1) % 2^W \in uint64
      BY Types, Mod
    <2>2. ran + 1 \in Nat /\ now \in 0 .. MaxTime
      BY Types
    <2> QED
      BY <1>7, <2>1, <2>2 DEF TimerYield, TypeOK
  <1>8. ASSUME NEW st \in {"RUNNABLE", "SLEEPING"}, GiveUp(st) PROVE TypeOK'
    <2>1. now \in 0 .. MaxTime
      BY Types
    <2> QED
      BY <1>8, <2>1 DEF GiveUp, sched, TypeOK
  <1>9. CASE Exit
    <2>1. (rtime + Minus(now, ltime)) % 2^W \in uint64
      BY Types, Elapsed, Mod
    <2>2. Minus(now, ltime) \in uint64 /\ Minus(time_left, Minus(now, ltime)) \in uint64
      BY Types, MinusFacts
    <2>3. time_slice' \in uint64 /\ demote' \in 0 .. 1
      BY <1>9, <2>2, ChargeTypes DEF Exit
    <2>4. now \in 0 .. MaxTime /\ now \in uint64
      BY Types
    <2> QED
      BY <1>9, <2>1, <2>2, <2>3, <2>4 DEF Exit, TypeOK
  <1>10. CASE Back
    <2>1. (rtime + Minus(now, ltime)) % 2^W \in uint64
      BY Types, Elapsed, Mod
    <2>2. Minus(time_left, Minus(now, ltime)) \in uint64
      BY Types, MinusFacts
    <2> QED
      BY <1>10, <2>1, <2>2, Zenon DEF Back, TypeOK
  <1>11. CASE BackMlfq
    <2>1. (rtime + 2 * Minus(now, ltime)) % 2^W \in uint64
      BY Types, Elapsed, Mod
    <2>2. Minus(now, ltime) \in uint64
      BY Types, MinusFacts
    <2>3. time_slice' \in uint64 /\ demote' \in 0 .. 1
      BY <1>11, <2>2, ChargeTypes, Quantum DEF BackMlfq
    <2>4. priority' \in 0 .. 2 /\ queue_level' \in 0 .. 2
      BY <1>11, Types DEF BackMlfq
    <2>5. now \in uint64
      BY Types
    <2> QED
      BY <1>11, <2>1, <2>3, <2>4, <2>5 DEF BackMlfq, TypeOK
  <1>12. CASE Free
    BY <1>12, Zero DEF Free, TypeOK
  <1>13. CASE CleanStart
    BY <1>13, Types DEF CleanStart, sched, TypeOK
  <1>14. CASE Clean
    <2>1. time_slice' \in uint64 /\ queue_level' \in 0 .. 2
      BY <1>14, Types, Quantum DEF Clean
    <2> QED
      BY <1>14, <2>1, Zero DEF Clean, TypeOK
  <1> QED
    BY <1>1, <1>2, <1>3, <1>4, <1>5, <1>6, <1>7, <1>8, <1>9, <1>10, <1>11, <1>12,
       <1>13, <1>14 DEF Next
-----------------------------------------------------------------------------
(* Past *)

LEMMA PastNext == TypeOK /\ Past /\ Course /\ [Next]_vars => Past'
  <1> SUFFICES ASSUME TypeOK, Past, Course, [Next]_vars PROVE Past'
    OBVIOUS
  <1>1. CASE UNCHANGED vars
    BY <1>1 DEF vars, sched, Past
  <1>2. CASE Tick
    BY <1>2, Types DEF Tick, sched, Past, uint64
  <1>3. ASSUME NEW n \in Hints, Alloc(n) PROVE Past'
    BY <1>3, Types DEF Alloc, Past
  <1>4. ASSUME NEW n \in Hints, SetExpected(n) \/ SetStcfVals(n) PROVE Past'
    BY <1>4 DEF SetExpected, SetStcfVals, Past
  <1>5. CASE MakeRunnable \/ Wakeup
    BY <1>5 DEF MakeRunnable, Wakeup, sched, Past
  <1>6. ASSUME NEW rr \in BOOLEAN, Dispatch(rr) PROVE Past'
    BY <1>6, Types DEF Dispatch, Past
  <1>7. CASE TimerYield
    BY <1>7, Types DEF TimerYield, Past
  <1>8. ASSUME NEW st \in {"RUNNABLE", "SLEEPING"}, GiveUp(st) PROVE Past'
    BY <1>8, Types DEF GiveUp, sched, Past
  <1>9. CASE Exit
    BY <1>9, Types DEF Exit, Past
  <1>10. CASE Back
    BY <1>10 DEF Back, Past
  <1>11. CASE BackMlfq
    BY <1>11, Types DEF BackMlfq, Past
  <1>12. CASE Free
    BY <1>12, Types DEF Free, Past
  <1>13. CASE CleanStart
    BY <1>13, Types DEF CleanStart, sched, Past
  <1>14. CASE Clean
    BY <1>14, Types DEF Clean, Past
  <1> QED
    BY <1>1, <1>2, <1>3, <1>4, <1>5, <1>6, <1>7, <1>8, <1>9, <1>10, <1>11, <1>12,
       <1>13, <1>14 DEF Next
-----------------------------------------------------------------------------
(* Course *)

LEMMA CourseNext == TypeOK /\ Past /\ Course /\ [Next]_vars => Course'
  <1> SUFFICES ASSUME TypeOK, Past, Course, [Next]_vars PROVE Course'
    OBVIOUS
  <1>1. CASE UNCHANGED vars
    BY <1>1 DEF vars, sched, Course
  <1>2. CASE Tick
    BY <1>2 DEF Tick, sched, Course
  <1>3. ASSUME NEW n \in Hints, Alloc(n) PROVE Course'
    BY <1>3, Types, Quantum DEF Alloc, Course
  <1>4. ASSUME NEW n \in Hints, SetExpected(n) \/ SetStcfVals(n) PROVE Course'
    BY <1>4 DEF SetExpected, SetStcfVals, Course
  <1>5. CASE MakeRunnable \/ Wakeup
    BY <1>5 DEF MakeRunnable, Wakeup, sched, Course
  <1>6. ASSUME NEW rr \in BOOLEAN, Dispatch(rr) PROVE Course'
    BY <1>6, Types DEF Dispatch, Course, Past, uint64
  <1>7. CASE TimerYield
    BY <1>7 DEF TimerYield, Course
  <1>8. ASSUME NEW st \in {"RUNNABLE", "SLEEPING"}, GiveUp(st) PROVE Course'
    BY <1>8 DEF GiveUp, sched, Course
  <1>9. CASE Exit
    BY <1>9 DEF Exit, Course, Past
  <1>10. CASE Back
    BY <1>10 DEF Back, Course
  <1>11. CASE BackMlfq
    BY <1>11 DEF BackMlfq, Course, Past
  <1>12. CASE Free
    BY <1>12 DEF Free, Course
  <1>13. CASE CleanStart
    BY <1>13 DEF CleanStart, sched, Course
  <1>14. CASE Clean
    BY <1>14 DEF Clean, Course
  <1> QED
    BY <1>1, <1>2, <1>3, <1>4, <1>5, <1>6, <1>7, <1>8, <1>9, <1>10, <1>11, <1>12,
       <1>13, <1>14 DEF Next
-----------------------------------------------------------------------------
(* What the properties say *)

LEMMA StoppedNext == TypeOK /\ Past /\ Course /\ Stopped /\ [Next]_vars => Stopped'
  <1> SUFFICES ASSUME TypeOK, Past, Course, Stopped, [Next]_vars PROVE Stopped'
    OBVIOUS
  <1>1. CASE UNCHANGED vars \/ Tick \/ MakeRunnable \/ Wakeup \/ CleanStart \/ Clean
    BY <1>1 DEF vars, Tick, MakeRunnable, Wakeup, CleanStart, Clean, sched, Stopped
  <1>2. ASSUME NEW n \in Hints, Alloc(n) \/ SetExpected(n) \/ SetStcfVals(n)
        PROVE  Stopped'
    BY <1>2 DEF Alloc, SetExpected, SetStcfVals, Stopped, Course
  <1>3. ASSUME NEW rr \in BOOLEAN, Dispatch(rr) PROVE Stopped'
    BY <1>3 DEF Dispatch, Stopped
  <1>4. CASE TimerYield \/ Exit
    BY <1>4 DEF TimerYield, Exit, Stopped
  <1>5. ASSUME NEW st \in {"RUNNABLE", "SLEEPING"}, GiveUp(st) PROVE Stopped'
    BY <1>5 DEF GiveUp, Stopped
  <1>6. CASE Back \/ BackMlfq \/ Free
    BY <1>6 DEF Back, BackMlfq, Free, Stopped, Past
  <1> QED
    BY <1>1, <1>2, <1>3, <1>4, <1>5, <1>6 DEF Next

(* rtime: ran is what it was when the process was last off a CPU, with the *)
(* ticks charged since, and the time since ltime.                          *)
LEMMA RtimeNext ==
    TypeOK /\ Past /\ Course /\ RtimeExact /\ [Next]_vars => RtimeExact'
  <1> SUFFICES ASSUME TypeOK, Past, Course, RtimeExact, [Next]_vars PROVE RtimeExact'
    OBVIOUS
  <1>1. CASE UNCHANGED vars
    BY <1>1 DEF vars, sched, RtimeExact, Live
  <1>2. CASE Tick
    BY <1>2, Types DEF Tick, sched, RtimeExact, Live, uint64
  <1>3. ASSUME NEW n \in Hints, Alloc(n) \/ SetExpected(n) \/ SetStcfVals(n)
        PROVE  RtimeExact'
    BY <1>3 DEF Alloc, SetExpected, SetStcfVals, RtimeExact, Live
  <1>4. CASE MakeRunnable
    BY <1>4 DEF MakeRunnable, sched, RtimeExact, Live, Course
  <1>5. ASSUME NEW rr \in BOOLEAN, Dispatch(rr) PROVE RtimeExact'
    BY <1>5, Types DEF Dispatch, RtimeExact, Live, uint64
  <1>6. CASE TimerYield
    <2> SUFFICES ASSUME policy # "MLFQ" PROVE ran' = rtime' + (now - ltime)
      BY <1>6 DEF TimerYield, RtimeExact
    <2>1. ran = rtime + (now - ltime)
      BY <1>6 DEF TimerYield, RtimeExact, Live, Course
    <2>2. rtime + 1 <= ran + 1 /\ ran + 1 <= 2 * now /\ rtime \in Nat
      BY <1>6, <2>1, Types, Elapsed DEF TimerYield
    <2>3. (rtime + 1) % 2^W = rtime + 1
      BY <2>2, Types, Width, Mod
    <2> QED
      BY <1>6, <2>1, <2>2, <2>3, Types, Elapsed DEF TimerYield
  <1>7. ASSUME NEW st \in {"RUNNABLE", "SLEEPING"}, GiveUp(st) PROVE RtimeExact'
    BY <1>7 DEF GiveUp, sched, RtimeExact, Live, Course
  <1>8. CASE Exit \/ Free
    BY <1>8 DEF Exit, Free, RtimeExact, Live
  <1>9. CASE Wakeup
    BY <1>9 DEF Wakeup, sched, RtimeExact, Live
  <1>10. CASE Back
    <2> SUFFICES ASSUME Live PROVE ran' = rtime'
      BY <1>10, Types, TypesNext DEF Back, RtimeExact, Live, uint64
    <2>1. ran = rtime + (now - ltime)
      BY <1>10 DEF Back, RtimeExact
    <2>2. ran \in Nat /\ ran < 2^W
      BY Types, Width DEF Past
    <2>3. ran % 2^W = ran
      BY <2>2, Mod
    <2> QED
      BY <1>10, <2>1, <2>3, Elapsed DEF Back
  <1>11. CASE BackMlfq \/ CleanStart \/ Clean
    BY <1>11 DEF BackMlfq, CleanStart, Clean, sched, RtimeExact, Live, Past
  <1> QED
    BY <1>1, <1>2, <1>3, <1>4, <1>5, <1>6, <1>7, <1>8, <1>9, <1>10, <1>11 DEF Next

LEMMA SliceNext == TypeOK /\ Past /\ Course /\ Slice /\ [Next]_vars => Slice'
  <1> SUFFICES ASSUME TypeOK, Past, Course, Slice, [Next]_vars PROVE Slice'
    OBVIOUS
  <1>1. CASE UNCHANGED vars \/ Tick \/ Wakeup \/ CleanStart
    BY <1>1 DEF vars, Tick, Wakeup, CleanStart, sched, Slice, Live
  <1>2. ASSUME NEW n \in Hints, Alloc(n) \/ SetExpected(n) \/ SetStcfVals(n)
        PROVE  Slice'
    BY <1>2 DEF Alloc, SetExpected, SetStcfVals, Slice, Live
  <1>3. CASE MakeRunnable
    BY <1>3 DEF MakeRunnable, sched, Slice, Live, Course
  <1>4. ASSUME NEW rr \in BOOLEAN, Dispatch(rr) PROVE Slice'
    BY <1>4 DEF Dispatch, Slice, Live
  <1>5. CASE TimerYield \/ Back
    BY <1>5 DEF TimerYield, Back, Slice, Live, Course
  <1>6. ASSUME NEW st \in {"RUNNABLE", "SLEEPING"}, GiveUp(st) PROVE Slice'
    BY <1>6 DEF GiveUp, sched, Slice, Live, Course
  <1>7. CASE Exit \/ Free
    BY <1>7 DEF Exit, Free, Slice, Live
  <1>8. CASE BackMlfq
    <2> DEFINE down == Minus(now, ltime) >= time_slice /\ queue_level < 2
    <2>1. CASE down
      BY <1>8, <2>1, Types, Quantum DEF BackMlfq, Slice
    <2>2. CASE ~down
      <3>1. Charge(Minus(now, ltime)) /\ Minus(now, ltime) \in uint64
        BY <1>8, <2>2, Types, MinusFacts DEF BackMlfq
      <3>2. time_slice' = 0 <=> Minus(now, ltime) >= time_slice
        BY <3>1, ChargeTypes
      <3>3. queue_level' = queue_level /\ priority' = priority
        BY <1>8, <2>2 DEF BackMlfq
      <3> QED
        BY <2>2, <3>2, <3>3, Types DEF Slice
    <2> QED
      BY <2>1, <2>2
  <1>9. CASE Clean
    BY <1>9, Types, Quantum DEF Clean, Slice, Live
  <1> QED
    BY <1>1, <1>2, <1>3, <1>4, <1>5, <1>6, <1>7, <1>8, <1>9 DEF Next
-----------------------------------------------------------------------------
(* The theorems *)

LEMMA NextInv == TimesInv /\ [Next]_vars => TimesInv'
  BY TypesNext, PastNext, CourseNext, StoppedNext, RtimeNext, SliceNext DEF TimesInv

LEMMA InvHolds == Spec => []TimesInv
  BY InitInv, NextInv, PTL DEF Spec

(* p->rtime is the "total CPU time" of a live process, in clock units and  *)
(* timer ticks, up to the last time it was scheduled: every policy but     *)
(* MLFQ adds each run once, and the sum does not wrap.                     *)
THEOREM RtimeIsExact == Spec => []RtimeExact
  <1>1. TimesInv => RtimeExact
    BY DEF TimesInv
  <1> QED
    BY <1>1, InvHolds, PTL

(* The differences of times that user/schedeval.c computes after the exit  *)
(* of a process do not wrap, and starvation_clean() counts from no earlier *)
(* than the moment the process last gave up its CPU.                       *)
THEOREM TimesAreOrdered == Spec => []TimesOrdered
  <1>1. TimesInv => TimesOrdered
    BY DEF TimesInv, TimesOrdered, Past, Course, Stopped
  <1> QED
    BY <1>1, InvHolds, PTL

(* schedule_mlfq(), kexit() and starvation_clean() leave no live process   *)
(* off its CPU with an empty slice above the last level, and none on a     *)
(* level below its priority.                                               *)
THEOREM SlicesAreUsedUp == Spec => []SliceUsedUp
  <1>1. TimesInv => SliceUsedUp
    BY DEF TimesInv, SliceUsedUp, Slice
  <1> QED
    BY <1>1, InvHolds, PTL

LEMMA StepsEarned ==
    ASSUME TimesInv, Next
    PROVE  /\ queue_level' < queue_level /\ Live
                 => now - stopped > starv_cut \/ time < etime
           /\ cpu = "back" /\ cpu' = "off"
                 => time_left' <= time_left \/ time_left < now - ltime
  <1> USE DEF TimesInv
  <1>1. ASSUME queue_level' < queue_level, Live
        PROVE  now - stopped > starv_cut \/ time < etime
    <2>1. CASE Clean
      <3> SUFFICES ASSUME time >= etime PROVE now - stopped > starv_cut
        BY Types DEF uint64
      <3>1. /\ state = "RUNNABLE" /\ cpu = "off" /\ policy = "MLFQ"
            /\ Minus(time, etime) > starv_cut
        BY <1>1, <2>1, Types DEF Clean, Past, Course, TypeOK
      <3>2. time \in uint64
        BY Types, Width DEF TypeOK
      <3>3. time - etime > starv_cut
        BY <3>1, <3>2, Types, MinusFacts
      <3>4. stopped <= etime /\ time <= now /\ etime \in Nat
        BY <3>1, Types DEF Stopped, Past
      <3>5. starv_cut \in Nat
        BY TimesAssumption
      <3> QED
        BY <3>3, <3>4, <3>5, Types
    <2>2. CASE BackMlfq
      BY <1>1, <2>2, Types DEF BackMlfq
    <2>3. CASE Free \/ \E n \in Hints : Alloc(n)
      BY <1>1, <2>3 DEF Free, Alloc, Live
    <2>4. CASE ~(Clean \/ BackMlfq \/ Free \/ \E n \in Hints : Alloc(n))
      <3>1. queue_level' = queue_level
        BY <2>4 DEF Next, Tick, SetExpected, SetStcfVals, MakeRunnable, Dispatch,
           TimerYield, GiveUp, Exit, Wakeup, Back, CleanStart, sched
      <3> QED
        BY <1>1, <3>1, Types
    <2> QED
      BY <2>1, <2>2, <2>3, <2>4
  <1>2. ASSUME cpu = "back", cpu' = "off"
        PROVE  time_left' <= time_left \/ time_left < now - ltime
    <2>1. CASE Back
      <3>1. CASE time_left' = time_left
        BY <3>1, Types DEF uint64
      <3>2. CASE time_left' = Minus(time_left, now - ltime)
        <4>1. now - ltime \in uint64 /\ time_left \in Nat /\ now - ltime \in Nat
          BY Elapsed, Types, MinusFacts
        <4> QED
          BY <3>2, <4>1, Types, MinusFacts
      <3> QED
        BY <2>1, <3>1, <3>2, Elapsed DEF Back
    <2>2. CASE ~Back
      <3>1. time_left' = time_left
        BY <1>2, <2>2 DEF Next, Tick, Alloc, SetExpected, SetStcfVals, MakeRunnable,
           Dispatch, TimerYield, GiveUp, Exit, Wakeup, BackMlfq, Free, CleanStart,
           Clean, sched
      <3> QED
        BY <3>1, Types DEF uint64
    <2> QED
      BY <2>1, <2>2
  <1> QED
    BY <1>1, <1>2

(* starvation_clean() moves up only a process that has waited for longer   *)
(* than starv_cut, or one that stopped after the clock was read; and       *)
(* running makes time_left grow only by wrapping below zero.               *)
THEOREM ChangesAreEarned == Spec => ChangesEarned
  <1>1. TimesInv /\ [Next]_vars =>
          [/\ queue_level' < queue_level /\ Live
                 => now - stopped > starv_cut \/ time < etime
           /\ cpu = "back" /\ cpu' = "off"
                 => time_left' <= time_left \/ time_left < now - ltime]_vars
    BY StepsEarned
  <1> QED
    BY <1>1, InvHolds, PTL DEF Spec, ChangesEarned
=============================================================================
