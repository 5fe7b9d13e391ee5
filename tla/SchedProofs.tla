----------------------------- MODULE SchedProofs -----------------------------
(***************************************************************************)
(* The scans of schedule_fifo(), schedule_sjf() and schedule_stcf() choose *)
(* the right process whatever the other CPUs do meanwhile, and a core      *)
(* stops only with nothing to run, for any number of CPUs and slots, any   *)
(* hints and any width of uint64.                                          *)
(***************************************************************************)
EXTENDS Sched, TLAPS

(* Pids and creation times are handed out together. *)
Clock ==
    /\ clock + 2 <= nextpid
    /\ nextpid = 2 \/ nextpid <= MaxPid + 1

(* A process on a CPU is RUNNING until it gives it up, and on no other. *)
Taken ==
    /\ \A c \in CPU : pc[c] \in {"run", "back"} => proc[c] # Null
    /\ \A c \in CPU : pc[c] = "run" => state[proc[c]] = "RUNNING"
    /\ \A c, d \in CPU : pc[c] = "run" /\ pc[d] = "run" /\ proc[c] = proc[d] => c = d

(* q, which has been looked at, is no better than what c found. *)
Beaten(c, q) ==
    /\ best[c] # Null
    /\ policy = "FIFO" => reused[c] \/ ctime[best[c]] <= ctime[q]
    /\ policy # "FIFO" =>
          /\ ~Locked(q)
          /\ ~Less(Key(q), ctime[q], pid[q], best_key[c], best_ctime[c], best_pid[c])

(* What c remembers of best is true as long as best has not been run. *)
Remembered(c) ==
    /\ best[c] < i[c] /\ best_key[c] = Key(best[c])
    /\ best_ctime[c] = ctime[best[c]] /\ best_pid[c] = pid[best[c]]

(* How far the scan of c has come *)
Scanned(c) ==
    pc[c] = "scan" =>
        /\ policy # "RR"
        /\ \A q \in cand[c] : q < i[c] => Beaten(c, q)
        /\ policy # "FIFO" /\ best[c] \in cand[c] => Remembered(c)

(* How far the round of schedule_rr() has come: the slots before i[c], and *)
(* the one that it runs, are no candidates any more.                       *)
Rounds(c) ==
    /\ pc[c] = "rr" => best[c] = Null /\ \A q \in cand[c] : ~(q < i[c])
    /\ pc[c] \in {"run", "back"} /\ best[c] = Null =>
          i[c] <= NPROC /\ \A q \in cand[c] : ~(q < i[c] + 1)

Search(c) ==
    /\ \A q \in cand[c] : state[q] = "RUNNABLE"
    /\ Scanned(c) /\ Rounds(c)

SchedInv == TypeOK /\ Clock /\ Taken /\ \A c \in CPU : Search(c)
-----------------------------------------------------------------------------
(* Constants and types *)

LEMMA Table ==
    /\ NPROC \in Nat \ {0}
    /\ Slot \subseteq Nat /\ 0 \notin Slot /\ initproc \in Slot
    /\ \A p \in Slot : p <= NPROC /\ p + 1 \in 1 .. NPROC + 1
    /\ \A k \in 1 .. NPROC + 1 : ~(k > NPROC) => k \in Slot
    /\ 1 \in 1 .. NPROC + 1
    /\ Null = 0 /\ Null \notin Slot
  BY SchedAssumption DEF Slot, initproc, Null

(* No slot of the table is left beyond its end. *)
LEMMA PastTheEnd ==
    \A k, n, q \in Nat : k > n /\ q <= n => q < k
  OBVIOUS

LEMMA Upto == \A a, b \in Nat : (a < b + 1 <=> a < b \/ a = b)
  OBVIOUS

LEMMA Earlier ==
    \A a, b, k \in Nat :
        /\ a <= a
        /\ (~(a < b) => b <= a) /\ (b <= a => ~(a < b))
        /\ (a < b /\ b <= k => a <= k)
  OBVIOUS

LEMMA Words ==
    /\ NoHint \in Nat \ {0} /\ NoHint = 2^W - 1 /\ 2^W \in Nat \ {0, 1}
    /\ 0 \in 0 .. NoHint /\ 0 \in 0 .. NoHint - 1 /\ NoHint \in 0 .. NoHint
    /\ 0 .. NoHint - 1 \subseteq 0 .. NoHint /\ NoHint \notin 0 .. NoHint - 1
    /\ Hints \subseteq 0 .. NoHint - 1
    /\ \A n \in StcfHints : n \in 0 .. NoHint - 1 /\ n + 1 \in 0 .. NoHint
    /\ Bursts \subseteq 0 .. NoHint
    /\ MaxPid \in Nat /\ MaxPid <= NoHint
  BY SchedAssumption DEF NoHint

LEMMA MinusWord ==
    ASSUME NEW a \in 0 .. NoHint, NEW b \in 0 .. NoHint
    PROVE  Minus(a, b) \in 0 .. NoHint
  <1>1. ASSUME NEW m \in Nat \ {0}, NEW x \in 0 .. m - 1, NEW y \in 0 .. m - 1
        PROVE  (x + m - y) % m \in 0 .. m - 1
    <2>1. x + m - y \in Nat
      OBVIOUS
    <2>2. ASSUME NEW z \in Nat PROVE z % m \in 0 .. m - 1
      OBVIOUS
    <2> QED
      BY <2>1, <2>2
  <1>2. 2^W \in Nat \ {0} /\ a \in 0 .. 2^W - 1 /\ b \in 0 .. 2^W - 1
    BY Words
  <1>3. Minus(a, b) \in 0 .. 2^W - 1
    BY <1>1, <1>2 DEF Minus
  <1> QED
    BY <1>3, Words

States == {"UNUSED", "USED", "SLEEPING", "RUNNABLE", "RUNNING", "ZOMBIE"}

LEMMA Types ==
    ASSUME TypeOK
    PROVE  /\ policy \in Policies
           /\ state \in [Slot -> States]
           /\ pid \in [Slot -> Nat] /\ nextpid \in Nat
           /\ ctime \in [Slot -> 0 .. NoHint] /\ clock \in Nat
           /\ expected_runtime \in [Slot -> 0 .. NoHint - 1]
           /\ time_left \in [Slot -> 0 .. NoHint]
           /\ pc \in [CPU -> Labels]
           /\ proc \in [CPU -> Slot \cup {Null}] /\ best \in [CPU -> Slot \cup {Null}]
           /\ i \in [CPU -> 1 .. NPROC + 1] /\ found \in [CPU -> BOOLEAN]
           /\ best_key \in [CPU -> 0 .. NoHint] /\ best_ctime \in [CPU -> 0 .. NoHint]
           /\ best_pid \in [CPU -> Nat]
           /\ cand \in [CPU -> SUBSET Slot] /\ reused \in [CPU -> BOOLEAN]
  BY DEF TypeOK, States

(* The same, slot by slot and CPU by CPU *)
LEMMA SlotTypes ==
    ASSUME TypeOK, NEW q \in Slot
    PROVE  /\ q \in Nat /\ q # 0 /\ q <= NPROC
           /\ ctime[q] \in Nat /\ pid[q] \in Nat /\ ctime[q] \in 0 .. NoHint
           /\ Key(q) \in Nat /\ Key(q) \in 0 .. NoHint
  <1>1. /\ q \in Nat /\ q # 0 /\ q <= NPROC
    BY Table
  <1>2. /\ ctime[q] \in 0 .. NoHint /\ pid[q] \in Nat
        /\ expected_runtime[q] \in 0 .. NoHint - 1 /\ time_left[q] \in 0 .. NoHint
    BY Types
  <1>3. Key(q) \in 0 .. NoHint
    BY <1>2, Words DEF Key
  <1> QED
    BY <1>1, <1>2, <1>3, Words

LEMMA CpuTypes ==
    ASSUME TypeOK, NEW c \in CPU
    PROVE  /\ i[c] \in Nat /\ i[c] \in 1 .. NPROC + 1
           /\ cand[c] \subseteq Slot
           /\ best[c] # Null => best[c] \in Slot
           /\ proc[c] # Null => proc[c] \in Slot
           /\ best_key[c] \in Nat /\ best_ctime[c] \in Nat /\ best_pid[c] \in Nat
           /\ best_key[c] <= NoHint
  <1>1. /\ i[c] \in 1 .. NPROC + 1 /\ best_key[c] \in 0 .. NoHint
        /\ best_ctime[c] \in 0 .. NoHint /\ best_pid[c] \in Nat
        /\ cand[c] \subseteq Slot
        /\ best[c] \in Slot \cup {Null} /\ proc[c] \in Slot \cup {Null}
    BY Types
  <1>2. i[c] \in Nat
    BY <1>1, Table
  <1>3. best_key[c] \in Nat /\ best_ctime[c] \in Nat /\ best_key[c] <= NoHint
    BY <1>1, Words
  <1> QED
    BY <1>1, <1>2, <1>3

(* A scan looks at slots of the table. *)
LEMMA InTable ==
    ASSUME TypeOK, NEW c \in CPU, i[c] <= NPROC
    PROVE  i[c] \in Slot
  <1>1. i[c] \in 1 .. NPROC + 1 /\ i[c] \in Nat /\ NPROC \in Nat
    BY CpuTypes, Table
  <1>2. ~(i[c] > NPROC)
    BY <1>1
  <1> QED
    BY <1>1, <1>2, Table

-----------------------------------------------------------------------------
(* TypeOK and Clock are kept. *)

LEMMA TypesInit == Init => TypeOK /\ Clock
  <1> SUFFICES ASSUME Init PROVE TypeOK /\ Clock
    OBVIOUS
  <1>1. FirstStep \in Labels
    BY DEF FirstStep, Labels
  <1>2. TypeOK
    BY <1>1, Table, Words DEF Init, TypeOK
  <1>3. Clock
    BY DEF Init, Clock
  <1> QED
    BY <1>2, <1>3

(* What programs and interrupts do *)
LEMMA TypesProgram ==
    ASSUME TypeOK, Clock, NEW p \in Slot,
           \/ Wakeup(p) \/ ForkRun(p) \/ Reap(p)
           \/ \E c \in CPU : ProcessStep(c, p)
    PROVE  TypeOK' /\ Clock'
  <1>1. CASE Wakeup(p) \/ ForkRun(p)
    BY <1>1 DEF Wakeup, ForkRun, cpuVars, bestVars, histVars, TypeOK, Clock
  <1>2. CASE Reap(p)
    BY <1>2, Words DEF Reap, cpuVars, bestVars, histVars, TypeOK, Clock
  <1>3. ASSUME NEW c \in CPU, NEW st \in {"RUNNABLE", "SLEEPING"}, GiveUp(c, p, st)
        PROVE  TypeOK' /\ Clock'
    BY <1>3 DEF GiveUp, Labels, bestVars, histVars, TypeOK, Clock
  <1>4. ASSUME NEW c \in CPU, NEW burst \in Bursts, Exit(c, p, burst)
        PROVE  TypeOK' /\ Clock'
    <2>1. time_left[p] \in 0 .. NoHint /\ burst \in 0 .. NoHint
      BY Types, Words
    <2>2. time_left' \in [Slot -> 0 .. NoHint]
      BY <1>4, <2>1, MinusWord, Types DEF Exit
    <2> QED
      BY <1>4, <2>2 DEF Exit, Labels, bestVars, histVars, TypeOK, Clock
  <1>5. ASSUME NEW c \in CPU, NEW n \in Hints, SetExpected(c, p, n)
        PROVE  TypeOK' /\ Clock'
    <2>1. n \in 0 .. NoHint - 1
      BY Words
    <2> QED
      BY <1>5, <2>1 DEF SetExpected, cpuVars, bestVars, histVars, TypeOK, Clock
  <1>6. ASSUME NEW c \in CPU, NEW n \in StcfHints, SetStcfVals(c, p, n)
        PROVE  TypeOK' /\ Clock'
    <2>1. n \in 0 .. NoHint - 1 /\ n + 1 \in 0 .. NoHint
      BY Words
    <2> QED
      BY <1>6, <2>1 DEF SetStcfVals, cpuVars, bestVars, histVars, TypeOK, Clock
  <1>7. ASSUME NEW c \in CPU, NEW q \in Slot, NEW t \in {clock, clock + 1} \ {0},
               Fork(c, p, q, t)
        PROVE  TypeOK' /\ Clock'
    <2>1. t \in 0 .. NoHint /\ t \in Nat /\ Clock'
      <3>1. /\ nextpid \in Nat /\ clock \in Nat /\ MaxPid \in Nat /\ MaxPid <= NoHint
            /\ NoHint \in Nat
        BY Types, Words
      <3> QED
        BY <1>7, <3>1 DEF Fork, Clock
    <2>2. 0 \in 0 .. NoHint /\ expected_runtime[p] \in 0 .. NoHint - 1
      BY Types, Words
    <2>3. reused' \in [CPU -> BOOLEAN]
      BY <1>7, Types DEF Fork
    <2> QED
      BY <1>7, <2>1, <2>2, <2>3 DEF Fork, cpuVars, bestVars, TypeOK
  <1> QED
    BY <1>1, <1>2, <1>3, <1>4, <1>5, <1>6, <1>7, Zenon DEF ProcessStep

LEMMA TypesEndRound ==
    ASSUME TypeOK, Clock, NEW c \in CPU, NEW f \in BOOLEAN, EndRound(c, f),
           <<policy, state, pid, ctime, expected_runtime, nextpid, clock>>'
             = <<policy, state, pid, ctime, expected_runtime, nextpid, clock>>,
           time_left' \in [Slot -> 0 .. NoHint]
    PROVE  TypeOK' /\ Clock'
  <1>1. pc' \in [CPU -> Labels]
    BY Types DEF EndRound, FirstStep, Labels
  <1>2. /\ proc' \in [CPU -> Slot \cup {Null}] /\ best' \in [CPU -> Slot \cup {Null}]
        /\ i' \in [CPU -> 1 .. NPROC + 1]
    BY Types, Table DEF EndRound
  <1>3. /\ best_key' \in [CPU -> 0 .. NoHint] /\ best_ctime' \in [CPU -> 0 .. NoHint]
        /\ best_pid' \in [CPU -> Nat]
    BY Types, Words DEF EndRound
  <1>4. /\ found' \in [CPU -> BOOLEAN] /\ reused' \in [CPU -> BOOLEAN]
        /\ cand' \in [CPU -> SUBSET Slot]
    BY Types DEF EndRound, Runnable
  <1> QED
    BY <1>1, <1>2, <1>3, <1>4 DEF TypeOK, Clock

LEMMA TypesScheduler ==
    ASSUME SchedInv, NEW c \in CPU, SchedulerStep(c)
    PROVE  TypeOK' /\ Clock'
  <1>0. TypeOK /\ Clock /\ Rounds(c)
    BY DEF SchedInv, Search
  <1>1. ASSUME NEW f \in BOOLEAN, EndRound(c, f), UNCHANGED procVars
        PROVE  TypeOK' /\ Clock'
    BY <1>0, <1>1, TypesEndRound, Types DEF procVars
  <1>2. CASE Interrupt(c) \/ ScanEmpty(c) \/ PickLost(c)
    BY <1>1, <1>2, Zenon DEF Interrupt, ScanEmpty, PickLost
  <1>3. CASE RoundRobinEnd(c)
    <2>1. found[c] \in BOOLEAN
      BY <1>0, Types
    <2> QED
      BY <1>1, <1>3, <2>1 DEF RoundRobinEnd
  <1>4. ASSUME NEW p \in Slot, Run(c, p), i' = i, found' \in [CPU -> BOOLEAN]
        PROVE  TypeOK' /\ Clock'
    BY <1>0, <1>4 DEF Run, Labels, bestVars, TypeOK, Clock
  <1>5. CASE RoundRobinRun(c)
    <2>1. i[c] \in Slot
      BY <1>0, <1>5, InTable DEF RoundRobinRun
    <2>2. found' \in [CPU -> BOOLEAN]
      BY <1>0, <1>5, Types DEF RoundRobinRun
    <2> QED
      BY <1>4, <1>5, <2>1, <2>2 DEF RoundRobinRun
  <1>6. CASE Pick(c)
    <2>1. best[c] \in Slot /\ found' \in [CPU -> BOOLEAN]
      BY <1>0, <1>6, CpuTypes, Types DEF Pick, Chosen
    <2> QED
      BY <1>4, <1>6, <2>1 DEF Pick
  <1>7. CASE RoundRobinSkip(c) \/ FifoLook(c) \/ KeyLook(c)
    <2>1. i[c] \in Slot /\ i' = [i EXCEPT ![c] = @ + 1]
      BY <1>0, <1>7, InTable DEF RoundRobinSkip, FifoLook, KeyLook
    <2>2. i' \in [CPU -> 1 .. NPROC + 1]
      BY <1>0, <2>1, Types, Table
    <2>3. /\ Key(i[c]) \in 0 .. NoHint /\ ctime[i[c]] \in 0 .. NoHint
          /\ pid[i[c]] \in Nat
      BY <1>0, <2>1, SlotTypes
    <2>4. /\ best' \in [CPU -> Slot \cup {Null}]
          /\ best_key' \in [CPU -> 0 .. NoHint] /\ best_ctime' \in [CPU -> 0 .. NoHint]
          /\ best_pid' \in [CPU -> Nat]
      BY <1>0, <1>7, <2>1, <2>3, Types DEF RoundRobinSkip, FifoLook, KeyLook, bestVars
    <2>5. UNCHANGED <<procVars, pc, proc, found, cand, reused>>
      BY <1>7 DEF RoundRobinSkip, FifoLook, KeyLook, histVars
    <2> QED
      BY <1>0, <2>2, <2>4, <2>5 DEF procVars, TypeOK, Clock
  <1>8. CASE ScanNoHint(c)
    BY <1>0, <1>8, Table DEF ScanNoHint, Labels, procVars, histVars, TypeOK, Clock
  <1>9. ASSUME NEW burst \in Bursts, Back(c, burst)
        PROVE  TypeOK' /\ Clock'
    <2>1. time_left' \in [Slot -> 0 .. NoHint]
      <3>1. burst \in 0 .. NoHint /\ \A p \in Slot : time_left[p] \in 0 .. NoHint
        BY <1>0, Types, Words
      <3> QED
        BY <1>0, <1>9, <3>1, MinusWord, Types, Zenon DEF Back
    <2>2. <<policy, state, pid, ctime, expected_runtime, nextpid, clock>>'
             = <<policy, state, pid, ctime, expected_runtime, nextpid, clock>>
      BY <1>9 DEF Back
    <2>3. CASE best[c] # Null
      BY <1>0, <1>9, <2>1, <2>2, <2>3, TypesEndRound, Zenon DEF Back
    <2>4. CASE best[c] = Null
      <3>1. i[c] \in Slot
        BY <1>0, <1>9, <2>4, InTable DEF Rounds, Back
      <3>2. i' \in [CPU -> 1 .. NPROC + 1]
        BY <1>0, <1>9, <2>4, <3>1, Types, Table DEF Back
      <3>3. /\ pc' = [pc EXCEPT ![c] = "rr"] /\ proc' = [proc EXCEPT ![c] = Null]
            /\ UNCHANGED <<found, best, best_key, best_ctime, best_pid, cand, reused>>
        BY <1>9, <2>4 DEF Back, bestVars, histVars
      <3> QED
        BY <1>0, <2>1, <2>2, <3>2, <3>3 DEF Labels, TypeOK, Clock
    <2> QED
      BY <2>3, <2>4
  <1> QED
    BY <1>2, <1>3, <1>5, <1>6, <1>7, <1>8, <1>9, Zenon DEF SchedulerStep

-----------------------------------------------------------------------------
(* The search of d while others take steps *)

(* d goes on with what it has; some of its candidates are gone, and those  *)
(* it has looked at are as they were.                                      *)
LEMMA SearchKept ==
    ASSUME TypeOK, NEW d \in CPU, Search(d), policy' = policy,
           pc'[d] = pc[d], i'[d] = i[d], best'[d] = best[d], best_key'[d] = best_key[d],
           best_ctime'[d] = best_ctime[d], best_pid'[d] = best_pid[d],
           cand'[d] \subseteq cand[d],
           \A q \in cand'[d] : state'[q] = "RUNNABLE",
           \A q \in cand'[d] : ctime'[q] = ctime[q] /\ pid'[q] = pid[q],
           \A q \in cand'[d] : ~Locked(q) => ~Locked(q)' /\ Key(q)' = Key(q),
           policy = "FIFO" /\ best[d] # Null /\ ~reused'[d] =>
              ~reused[d] /\ (ctime'[best[d]] = ctime[best[d]] \/ ctime'[best[d]] = 0)
    PROVE  Search(d)'
  <1>1. ASSUME NEW q \in cand'[d], pc[d] = "scan", q < i[d]
        PROVE  Beaten(d, q) /\ Beaten(d, q)'
    <2>1. q \in cand[d] /\ Beaten(d, q)
      BY <1>1 DEF Search, Scanned
    <2>2. best[d] # Null /\ best[d] \in Slot /\ q \in Slot
      BY <2>1, CpuTypes DEF Beaten
    <2>3. ASSUME policy = "FIFO", ~reused'[d]
          PROVE  ctime'[best[d]] <= ctime'[q]
      <3>1. ctime[best[d]] <= ctime[q] /\ ctime'[q] = ctime[q]
        BY <2>1, <2>2, <2>3 DEF Beaten
      <3>2. ctime'[best[d]] = ctime[best[d]] \/ ctime'[best[d]] = 0
        BY <2>2, <2>3
      <3>3. ctime[best[d]] \in Nat /\ ctime[q] \in Nat
        BY <2>2, SlotTypes
      <3> QED
        BY <3>1, <3>2, <3>3
    <2>4. ASSUME policy # "FIFO"
          PROVE  /\ ~Locked(q)'
                 /\ ~Less(Key(q), ctime[q], pid[q], best_key[d], best_ctime[d], best_pid[d])'
      <3>1. /\ ~Locked(q)
            /\ ~Less(Key(q), ctime[q], pid[q], best_key[d], best_ctime[d], best_pid[d])
        BY <2>1, <2>4 DEF Beaten
      <3>2. ~Locked(q)' /\ Key(q)' = Key(q) /\ ctime'[q] = ctime[q] /\ pid'[q] = pid[q]
        BY <3>1
      <3> QED
        BY <3>1, <3>2 DEF Less
    <2> QED
      BY <2>1, <2>2, <2>3, <2>4 DEF Beaten
  <1>2. ASSUME pc[d] = "scan", policy # "FIFO", best[d] \in cand'[d]
        PROVE  Remembered(d)'
    <2>1. best[d] \in cand[d] /\ Remembered(d)
      BY <1>2 DEF Search, Scanned
    <2>2. best[d] < i[d]
      BY <2>1 DEF Remembered
    <2>3. ~Locked(best[d])
      BY <1>1, <1>2, <2>2 DEF Beaten
    <2>4. \A q \in cand'[d] : q = best[d] => Key(q)' = Key(q)
      BY <2>3
    <2>5. Key(best[d])' = Key(best[d])
      BY <1>2, <2>4 DEF Key
    <2>6. ctime'[best[d]] = ctime[best[d]] /\ pid'[best[d]] = pid[best[d]]
      BY <1>2
    <2> QED
      BY <2>1, <2>5, <2>6 DEF Remembered
  <1>3. Scanned(d)'
    <2>1. pc[d] = "scan" => policy # "RR"
      BY DEF Search, Scanned
    <2> QED
      BY <1>1, <1>2, <2>1 DEF Scanned
  <1>4. Rounds(d)'
    BY DEF Search, Rounds
  <1> QED
    BY <1>3, <1>4 DEF Search

(* A step of CPU c leaves the scans of the others alone. *)
StaysBut(c) ==
    /\ policy' = policy
    /\ \A d \in CPU : d # c =>
          /\ pc'[d] = pc[d] /\ proc'[d] = proc[d] /\ i'[d] = i[d] /\ best'[d] = best[d]
          /\ best_key'[d] = best_key[d] /\ best_ctime'[d] = best_ctime[d]
          /\ best_pid'[d] = best_pid[d] /\ reused'[d] = reused[d]

LEMMA OthersUnlocked ==
    ASSUME NEW c \in CPU, StaysBut(c), pc'[c] # "back", NEW q, ~Locked(q)
    PROVE  ~Locked(q)'
  BY DEF Locked, StaysBut

(* The scheduler of c changes no process, or one that is locked. *)
LEMMA OthersKept ==
    ASSUME SchedInv, NEW c \in CPU, NEW d \in CPU, d # c, StaysBut(c),
           pc'[c] # "back", cand'[d] = cand[d],
           state' = state, pid' = pid, ctime' = ctime, expected_runtime' = expected_runtime,
           \A q \in Slot : ~Locked(q) => time_left'[q] = time_left[q]
    PROVE  Search(d)'
  <1>0. TypeOK /\ Search(d) /\ policy' = policy
    BY DEF SchedInv, StaysBut
  <1>1. cand[d] \subseteq Slot /\ \A q \in cand[d] : state[q] = "RUNNABLE"
    BY <1>0, CpuTypes DEF Search
  <1>2. \A q \in cand'[d] : ~Locked(q) => ~Locked(q)'
    BY OthersUnlocked
  <1>3. \A q \in cand'[d] : ~Locked(q) => Key(q)' = Key(q)
    BY <1>0, <1>1 DEF Key
  <1>4. /\ pc'[d] = pc[d] /\ i'[d] = i[d] /\ best'[d] = best[d]
        /\ best_key'[d] = best_key[d] /\ best_ctime'[d] = best_ctime[d]
        /\ best_pid'[d] = best_pid[d] /\ reused'[d] = reused[d]
    BY DEF StaysBut
  <1> QED
    BY <1>0, <1>1, <1>2, <1>3, <1>4, SearchKept

LEMMA SearchInit == Init => Taken /\ \A c \in CPU : Search(c)
  <1> SUFFICES ASSUME Init PROVE Taken /\ \A c \in CPU : Search(c)
    OBVIOUS
  <1>1. \A c \in CPU : /\ pc[c] = FirstStep /\ i[c] = 1 /\ best[c] = Null
                       /\ cand[c] = {initproc} /\ proc[c] = Null
    BY DEF Init
  <1>2. initproc \in Slot /\ ~(initproc < 1) /\ Null \notin {initproc}
        /\ state[initproc] = "RUNNABLE"
    BY Table DEF Init, initproc
  <1>3. FirstStep = "scan" => policy # "RR"
    BY DEF FirstStep
  <1>4. FirstStep \in {"rr", "scan"}
    BY DEF FirstStep
  <1>5. Taken
    BY <1>1, <1>4 DEF Taken
  <1> QED
    BY <1>1, <1>2, <1>3, <1>4, <1>5 DEF Search, Scanned, Rounds

-----------------------------------------------------------------------------
(* Steps of programs *)

(* The running process, and the slot of a call that looks for one, are no  *)
(* candidates of any scan.                                                 *)
LEMMA RunningIs ==
    ASSUME Taken, NEW c \in CPU, NEW p \in Slot, Running(c, p)
    PROVE  state[p] = "RUNNING" /\ \A d \in CPU : d # c => ~Running(d, p)
  BY DEF Taken, Running

(* A call changes one process, x, which nobody can choose. *)
LEMMA SearchCall ==
    ASSUME SchedInv, NEW x \in Slot, state[x] # "RUNNABLE",
           state[x] = "RUNNING" => state'[x] = "RUNNING",
           policy' = policy, UNCHANGED cpuVars, cand' = cand,
           \A q \in Slot : q # x =>
              /\ state'[q] = state[q] /\ ctime'[q] = ctime[q] /\ pid'[q] = pid[q]
              /\ expected_runtime'[q] = expected_runtime[q] /\ time_left'[q] = time_left[q],
           \A d \in CPU : policy = "FIFO" /\ ~reused'[d] =>
              ~reused[d] /\ (best[d] = x => ctime'[x] = ctime[x] \/ ctime'[x] = 0)
    PROVE  Taken' /\ \A d \in CPU : Search(d)'
  <1>0. TypeOK /\ Taken /\ \A d \in CPU : Search(d)
    BY DEF SchedInv
  <1>1. /\ pc' = pc /\ proc' = proc /\ i' = i /\ best' = best /\ best_key' = best_key
        /\ best_ctime' = best_ctime /\ best_pid' = best_pid
    BY DEF cpuVars, bestVars
  <1>2. Taken'
    <2>1. ASSUME NEW d \in CPU, pc[d] = "run"
          PROVE  state'[proc[d]] = "RUNNING"
      <3>1. proc[d] \in Slot /\ state[proc[d]] = "RUNNING"
        BY <1>0, <2>1, CpuTypes DEF Taken
      <3> QED
        BY <3>1
    <2> QED
      BY <1>0, <1>1, <2>1 DEF Taken
  <1>3. ASSUME NEW d \in CPU
        PROVE  Search(d)'
    <2>1. \A q \in cand[d] : q \in Slot /\ state[q] = "RUNNABLE" /\ q # x
      BY <1>0, CpuTypes DEF Search
    <2>2. /\ cand'[d] = cand[d]
          /\ \A q \in cand[d] : /\ state'[q] = "RUNNABLE"
                                /\ ctime'[q] = ctime[q] /\ pid'[q] = pid[q]
      BY <2>1, Zenon
    <2>3. \A q \in cand[d] : Key(q)' = Key(q) /\ (~Locked(q) => ~Locked(q)')
      BY <1>1, <2>1 DEF Key, Locked
    <2>4. best[d] # Null => best[d] \in Slot
      BY <1>0, CpuTypes
    <2>5. policy = "FIFO" /\ best[d] # Null /\ ~reused'[d] =>
              ~reused[d] /\ (ctime'[best[d]] = ctime[best[d]] \/ ctime'[best[d]] = 0)
      BY <2>4, Zenon
    <2>6. /\ pc'[d] = pc[d] /\ i'[d] = i[d] /\ best'[d] = best[d]
          /\ best_key'[d] = best_key[d] /\ best_ctime'[d] = best_ctime[d]
          /\ best_pid'[d] = best_pid[d] /\ cand'[d] \subseteq cand[d]
      BY <1>1, <2>2
    <2> QED
      BY <1>0, <2>2, <2>3, <2>5, <2>6, SearchKept
  <1> QED
    BY <1>2, <1>3

LEMMA SearchCalls ==
    ASSUME SchedInv, NEW p \in Slot,
           \/ Wakeup(p) \/ ForkRun(p) \/ Reap(p)
           \/ \E c \in CPU : \/ \E n \in Hints : SetExpected(c, p, n)
                             \/ \E n \in StcfHints : SetStcfVals(c, p, n)
                             \/ \E q \in Slot, t \in {clock, clock + 1} \ {0} : Fork(c, p, q, t)
    PROVE  Taken' /\ \A d \in CPU : Search(d)'
  <1>0. TypeOK /\ Taken
    BY DEF SchedInv
  <1>1. CASE Wakeup(p) \/ ForkRun(p)
    <2>1. /\ state[p] \notin {"RUNNABLE", "RUNNING"}
          /\ \A q \in Slot : q # p => state'[q] = state[q]
      BY <1>0, <1>1, Types DEF Wakeup, ForkRun
    <2>2. /\ UNCHANGED cpuVars
          /\ UNCHANGED <<policy, pid, ctime, expected_runtime, time_left, cand, reused>>
      BY <1>1 DEF Wakeup, ForkRun, histVars
    <2> QED
      BY <2>1, <2>2, SearchCall
  <1>2. CASE Reap(p)
    <2>1. /\ state[p] = "ZOMBIE" /\ ctime'[p] = 0
          /\ \A q \in Slot : q # p =>
                /\ state'[q] = state[q] /\ ctime'[q] = ctime[q] /\ pid'[q] = pid[q]
                /\ expected_runtime'[q] = expected_runtime[q]
      BY <1>0, <1>2, Types DEF Reap
    <2>2. UNCHANGED cpuVars /\ UNCHANGED <<policy, time_left, cand, reused>>
      BY <1>2 DEF Reap, histVars
    <2> QED
      BY <2>1, <2>2, SearchCall
  <1>3. ASSUME NEW c \in CPU, NEW n, SetExpected(c, p, n) \/ SetStcfVals(c, p, n)
        PROVE  Taken' /\ \A d \in CPU : Search(d)'
    <2>1. state[p] = "RUNNING"
      BY <1>0, <1>3, RunningIs DEF SetExpected, SetStcfVals
    <2>2. \A q \in Slot : q # p => /\ expected_runtime'[q] = expected_runtime[q]
                                   /\ time_left'[q] = time_left[q]
      BY <1>0, <1>3, Types DEF SetExpected, SetStcfVals
    <2>3. UNCHANGED cpuVars /\ UNCHANGED <<policy, state, pid, ctime, cand, reused>>
      BY <1>3 DEF SetExpected, SetStcfVals, histVars
    <2> QED
      BY <2>1, <2>2, <2>3, SearchCall
  <1>4. ASSUME NEW c \in CPU, NEW q \in Slot, NEW t, Fork(c, p, q, t)
        PROVE  Taken' /\ \A d \in CPU : Search(d)'
    <2>0. /\ state[q] = "UNUSED"
          /\ state' = [state EXCEPT ![q] = "USED"] /\ pid' = [pid EXCEPT ![q] = nextpid]
          /\ ctime' = [ctime EXCEPT ![q] = t]
          /\ expected_runtime' = [expected_runtime EXCEPT ![q] = expected_runtime[p]]
          /\ time_left' = [time_left EXCEPT ![q] = 0]
      BY <1>4 DEF Fork
    <2>1. ASSUME NEW r \in Slot, r # q
          PROVE  state'[r] = state[r] /\ ctime'[r] = ctime[r] /\ pid'[r] = pid[r]
      BY <1>0, <2>0, <2>1, Types
    <2>2. ASSUME NEW r \in Slot, r # q
          PROVE  expected_runtime'[r] = expected_runtime[r] /\ time_left'[r] = time_left[r]
      BY <1>0, <2>0, <2>2, Types
    <2>3. UNCHANGED cpuVars /\ policy' = policy /\ cand' = cand
      BY <1>4 DEF Fork
    <2>4. \A d \in CPU : policy = "FIFO" /\ ~reused'[d] => ~reused[d] /\ best[d] # q
      BY <1>4, Zenon DEF Fork
    <2>5. state[q] # "RUNNABLE" /\ state[q] # "RUNNING"
      BY <2>0
    <2>6. \A r \in Slot : r # q =>
             /\ state'[r] = state[r] /\ ctime'[r] = ctime[r] /\ pid'[r] = pid[r]
             /\ expected_runtime'[r] = expected_runtime[r] /\ time_left'[r] = time_left[r]
      BY <2>1, <2>2, Zenon
    <2>7. \A d \in CPU : policy = "FIFO" /\ ~reused'[d] =>
             ~reused[d] /\ (best[d] = q => ctime'[q] = ctime[q] \/ ctime'[q] = 0)
      BY <2>4, Zenon
    <2> QED
      BY <2>3, <2>5, <2>6, <2>7, SearchCall, Zenon
  <1> QED
    BY <1>1, <1>2, <1>3, <1>4, Zenon

(* The running process gives up its CPU, which holds its lock from here on. *)
LEMMA SearchGivesUp ==
    ASSUME SchedInv, NEW c \in CPU, NEW p \in Slot,
           \/ \E st \in {"RUNNABLE", "SLEEPING"} : GiveUp(c, p, st)
           \/ \E burst \in Bursts : Exit(c, p, burst)
    PROVE  Taken' /\ \A d \in CPU : Search(d)'
  <1>0. TypeOK /\ Taken /\ \A d \in CPU : Search(d)
    BY DEF SchedInv
  <1>1. Running(c, p) /\ state[p] = "RUNNING" /\ \A d \in CPU : d # c => ~Running(d, p)
    BY <1>0, RunningIs DEF GiveUp, Exit
  <1>2. /\ proc' = proc /\ i' = i /\ best' = best /\ best_key' = best_key
        /\ best_ctime' = best_ctime /\ best_pid' = best_pid
        /\ cand' = cand /\ reused' = reused /\ policy' = policy
        /\ ctime' = ctime /\ pid' = pid /\ expected_runtime' = expected_runtime
    BY DEF GiveUp, Exit, bestVars, histVars
  <1>3. pc'[c] = "back" /\ \A d \in CPU : d # c => pc'[d] = pc[d]
    BY <1>0, Types DEF GiveUp, Exit
  <1>4. \A q \in Slot : q # p => state'[q] = state[q] /\ time_left'[q] = time_left[q]
    BY <1>0, Types DEF GiveUp, Exit
  <1>5. Taken'
    <2>1. ASSUME NEW d \in CPU, pc'[d] = "run"
          PROVE  d # c /\ pc[d] = "run" /\ state'[proc[d]] = "RUNNING"
      <3>1. d # c /\ pc[d] = "run"
        BY <1>3, <2>1
      <3>2. proc[d] \in Slot /\ state[proc[d]] = "RUNNING"
        BY <1>0, <3>1, CpuTypes DEF Taken
      <3>3. proc[d] # p
        BY <1>1, <3>1 DEF Running
      <3> QED
        BY <1>4, <3>1, <3>2, <3>3
    <2>2. \A d \in CPU : pc'[d] \in {"run", "back"} => proc'[d] # Null
      <3>1. proc[c] # Null
        BY <1>0, <1>1 DEF Running, Taken
      <3> QED
        BY <1>0, <1>2, <1>3, <3>1 DEF Taken
    <2>3. ASSUME NEW d \in CPU, NEW e \in CPU, pc'[d] = "run", pc'[e] = "run",
                 proc'[d] = proc'[e]
          PROVE  d = e
      BY <1>0, <1>2, <2>1, <2>3 DEF Taken
    <2> QED
      BY <1>2, <2>1, <2>2, <2>3 DEF Taken
  <1>6. \A d \in CPU : \A q \in cand[d] :
           q \in Slot /\ state[q] = "RUNNABLE" /\ q # p /\ state'[q] = "RUNNABLE"
    BY <1>0, <1>1, <1>4, CpuTypes DEF Search
  <1>7. ASSUME NEW d \in CPU, d # c
        PROVE  Search(d)'
    <2>1. \A q \in cand[d] : ~Locked(q) => ~Locked(q)'
      BY <1>1, <1>2, <1>3, <1>6, <1>7 DEF Locked, Running
    <2>2. \A q \in cand[d] : Key(q)' = Key(q)
      BY <1>2, <1>4, <1>6 DEF Key
    <2>3. pc'[d] = pc[d]
      BY <1>3, <1>7
    <2> QED
      BY <1>0, <1>2, <1>6, <2>1, <2>2, <2>3, SearchKept
  <1>8. Search(c)'
    <2>1. Rounds(c)'
      BY <1>0, <1>1, <1>2, <1>3 DEF Search, Rounds, Running
    <2> QED
      BY <1>2, <1>3, <1>6, <2>1 DEF Search, Scanned
  <1> QED
    BY <1>5, <1>7, <1>8

-----------------------------------------------------------------------------
(* Steps of scheduler() *)

LEMMA TakenKept ==
    ASSUME SchedInv, NEW c \in CPU, StaysBut(c), pc'[c] \notin {"run", "back"},
           state' = state
    PROVE  Taken'
  <1>1. Taken
    BY DEF SchedInv
  <1>2. ASSUME NEW d \in CPU, pc'[d] \in {"run", "back"}
        PROVE  pc'[d] = pc[d] /\ proc'[d] = proc[d]
    BY <1>2 DEF StaysBut
  <1>3. ASSUME NEW d \in CPU, pc'[d] \in {"run", "back"}
        PROVE  proc'[d] # Null /\ (pc'[d] = "run" => state'[proc'[d]] = "RUNNING")
    BY <1>1, <1>2, <1>3 DEF Taken
  <1>4. ASSUME NEW d \in CPU, NEW e \in CPU, pc'[d] = "run", pc'[e] = "run",
               proc'[d] = proc'[e]
        PROVE  d = e
    BY <1>1, <1>2, <1>4 DEF Taken
  <1> QED
    BY <1>3, <1>4 DEF Taken

(* c begins a new round, or waits for an interrupt. *)
LEMMA SearchEndRound ==
    ASSUME SchedInv, NEW c \in CPU, NEW f \in BOOLEAN, EndRound(c, f),
           policy' = policy, state' = state, pid' = pid, ctime' = ctime,
           expected_runtime' = expected_runtime,
           \A q \in Slot : ~Locked(q) => time_left'[q] = time_left[q]
    PROVE  Taken' /\ \A d \in CPU : Search(d)'
  <1>0. TypeOK
    BY DEF SchedInv
  <1>1. /\ pc'[c] = IF f THEN FirstStep ELSE "wfi"
        /\ i'[c] = 1 /\ best'[c] = Null /\ cand'[c] = IF f THEN Runnable ELSE {}
    BY <1>0, Types DEF EndRound
  <1>2. pc'[c] \in {"scan", "rr", "wfi"} /\ (pc'[c] = "scan" => policy # "RR")
    BY <1>1 DEF FirstStep
  <1>3. StaysBut(c)
    BY <1>0, Types DEF EndRound, StaysBut
  <1>4. \A d \in CPU : d # c => cand'[d] = cand[d]
    BY <1>0, Types DEF EndRound
  <1>5. Taken'
    BY <1>2, <1>3, TakenKept
  <1>6. ASSUME NEW d \in CPU, d # c
        PROVE  Search(d)'
    BY <1>2, <1>3, <1>4, <1>6, OthersKept
  <1>7. Search(c)'
    <2>1. ASSUME NEW q \in cand'[c]
          PROVE  state'[q] = "RUNNABLE" /\ ~(q < 1) /\ q # Null
      <3>1. q \in Slot /\ state[q] = "RUNNABLE"
        BY <1>1, <2>1 DEF Runnable
      <3> QED
        BY <3>1, Table
    <2> QED
      BY <1>1, <1>2, <2>1 DEF Search, Scanned, Rounds
  <1> QED
    BY <1>5, <1>6, <1>7

(* c takes a RUNNABLE process p: no scan has it as a candidate any more. *)
LEMMA SearchRun ==
    ASSUME SchedInv, NEW c \in CPU, NEW p \in Slot, Run(c, p), i' = i,
           state[p] = "RUNNABLE", pc[c] \in {"rr", "scan"},
           best[c] = Null => pc[c] = "rr" /\ p = i[c]
    PROVE  Taken' /\ \A d \in CPU : Search(d)'
  <1>0. TypeOK /\ Taken /\ \A d \in CPU : Search(d)
    BY DEF SchedInv
  <1>1. /\ pc'[c] = "run" /\ proc'[c] = p /\ best' = best /\ policy' = policy
        /\ state'[p] = "RUNNING" /\ \A q \in Slot : q # p => state'[q] = state[q]
        /\ UNCHANGED <<pid, ctime, expected_runtime, time_left>>
    BY <1>0, Types DEF Run, bestVars
  <1>2. StaysBut(c)
    BY <1>0, Types DEF Run, StaysBut, bestVars
  <1>3. /\ \A d \in CPU : d # c => cand'[d] = cand[d] \ {p}
        /\ best[c] = Null => cand'[c] = cand[c] \ {p}
        /\ best[c] # Null => cand'[c] = {}
    BY DEF Run
  <1>4. \A d \in CPU : \A q \in cand'[d] :
           q \in cand[d] /\ q # p /\ q \in Slot /\ state'[q] = "RUNNABLE"
    <2>1. \A d \in CPU : cand[d] \subseteq Slot /\ \A q \in cand[d] : state[q] = "RUNNABLE"
      BY <1>0, CpuTypes DEF Search
    <2>2. \A d \in CPU : cand'[d] \subseteq cand[d] \ {p}
      BY <1>3
    <2> QED
      BY <1>1, <2>1, <2>2
  <1>5. Taken'
    <2>1. ASSUME NEW d \in CPU, d # c, pc[d] = "run"
          PROVE  proc[d] # p /\ state'[proc[d]] = "RUNNING"
      <3>1. proc[d] \in Slot /\ state[proc[d]] = "RUNNING"
        BY <1>0, <2>1, CpuTypes DEF Taken
      <3> QED
        BY <1>1, <3>1
    <2>2. \A d \in CPU : d # c => pc'[d] = pc[d] /\ proc'[d] = proc[d]
      BY <1>2 DEF StaysBut
    <2>3. p # Null
      BY Table
    <2>4. \A d \in CPU : pc'[d] \in {"run", "back"} => proc'[d] # Null
      BY <1>0, <1>1, <2>2, <2>3 DEF Taken
    <2>5. \A d \in CPU : pc'[d] = "run" => state'[proc'[d]] = "RUNNING"
      BY <1>1, <2>1, <2>2
    <2>6. ASSUME NEW d \in CPU, NEW e \in CPU, pc'[d] = "run", pc'[e] = "run",
                 proc'[d] = proc'[e]
          PROVE  d = e
      <3>1. CASE d # c /\ e # c
        <4>1. pc[d] = "run" /\ pc[e] = "run" /\ proc[d] = proc[e]
          BY <2>2, <2>6, <3>1
        <4> QED
          BY <1>0, <4>1, Zenon DEF Taken
      <3>2. ASSUME NEW x \in CPU, x # c, pc'[x] = "run"
            PROVE  proc'[x] # p
        BY <2>1, <2>2, <3>2
      <3> QED
        BY <1>1, <2>6, <3>1, <3>2, Zenon
    <2> QED
      BY <2>4, <2>5, <2>6 DEF Taken
  <1>6. ASSUME NEW d \in CPU, d # c
        PROVE  Search(d)'
    <2>1. \A q \in cand'[d] : ~Locked(q) => ~Locked(q)'
      BY <1>1, <1>2, OthersUnlocked
    <2>2. \A q \in cand'[d] : Key(q)' = Key(q)
      BY <1>1 DEF Key
    <2>3. /\ pc'[d] = pc[d] /\ i'[d] = i[d] /\ best'[d] = best[d]
          /\ best_key'[d] = best_key[d] /\ best_ctime'[d] = best_ctime[d]
          /\ best_pid'[d] = best_pid[d] /\ reused'[d] = reused[d]
      BY <1>2, <1>6 DEF StaysBut
    <2>4. cand'[d] \subseteq cand[d]
      BY <1>4
    <2> QED
      BY <1>0, <1>1, <1>4, <2>1, <2>2, <2>3, <2>4, SearchKept
  <1>7. Search(c)'
    <2>1. ASSUME best[c] = Null
          PROVE  i[c] <= NPROC /\ \A q \in cand'[c] : ~(q < i[c] + 1)
      <3>1. i[c] = p /\ p <= NPROC /\ p \in Nat /\ \A q \in cand[c] : ~(q < p)
        BY <1>0, <2>1, SlotTypes DEF Search, Rounds
      <3>2. \A q \in cand'[c] : q \in Nat /\ q # p /\ ~(q < p)
        BY <1>4, <3>1, Table, Zenon
      <3> QED
        BY <3>1, <3>2
    <2>2. Rounds(c)'
      BY <1>1, <2>1 DEF Rounds
    <2> QED
      BY <1>1, <1>4, <2>2 DEF Search, Scanned
  <1> QED
    BY <1>5, <1>6, <1>7


(* The order of schedule_sjf() and schedule_stcf() is a strict weak one. *)
LEMMA LessOrder ==
    ASSUME NEW k \in Nat, NEW t \in Nat, NEW n \in Nat,
           NEW k1 \in Nat, NEW t1 \in Nat, NEW n1 \in Nat,
           NEW k2 \in Nat, NEW t2 \in Nat, NEW n2 \in Nat,
           Less(k1, t1, n1, k2, t2, n2), ~Less(k, t, n, k2, t2, n2)
    PROVE  ~Less(k, t, n, k1, t1, n1)
  BY DEF Less

LEMMA LessStrict == \A k, t, n \in Nat : ~Less(k, t, n, k, t, n)
  BY DEF Less

(* c looks at one slot, or turns to round robin. *)
LEMMA SearchLooks ==
    ASSUME SchedInv, NEW c \in CPU, StaysBut(c), UNCHANGED procVars, cand' = cand,
           pc'[c] \in {"rr", "scan"}, Scanned(c)', Rounds(c)'
    PROVE  Taken' /\ \A d \in CPU : Search(d)'
  <1>1. UNCHANGED <<policy, state, pid, ctime, expected_runtime, time_left>>
    BY DEF procVars
  <1>2. Taken'
    BY <1>1, TakenKept
  <1>3. ASSUME NEW d \in CPU, d # c
        PROVE  Search(d)'
    BY <1>1, <1>3, OthersKept
  <1>4. Search(c)'
    <2>1. \A q \in cand'[c] : state'[q] = "RUNNABLE"
      BY <1>1 DEF SchedInv, Search
    <2> QED
      BY <2>1 DEF Search
  <1> QED
    BY <1>2, <1>3, <1>4

LEMMA SearchSkip ==
    ASSUME SchedInv, NEW c \in CPU, RoundRobinSkip(c)
    PROVE  Taken' /\ \A d \in CPU : Search(d)'
  <1>0. TypeOK /\ Search(c)
    BY DEF SchedInv
  <1>1. pc'[c] = "rr" /\ i'[c] = i[c] + 1 /\ best'[c] = best[c] /\ cand' = cand
    BY <1>0, Types DEF RoundRobinSkip, bestVars, histVars
  <1>2. StaysBut(c)
    BY <1>0, Types DEF RoundRobinSkip, StaysBut, procVars, bestVars, histVars
  <1>3. best[c] = Null /\ \A q \in cand[c] : ~(q < i[c]) /\ q # i[c]
    BY <1>0 DEF RoundRobinSkip, Search, Rounds
  <1>4. i[c] \in Nat /\ \A q \in cand[c] : q \in Nat
    BY <1>0, CpuTypes, SlotTypes
  <1>5. \A q \in cand[c] : ~(q < i[c] + 1)
    BY <1>3, <1>4
  <1>6. Scanned(c)' /\ Rounds(c)'
    BY <1>1, <1>3, <1>5 DEF Scanned, Rounds
  <1> QED
    BY <1>1, <1>2, <1>6, SearchLooks DEF RoundRobinSkip

LEMMA SearchFifoLook ==
    ASSUME SchedInv, NEW c \in CPU, FifoLook(c)
    PROVE  Taken' /\ \A d \in CPU : Search(d)'
  <1> DEFINE p == i[c]
             older == /\ state[p] = "RUNNABLE"
                      /\ best[c] = Null \/ ctime[p] < ctime[best[c]]
  <1>0. TypeOK /\ Search(c) /\ policy = "FIFO" /\ pc[c] = "scan" /\ p \in Nat /\ p <= NPROC
    BY CpuTypes DEF SchedInv, FifoLook
  <1>1. /\ pc'[c] = "scan" /\ i'[c] = p + 1 /\ cand' = cand /\ reused' = reused
        /\ ctime' = ctime /\ policy' = policy
    BY <1>0, Types DEF FifoLook, procVars, histVars
  <1>2. best'[c] = IF older THEN p ELSE best[c]
    BY <1>0, Types DEF FifoLook
  <1>3. StaysBut(c)
    BY <1>0, Types DEF FifoLook, StaysBut, procVars, histVars
  <1>4. p \in Slot /\ ctime[p] \in Nat
    <2>1. p \in Slot
      BY <1>0, InTable
    <2> QED
      BY <1>0, <2>1, SlotTypes
  <1> HIDE DEF older
  <1>5. ASSUME NEW q \in cand[c], q < p + 1
        PROVE  Beaten(c, q)'
    <2>1. q \in Slot /\ q \in Nat /\ ctime[q] \in Nat /\ state[q] = "RUNNABLE"
      BY <1>0, CpuTypes, SlotTypes DEF Search
    <2>2. best[c] # Null => ctime[best[c]] \in Nat
      BY <1>0, CpuTypes, SlotTypes
    <2>3. q < p \/ q = p
      BY <1>0, <1>5, <2>1, Upto, Zenon
    <2>4. q < p => best[c] # Null /\ (reused[c] \/ ctime[best[c]] <= ctime[q])
      <3>1. q < p => Beaten(c, q)
        BY <1>0 DEF Search, Scanned
      <3> QED
        BY <1>0, <3>1, Zenon DEF Beaten
    <2>5. CASE older
      <3>1. q < p => ctime[p] < ctime[best[c]]
        BY <2>4, <2>5, Zenon DEF older
      <3>2. reused[c] \/ ctime[p] <= ctime[q]
        <4>1. CASE q = p
          <5>1. ctime[p] <= ctime[p]
            BY <1>4, Earlier, Zenon
          <5> QED
            BY <4>1, <5>1
        <4>2. CASE q < p
          BY <1>4, <2>1, <2>2, <2>4, <3>1, <4>2, Earlier, Zenon
        <4> QED
          BY <2>3, <4>1, <4>2
      <3>3. best'[c] = p /\ p # Null
        BY <1>2, <1>4, <2>5, Table
      <3> QED
        BY <1>0, <1>1, <3>2, <3>3, Zenon DEF Beaten
    <2>6. CASE ~older
      <3>1. q = p => best[c] # Null /\ ~(ctime[p] < ctime[best[c]])
        BY <2>1, <2>6, Zenon DEF older
      <3>2. best[c] # Null /\ (reused[c] \/ ctime[best[c]] <= ctime[q])
        <4>1. CASE q = p
          <5>1. best[c] # Null /\ ctime[best[c]] <= ctime[p]
            BY <1>4, <2>2, <3>1, <4>1, Earlier, Zenon
          <5> QED
            BY <4>1, <5>1
        <4> QED
          BY <2>3, <2>4, <4>1
      <3>3. best'[c] = best[c]
        BY <1>2, <2>6
      <3> QED
        BY <1>0, <1>1, <3>2, <3>3, Zenon DEF Beaten
    <2> QED
      BY <2>5, <2>6
  <1>6. Scanned(c)' /\ Rounds(c)'
    BY <1>0, <1>1, <1>5 DEF Scanned, Rounds
  <1> QED
    BY <1>1, <1>3, <1>6, SearchLooks DEF FifoLook


LEMMA SearchKeyLook ==
    ASSUME SchedInv, NEW c \in CPU, KeyLook(c)
    PROVE  Taken' /\ \A d \in CPU : Search(d)'
  <1> DEFINE p == i[c]
             better == /\ state[p] = "RUNNABLE"
                       /\ \/ best[c] = Null
                          \/ Less(Key(p), ctime[p], pid[p],
                                  best_key[c], best_ctime[c], best_pid[c])
  <1>0. /\ TypeOK /\ Search(c) /\ policy # "FIFO" /\ pc[c] = "scan" /\ ~Locked(p)
        /\ p \in Nat /\ p <= NPROC
    BY CpuTypes DEF SchedInv, KeyLook
  <1>1. /\ pc' = pc /\ proc' = proc /\ i'[c] = p + 1 /\ cand' = cand /\ policy' = policy
        /\ UNCHANGED <<pid, ctime, expected_runtime, time_left, reused>>
    BY <1>0, Types DEF KeyLook, procVars, histVars
  <1>2. StaysBut(c)
    <2>1. ASSUME NEW d \in CPU, d # c
          PROVE  i'[d] = i[d]
      BY <1>0, <2>1, Types DEF KeyLook
    <2>2. ASSUME NEW d \in CPU, d # c
          PROVE  /\ best'[d] = best[d] /\ best_key'[d] = best_key[d]
                 /\ best_ctime'[d] = best_ctime[d] /\ best_pid'[d] = best_pid[d]
      BY <1>0, <2>2, Types DEF KeyLook, bestVars
    <2> QED
      BY <1>1, <2>1, <2>2 DEF StaysBut
  <1>3. better => /\ best'[c] = p /\ best_key'[c] = Key(p)
                  /\ best_ctime'[c] = ctime[p] /\ best_pid'[c] = pid[p]
    BY <1>0, Types DEF KeyLook
  <1>4. ~better => /\ best'[c] = best[c] /\ best_key'[c] = best_key[c]
                   /\ best_ctime'[c] = best_ctime[c] /\ best_pid'[c] = best_pid[c]
    BY DEF KeyLook, bestVars
  <1>5. \A q : Key(q)' = Key(q) /\ Locked(q)' = Locked(q)
    BY <1>1 DEF Key, Locked
  <1>6. p \in Slot /\ p # Null /\ Key(p) \in Nat /\ ctime[p] \in Nat /\ pid[p] \in Nat
    <2>1. p \in Slot
      BY <1>0, InTable
    <2> QED
      BY <1>0, <2>1, SlotTypes, Table
  <1>7. best_key[c] \in Nat /\ best_ctime[c] \in Nat /\ best_pid[c] \in Nat
    BY <1>0, CpuTypes
  <1> HIDE DEF better
  <1>8. ASSUME NEW q \in cand[c], q < p + 1
        PROVE  Beaten(c, q)'
    <2>1. /\ q \in Slot /\ q \in Nat /\ state[q] = "RUNNABLE"
          /\ Key(q) \in Nat /\ ctime[q] \in Nat /\ pid[q] \in Nat
      BY <1>0, CpuTypes, SlotTypes DEF Search
    <2>2. q < p => /\ best[c] # Null /\ ~Locked(q)
                   /\ ~Less(Key(q), ctime[q], pid[q],
                            best_key[c], best_ctime[c], best_pid[c])
      <3>1. q < p => Beaten(c, q)
        BY <1>0 DEF Search, Scanned
      <3> QED
        BY <1>0, <3>1 DEF Beaten
    <2>3. q < p \/ q = p
      BY <1>0, <1>8, <2>1, Upto, Zenon
    <2>4. ~Locked(q)
      BY <1>0, <2>2, <2>3
    <2>5. CASE better
      <3>1. ~Less(Key(q), ctime[q], pid[q], Key(p), ctime[p], pid[p])
        <4>1. CASE q = p
          BY <1>6, <4>1, LessStrict
        <4>2. CASE q < p
          <5>1. Less(Key(p), ctime[p], pid[p], best_key[c], best_ctime[c], best_pid[c])
            BY <2>2, <2>5, <4>2 DEF better
          <5> QED
            BY <1>6, <1>7, <2>1, <2>2, <4>2, <5>1, LessOrder
        <4> QED
          BY <2>3, <4>1, <4>2
      <3> QED
        BY <1>0, <1>1, <1>3, <1>5, <1>6, <2>4, <2>5, <3>1 DEF Beaten
    <2>6. CASE ~better
      <3>1. best[c] # Null /\ ~Less(Key(q), ctime[q], pid[q],
                                    best_key[c], best_ctime[c], best_pid[c])
        BY <2>1, <2>2, <2>3, <2>6 DEF better
      <3> QED
        BY <1>0, <1>1, <1>4, <1>5, <2>4, <2>6, <3>1 DEF Beaten
    <2> QED
      BY <2>5, <2>6
  <1>9. ASSUME best'[c] \in cand[c]
        PROVE  Remembered(c)'
    <2>1. CASE better
      <3>1. p < p + 1
        BY <1>0, Upto, Zenon
      <3>2. best_key'[c] = Key(best'[c]) /\ Key(best'[c]) = Key(best[c])'
        BY <1>1, <1>3, <2>1 DEF Key
      <3> QED
        BY <1>1, <1>3, <2>1, <3>1, <3>2 DEF Remembered
    <2>2. CASE ~better
      <3>1. best[c] \in cand[c] /\ Remembered(c)
        BY <1>0, <1>4, <1>9, <2>2 DEF Search, Scanned
      <3>2. best[c] < p + 1
        <4>1. best[c] \in Nat /\ best[c] < p
          BY <1>0, <3>1, CpuTypes, SlotTypes DEF Remembered
        <4> QED
          BY <1>0, <4>1, Upto, Zenon
      <3>3. Key(best[c])' = Key(best[c])
        BY <1>1, <1>4, <2>2 DEF Key
      <3> QED
        BY <1>1, <1>4, <2>2, <3>1, <3>2, <3>3 DEF Remembered
    <2> QED
      BY <2>1, <2>2
  <1>10. Scanned(c)' /\ Rounds(c)'
    <2>1. policy # "RR"
      BY <1>0 DEF Search, Scanned
    <2> QED
      BY <1>0, <1>1, <1>8, <1>9, <2>1 DEF Scanned, Rounds
  <1>11. UNCHANGED procVars
    BY DEF KeyLook
  <1> QED
    BY <1>0, <1>1, <1>2, <1>10, <1>11, SearchLooks

(* schedule_sjf() or schedule_stcf() hands over to schedule_rr(). *)
LEMMA SearchNoHint ==
    ASSUME SchedInv, NEW c \in CPU, ScanNoHint(c)
    PROVE  Taken' /\ \A d \in CPU : Search(d)'
  <1>0. TypeOK /\ Search(c)
    BY DEF SchedInv
  <1>1. pc'[c] = "rr" /\ i'[c] = 1 /\ best'[c] = Null /\ cand' = cand
    BY <1>0, Types DEF ScanNoHint, histVars
  <1>2. StaysBut(c)
    BY <1>0, Types DEF ScanNoHint, StaysBut, procVars, histVars
  <1>3. \A q \in cand[c] : ~(q < 1)
    <2>1. \A q \in Slot : ~(q < 1)
      BY Table
    <2> QED
      BY <1>0, <2>1, CpuTypes
  <1>4. Scanned(c)' /\ Rounds(c)'
    BY <1>1, <1>3 DEF Scanned, Rounds
  <1> QED
    BY <1>1, <1>2, <1>4, SearchLooks DEF ScanNoHint


(* The process that c ran has given up the CPU. *)
LEMMA SearchBack ==
    ASSUME SchedInv, NEW c \in CPU, NEW burst, Back(c, burst)
    PROVE  Taken' /\ \A d \in CPU : Search(d)'
  <1>0. TypeOK /\ Search(c) /\ pc[c] = "back"
    BY DEF SchedInv, Back
  <1>1. UNCHANGED <<policy, state, pid, ctime, expected_runtime>>
    BY DEF Back
  <1>2. \A q \in Slot : ~Locked(q) => time_left'[q] = time_left[q]
    <2>1. Locked(proc[c])
      BY <1>0 DEF Locked
    <2>2. \A q \in Slot : q # proc[c] => time_left'[q] = time_left[q]
      BY <1>0, Types DEF Back
    <2> QED
      BY <2>1, <2>2
  <1>3. CASE best[c] # Null
    <2>1. EndRound(c, TRUE)
      BY <1>3, Zenon DEF Back
    <2> QED
      BY <1>1, <1>2, <2>1, SearchEndRound
  <1>4. CASE best[c] = Null
    <2>1. pc'[c] = "rr" /\ i'[c] = i[c] + 1 /\ best'[c] = Null /\ cand' = cand
      BY <1>0, <1>4, Types DEF Back, bestVars, histVars
    <2>2. StaysBut(c)
      BY <1>0, <1>1, <1>4, Types DEF Back, StaysBut, bestVars, histVars
    <2>3. Taken'
      BY <1>1, <2>1, <2>2, TakenKept
    <2>4. ASSUME NEW d \in CPU, d # c
          PROVE  Search(d)'
      BY <1>1, <1>2, <2>1, <2>2, <2>4, OthersKept
    <2>5. \A q \in cand[c] : state[q] = "RUNNABLE" /\ ~(q < i[c] + 1)
      BY <1>0, <1>4 DEF Search, Rounds
    <2>6. Search(c)'
      BY <1>1, <2>1, <2>5 DEF Search, Scanned, Rounds
    <2> QED
      BY <2>3, <2>4, <2>6
  <1> QED
    BY <1>3, <1>4

LEMMA SearchScheduler ==
    ASSUME SchedInv, NEW c \in CPU, SchedulerStep(c)
    PROVE  Taken' /\ \A d \in CPU : Search(d)'
  <1>0. TypeOK
    BY DEF SchedInv
  <1>1. ASSUME NEW f \in BOOLEAN, EndRound(c, f), UNCHANGED procVars
        PROVE  Taken' /\ \A d \in CPU : Search(d)'
    BY <1>1, SearchEndRound DEF procVars
  <1>2. CASE Interrupt(c) \/ ScanEmpty(c) \/ PickLost(c)
    BY <1>1, <1>2, Zenon DEF Interrupt, ScanEmpty, PickLost
  <1>3. CASE RoundRobinEnd(c)
    <2>1. found[c] \in BOOLEAN
      BY <1>0, Types
    <2> QED
      BY <1>1, <1>3, <2>1 DEF RoundRobinEnd
  <1>4. CASE RoundRobinRun(c)
    <2>1. i[c] \in Slot
      BY <1>0, <1>4, InTable DEF RoundRobinRun
    <2> QED
      BY <1>4, <2>1, SearchRun DEF RoundRobinRun
  <1>5. CASE Pick(c)
    <2>1. best[c] \in Slot /\ best[c] # Null
      BY <1>0, <1>5, CpuTypes DEF Pick, Chosen
    <2> QED
      BY <1>5, <2>1, SearchRun DEF Pick, Chosen
  <1>6. CASE RoundRobinSkip(c) \/ FifoLook(c) \/ KeyLook(c) \/ ScanNoHint(c)
    BY <1>6, SearchSkip, SearchFifoLook, SearchKeyLook, SearchNoHint
  <1>7. ASSUME NEW burst \in Bursts, Back(c, burst)
        PROVE  Taken' /\ \A d \in CPU : Search(d)'
    BY <1>7, SearchBack
  <1> QED
    BY <1>2, <1>3, <1>4, <1>5, <1>6, <1>7, Zenon DEF SchedulerStep

LEMMA SchedInvNext == SchedInv /\ [Next]_vars => SchedInv'
  <1> SUFFICES ASSUME SchedInv, [Next]_vars PROVE SchedInv'
    OBVIOUS
  <1>0. TypeOK /\ Clock
    BY DEF SchedInv
  <1>1. ASSUME NEW p \in Slot, Wakeup(p) \/ ForkRun(p) \/ Reap(p)
        PROVE  SchedInv'
    BY <1>0, <1>1, TypesProgram, SearchCalls DEF SchedInv
  <1>2. ASSUME NEW c \in CPU, NEW p \in Slot, ProcessStep(c, p)
        PROVE  SchedInv'
    <2>1. TypeOK' /\ Clock'
      BY <1>0, <1>2, TypesProgram
    <2>2. Taken' /\ \A d \in CPU : Search(d)'
      BY <1>2, SearchCalls, SearchGivesUp, Zenon DEF ProcessStep
    <2> QED
      BY <2>1, <2>2 DEF SchedInv
  <1>3. ASSUME NEW c \in CPU, SchedulerStep(c)
        PROVE  SchedInv'
    BY <1>3, TypesScheduler, SearchScheduler DEF SchedInv
  <1>4. CASE UNCHANGED vars
    <2>1. UNCHANGED <<policy, state, pid, ctime, expected_runtime, time_left, nextpid,
                      clock, pc, proc, i, found, best, best_key, best_ctime, best_pid,
                      cand, reused>>
      BY <1>4 DEF vars, procVars, cpuVars, bestVars, histVars
    <2>2. TypeOK' /\ Clock'
      BY <1>0, <2>1 DEF TypeOK, Clock
    <2>3. Taken'
      BY <2>1 DEF SchedInv, Taken
    <2>4. ASSUME NEW d \in CPU
          PROVE  Search(d)'
      <3>1. Search(d) /\ \A q \in cand[d] : state[q] = "RUNNABLE"
        BY DEF SchedInv, Search
      <3>2. \A q \in cand[d] : Key(q)' = Key(q) /\ (~Locked(q) => ~Locked(q)')
        BY <2>1 DEF Key, Locked
      <3> QED
        BY <1>0, <2>1, <3>1, <3>2, SearchKept
    <2> QED
      BY <2>2, <2>3, <2>4 DEF SchedInv
  <1> QED
    BY <1>1, <1>2, <1>3, <1>4, Zenon DEF Next

LEMMA SchedInvHolds == Spec => []SchedInv
  <1>1. Init => SchedInv
    BY TypesInit, SearchInit DEF SchedInv
  <1> QED
    BY <1>1, SchedInvNext, PTL DEF Spec
-----------------------------------------------------------------------------
(* Where a CPU leaves its scan *)

(* At the end of a scan every candidate has been looked at. *)
LEMMA ScanComplete ==
    ASSUME SchedInv, NEW c \in CPU, pc[c] = "scan", i[c] > NPROC, NEW q \in cand[c]
    PROVE  Beaten(c, q)
  <1>0. TypeOK /\ Scanned(c)
    BY DEF SchedInv, Search
  <1>1. q \in Nat /\ q <= NPROC /\ i[c] \in Nat /\ NPROC \in Nat
    BY <1>0, CpuTypes, SlotTypes, Table, Zenon
  <1>2. q < i[c]
    BY <1>1
  <1> QED
    BY <1>0, <1>2 DEF Scanned

(* Only a CPU itself, or the process on it, changes what it does. *)
LEMMA OwnStep ==
    ASSUME TypeOK, [Next]_vars, NEW c \in CPU, pc'[c] # pc[c]
    PROVE  \/ SchedulerStep(c)
           \/ Running(c, proc[c]) /\ pc'[c] = "back"
  <1>1. ~UNCHANGED pc
    OBVIOUS
  <1>2. PICK d \in CPU : SchedulerStep(d) \/ \E p \in Slot : ProcessStep(d, p)
    BY <1>1 DEF Next, vars, cpuVars, Wakeup, ForkRun, Reap
  <1>3. ASSUME d # c
        PROVE  FALSE
    <2>1. ASSUME NEW l, pc' = [pc EXCEPT ![d] = l]
          PROVE  pc'[c] = pc[c]
      BY <1>3, <2>1, Types
    <2>2. CASE SchedulerStep(d)
      BY <1>1, <2>1, <2>2, Zenon
         DEF SchedulerStep, Interrupt, RoundRobinSkip, RoundRobinRun, RoundRobinEnd,
             FifoLook, KeyLook, ScanEmpty, ScanNoHint, Pick, PickLost, Back, Run, EndRound
    <2>3. CASE \E p \in Slot : ProcessStep(d, p)
      BY <1>1, <2>1, <2>3, Zenon
         DEF ProcessStep, GiveUp, Exit, SetExpected, SetStcfVals, Fork, cpuVars
    <2> QED
      BY <1>2, <2>2, <2>3
  <1>4. ASSUME NEW p \in Slot, ProcessStep(c, p)
        PROVE  Running(c, proc[c]) /\ pc'[c] = "back"
    <2>1. \/ \E st \in {"RUNNABLE", "SLEEPING"} : GiveUp(c, p, st)
          \/ \E burst \in Bursts : Exit(c, p, burst)
      BY <1>1, <1>4, Zenon DEF ProcessStep, SetExpected, SetStcfVals, Fork, cpuVars
    <2> QED
      BY <2>1, Types DEF GiveUp, Exit, Running
  <1> QED
    BY <1>2, <1>3, <1>4

(* From the scan of c to a process or to round robin *)
LEMMA LeavesScan ==
    ASSUME TypeOK, [Next]_vars, NEW c \in CPU, pc[c] = "scan"
    PROVE  (pc'[c] = "run" => Pick(c)) /\ (pc'[c] = "rr" => policy = "RR" \/ ScanNoHint(c))
  <1> SUFFICES ASSUME pc'[c] \in {"run", "rr"}
               PROVE  (pc'[c] = "run" => Pick(c))
                        /\ (pc'[c] = "rr" => policy = "RR" \/ ScanNoHint(c))
    OBVIOUS
  <1>1. SchedulerStep(c)
    BY OwnStep DEF Running
  <1>2. ASSUME NEW f, EndRound(c, f)
        PROVE  pc'[c] = "rr" /\ policy = "RR"
    <2>1. pc'[c] = IF f THEN FirstStep ELSE "wfi"
      BY <1>2, Types DEF EndRound
    <2> QED
      BY <2>1 DEF FirstStep
  <1>3. CASE ScanNoHint(c) \/ Pick(c)
    BY <1>3, Types DEF ScanNoHint, Pick, Run
  <1>4. CASE ScanEmpty(c) \/ PickLost(c)
    BY <1>2, <1>4, Zenon DEF ScanEmpty, PickLost
  <1> QED
    BY <1>1, <1>3, <1>4
       DEF SchedulerStep, Interrupt, RoundRobinSkip, RoundRobinRun, RoundRobinEnd,
           FifoLook, KeyLook, Back

(* From anywhere else to wfi *)
LEMMA GoesIdle ==
    ASSUME TypeOK, [Next]_vars, NEW c \in CPU, pc[c] # "wfi", pc'[c] = "wfi"
    PROVE  RoundRobinEnd(c) \/ ScanEmpty(c) \/ (PickLost(c) /\ policy # "STCF")
  <1>1. SchedulerStep(c)
    BY OwnStep
  <1>2. ~EndRound(c, TRUE)
    <2>1. EndRound(c, TRUE) => pc'[c] = FirstStep
      BY Types DEF EndRound
    <2> QED
      BY <2>1 DEF FirstStep
  <1>3. ~RoundRobinRun(c) /\ ~Pick(c) /\ ~ScanNoHint(c)
    BY Types DEF RoundRobinRun, Pick, Run, ScanNoHint
  <1>4. ~\E burst \in Bursts : Back(c, burst)
    BY <1>2, Types DEF Back
  <1>5. ~Interrupt(c) /\ ~RoundRobinSkip(c) /\ ~FifoLook(c) /\ ~KeyLook(c)
    BY Zenon DEF Interrupt, RoundRobinSkip, FifoLook, KeyLook
  <1>6. PickLost(c) => policy # "STCF"
    BY <1>2 DEF PickLost
  <1> QED
    BY <1>1, <1>3, <1>4, <1>5, <1>6, Zenon DEF SchedulerStep
-----------------------------------------------------------------------------
(* The theorems *)

(* Every word of the process table and of a scan keeps its range, however  *)
(* long a process runs: time_left wraps around within uint64.              *)
THEOREM SchedTypes == Spec => []TypeOK
  <1>1. SchedInv => TypeOK
    BY DEF SchedInv
  <1> QED
    BY <1>1, SchedInvHolds, PTL


(* The choice of schedule_fifo(), schedule_sjf() and schedule_stcf() is    *)
(* the right one although other CPUs take, end and create processes during *)
(* the scan, and they fall back to schedule_rr() only with no hint to go   *)
(* by.                                                                     *)
THEOREM SelectionIsSound == Spec => SelectionSound
  <1> DEFINE A == \A c \in CPU : pc[c] = "scan" =>
                    /\ pc'[c] = "run" /\ Undisturbed(c) =>
                         \A q \in cand[c] : ~Before(q, best[c])
                    /\ pc'[c] = "rr" => \A q \in cand[c] : Hintless(q)
  <1>1. SchedInv /\ [Next]_vars => A
    <2> SUFFICES ASSUME SchedInv, [Next]_vars, NEW c \in CPU, pc[c] = "scan",
                        NEW q \in cand[c]
                 PROVE  /\ pc'[c] = "run" /\ Undisturbed(c) => ~Before(q, best[c])
                        /\ pc'[c] = "rr" => Hintless(q)
      OBVIOUS
    <2>0. TypeOK /\ Scanned(c) /\ policy # "RR"
      BY DEF SchedInv, Search, Scanned
    <2>1. q \in Slot /\ ctime[q] \in Nat /\ Key(q) \in Nat /\ Key(q) \in 0 .. NoHint
      BY <2>0, CpuTypes, SlotTypes
    <2>2. ASSUME pc'[c] = "run", Undisturbed(c)
          PROVE  ~Before(q, best[c])
      <3>1. i[c] > NPROC /\ best[c] # Null
        BY <2>0, <2>2, LeavesScan DEF Pick, Chosen
      <3>2. Beaten(c, q)
        BY <3>1, ScanComplete
      <3>3. CASE policy = "FIFO"
        <4>1. ctime[best[c]] <= ctime[q]
          BY <2>2, <3>2, <3>3 DEF Beaten, Undisturbed
        <4>2. ctime[best[c]] \in Nat
          BY <2>0, <3>1, CpuTypes, SlotTypes
        <4>3. ~(ctime[q] < ctime[best[c]])
          BY <2>1, <4>1, <4>2, Earlier, Zenon
        <4> QED
          BY <3>3, <4>3 DEF Before
      <3>4. CASE policy # "FIFO"
        <4>1. Remembered(c)
          BY <2>0, <2>2, <3>4 DEF Scanned, Undisturbed
        <4> QED
          BY <3>2, <3>4, <4>1 DEF Beaten, Remembered, Before
      <3> QED
        BY <3>3, <3>4
    <2>3. ASSUME pc'[c] = "rr"
          PROVE  Hintless(q)
      <3>1. i[c] > NPROC /\ policy # "FIFO" /\ best_key[c] = NoHint
        BY <2>0, <2>3, LeavesScan DEF ScanNoHint
      <3>2. ~(Key(q) < NoHint)
        BY <3>1, ScanComplete DEF Beaten, Less
      <3>3. Key(q) = NoHint
        BY <2>1, <3>2, Words
      <3>4. policy \in {"SJF", "STCF"}
        <4>1. policy \in {"RR", "FIFO", "SJF", "STCF"}
          BY <2>0, Types, SchedAssumption, Zenon
        <4> QED
          BY <2>0, <3>1, <4>1
      <3>5. expected_runtime[q] # NoHint
        <4>1. expected_runtime[q] \in 0 .. NoHint - 1
          BY <2>0, <2>1, Types
        <4> QED
          BY <4>1, Words
      <3> QED
        BY <3>3, <3>4, <3>5 DEF Key, Hintless
    <2> QED
      BY <2>2, <2>3
  <1> QED
    BY <1>1, SchedInvHolds, PTL DEF Spec, SelectionSound

(* scheduler() executes wfi only when the scan met no process that was     *)
(* RUNNABLE throughout, or when schedule_fifo() or schedule_sjf() lost the *)
(* process it chose to another CPU.                                        *)
THEOREM StopsIdleOrLost == Spec => WfiIdleOrLost
  <1> DEFINE A == \A c \in CPU : pc[c] # "wfi" /\ pc'[c] = "wfi" =>
                    \/ cand[c] = {}
                    \/ policy \in {"FIFO", "SJF"} /\ Chosen(c) /\ state[best[c]] # "RUNNABLE"
  <1>1. SchedInv /\ [Next]_vars => A
    <2> SUFFICES ASSUME SchedInv, [Next]_vars, NEW c \in CPU, pc[c] # "wfi",
                        pc'[c] = "wfi"
                 PROVE  \/ cand[c] = {}
                        \/ policy \in {"FIFO", "SJF"} /\ Chosen(c) /\ state[best[c]] # "RUNNABLE"
      OBVIOUS
    <2>0. TypeOK /\ Search(c)
      BY DEF SchedInv
    <2>1. CASE RoundRobinEnd(c)
      <3>1. pc[c] = "rr" /\ i[c] > NPROC /\ \A q \in cand[c] : ~(q < i[c])
        BY <2>0, <2>1 DEF RoundRobinEnd, Search, Rounds
      <3>2. /\ i[c] \in Nat /\ NPROC \in Nat
            /\ \A q \in cand[c] : q \in Nat /\ q <= NPROC
        BY <2>0, CpuTypes, SlotTypes, Table
      <3>3. \A q \in cand[c] : q < i[c]
        BY <3>1, <3>2, PastTheEnd, Zenon
      <3> QED
        BY <3>1, <3>3, Zenon
    <2>2. CASE ScanEmpty(c)
      <3>1. \A q \in cand[c] : Beaten(c, q)
        BY <2>2, ScanComplete DEF ScanEmpty
      <3> QED
        BY <2>2, <3>1 DEF Beaten, ScanEmpty
    <2>3. CASE PickLost(c) /\ policy # "STCF"
      <3>1. policy # "RR"
        BY <2>0, <2>3 DEF PickLost, Chosen, Search, Scanned
      <3>2. policy \in {"FIFO", "SJF"}
        <4>1. policy \in {"RR", "FIFO", "SJF", "STCF"}
          BY <2>0, Types, SchedAssumption, Zenon
        <4> QED
          BY <2>3, <3>1, <4>1
      <3> QED
        BY <2>3, <3>2 DEF PickLost
    <2> QED
      BY <2>0, <2>1, <2>2, <2>3, GoesIdle
  <1> QED
    BY <1>1, SchedInvHolds, PTL DEF Spec, WfiIdleOrLost
=============================================================================
