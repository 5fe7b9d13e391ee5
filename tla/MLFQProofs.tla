----------------------------- MODULE MLFQProofs -----------------------------
(***************************************************************************)
(* The search of schedule_mlfq() holds the locks it should and finds the   *)
(* right process, for any number of CPUs, slots and levels.                *)
(***************************************************************************)
EXTENDS MLFQ, FiniteSetTheorems, TLAPS

(* MinHeld, slot by slot *)
Held ==
    \A c \in CPU : \A p \in Slot :
        lock[p] = c <=> p = min_p[c] \/ (pc[c] = "back" /\ p = proc[c])

Best ==
    \A c \in CPU : min_p[c] # Null =>
        /\ pc[c] = "scan" /\ min_p[c] < i[c]
        /\ state[min_p[c]] = "RUNNABLE" /\ queue_level[min_p[c]] = prty[c]

(* A running process is on one CPU. *)
Running ==
    /\ \A c \in CPU : pc[c] \in {"run", "back"} => proc[c] # Null
    /\ \A c \in CPU : pc[c] = "run" => state[proc[c]] = "RUNNING"
    /\ \A c, d \in CPU : pc[c] = "run" /\ pc[d] = "run" /\ proc[c] = proc[d] => c = d

(* How far the search of c has come: no candidate is on a level searched   *)
(* already, and none behind i on this level is better than min_p.          *)
Searched(c) ==
    /\ pc[c] # "scan" => cand[c] = {} /\ prty[c] = 0
    /\ \A q \in cand[c] :
          /\ state[q] = "RUNNABLE"
          /\ queue_level[q] >= prty[c]
          /\ queue_level[q] = prty[c] /\ q < i[c] =>
                min_p[c] # Null /\ ltime[q] >= ltime[min_p[c]]

SearchInv == TypeOK /\ Held /\ Best /\ Running /\ \A c \in CPU : Searched(c)
-----------------------------------------------------------------------------
(* Types *)

LEMMA TableFacts ==
    /\ NPROC \in Nat \ {0} /\ NLEVEL \in Nat \ {0}
    /\ Slot \subseteq Nat /\ 0 \notin Slot /\ initproc \in Slot
    /\ \A p \in Slot : p <= NPROC /\ p + 1 \in 1 .. NPROC + 1
    /\ \A k \in 1 .. NPROC + 1 : k <= NPROC => k \in Slot
    /\ Level \subseteq Nat /\ 0 \in Level /\ \A l \in Level : l < NLEVEL
    /\ 1 \in 1 .. NPROC + 1
    /\ Null = 0 /\ Null \notin CPU
  BY MLFQAssumption DEF Slot, Level, initproc, Null

States == {"UNUSED", "SLEEPING", "RUNNABLE", "RUNNING", "ZOMBIE"}

LEMMA SearchTypes ==
    ASSUME TypeOK
    PROVE  /\ state \in [Slot -> States]
           /\ queue_level \in [Slot -> Level] /\ ltime \in [Slot -> 0 .. NPROC]
           /\ lock \in [Slot -> CPU \cup {Null}]
           /\ pc \in [CPU -> {"clean", "scan", "run", "back", "wfi"}]
           /\ proc \in [CPU -> Slot \cup {Null}] /\ min_p \in [CPU -> Slot \cup {Null}]
           /\ i \in [CPU -> 1 .. NPROC + 1] /\ prty \in [CPU -> Level]
           /\ found \in [CPU -> BOOLEAN] /\ cand \in [CPU -> SUBSET Slot]
  BY DEF TypeOK, States

(* The same, slot by slot and CPU by CPU *)
LEMMA SlotTypes ==
    ASSUME TypeOK, NEW q \in Slot
    PROVE  /\ q \in Nat /\ q # 0 /\ q <= NPROC /\ ltime[q] \in Nat
           /\ queue_level[q] \in Nat /\ queue_level[q] < NLEVEL
  <1>1. queue_level[q] \in Level /\ ltime[q] \in 0 .. NPROC
    BY SearchTypes
  <1>2. /\ q \in Nat /\ q # 0 /\ q <= NPROC /\ NPROC \in Nat
        /\ \A l \in Level : l \in Nat /\ l < NLEVEL
    BY TableFacts
  <1> QED
    BY <1>1, <1>2

LEMMA CpuTypes ==
    ASSUME TypeOK, NEW c \in CPU
    PROVE  /\ prty[c] \in Nat /\ i[c] \in Nat /\ cand[c] \subseteq Slot
           /\ min_p[c] # Null => min_p[c] \in Slot
           /\ proc[c] # Null => proc[c] \in Slot
  <1>1. prty[c] \in Level /\ i[c] \in 1 .. NPROC + 1
    BY SearchTypes
  <1>2. NPROC \in Nat /\ \A l \in Level : l \in Nat
    BY TableFacts
  <1>3. prty[c] \in Nat /\ i[c] \in Nat
    BY <1>1, <1>2
  <1>4. /\ cand[c] \subseteq Slot
        /\ min_p[c] \in Slot \cup {Null} /\ proc[c] \in Slot \cup {Null}
    BY SearchTypes
  <1> QED
    BY <1>3, <1>4

LEMMA Candidates ==
    ASSUME TypeOK, NEW c \in CPU, Searched(c)
    PROVE  \A q \in cand[c] : /\ q \in Slot /\ state[q] = "RUNNABLE"
                              /\ queue_level[q] \in Nat
  <1>1. \A q \in cand[c] : state[q] = "RUNNABLE"
    BY DEF Searched
  <1> QED
    BY <1>1, SlotTypes, CpuTypes, Zenon

LEMMA SlotFinite ==
    ASSUME NEW p \in Slot
    PROVE  /\ IsFiniteSet(Slot \ {p})
           /\ Cardinality(Slot \ {p}) = NPROC - 1
           /\ NPROC - 1 \in Nat
  <1>1. 1 \in Int /\ NPROC \in Int /\ 1 <= NPROC
    BY TableFacts
  <1>2. IsFiniteSet(1 .. NPROC) /\ Cardinality(1 .. NPROC) = NPROC - 1 + 1
    BY <1>1, FS_Interval
  <1>3. IsFiniteSet(Slot) /\ Cardinality(Slot) = NPROC
    BY <1>1, <1>2 DEF Slot
  <1>4. IsFiniteSet(Slot \ {p}) /\ Cardinality(Slot \ {p}) = Cardinality(Slot) - 1
    BY <1>3, FS_RemoveElement
  <1> QED
    BY <1>1, <1>3, <1>4

(* Latest(p) renumbers the times: p comes last, the others keep their      *)
(* order.                                                                  *)
LEMMA LatestFacts ==
    ASSUME ltime \in [Slot -> 0 .. NPROC], NEW p \in Slot
    PROVE  /\ Latest(p) \in [Slot -> 0 .. NPROC]
           /\ \A q, r \in Slot \ {p} :
                 ltime[q] >= ltime[r] => Latest(p)[q] >= Latest(p)[r]
  <1> DEFINE older(q) == {r \in Slot \ {p} : 0 < ltime[r] /\ ltime[r] <= ltime[q]}
             S == {r \in Slot \ {p} : ltime[r] > 0}
  <1>1. NPROC \in Nat /\ NPROC - 1 \in Nat /\ \A q \in Slot : ltime[q] \in Nat
    BY TableFacts
  <1>2. ASSUME NEW T, T \subseteq Slot \ {p}
        PROVE  IsFiniteSet(T) /\ Cardinality(T) \in Nat /\ Cardinality(T) <= NPROC - 1
    <2>1. IsFiniteSet(Slot \ {p}) /\ Cardinality(Slot \ {p}) = NPROC - 1
      BY SlotFinite
    <2>2. IsFiniteSet(T) /\ Cardinality(T) <= Cardinality(Slot \ {p})
      BY <1>2, <2>1, FS_Subset
    <2> QED
      BY <2>1, <2>2, FS_CardinalityType
  <1>3. ASSUME NEW q \in Slot
        PROVE  /\ IsFiniteSet(older(q)) /\ Cardinality(older(q)) \in Nat
               /\ Cardinality(older(q)) <= NPROC - 1
    <2>1. older(q) \subseteq Slot \ {p}
      OBVIOUS
    <2> QED
      BY <1>2, <2>1
  <1>4. Cardinality(S) \in Nat /\ Cardinality(S) <= NPROC - 1
    BY <1>2
  <1>5. Latest(p) = [q \in Slot |-> IF q = p THEN 1 + Cardinality(S)
                                    ELSE Cardinality(older(q))]
    BY DEF Latest
  <1>6. ASSUME NEW q \in Slot \ {p}, NEW r \in Slot \ {p}, ltime[q] >= ltime[r]
        PROVE  Cardinality(older(q)) >= Cardinality(older(r))
    <2>1. older(r) \subseteq older(q)
      BY <1>1, <1>6
    <2>2. Cardinality(older(r)) <= Cardinality(older(q))
      BY <1>3, <2>1, FS_Subset
    <2> QED
      BY <1>3, <2>2
  <1> HIDE DEF older, S
  <1>7. Latest(p) \in [Slot -> 0 .. NPROC]
    BY <1>1, <1>3, <1>4, <1>5
  <1> QED
    BY <1>5, <1>6, <1>7

LEMMA TypesInit == Init => TypeOK
  BY TableFacts DEF Init, TypeOK

LEMMA TypesProgram ==
    ASSUME TypeOK, Running,
           \/ \E c \in CPU : \E st \in {"RUNNABLE", "SLEEPING", "ZOMBIE"} : GiveUp(c, st)
           \/ \E c \in CPU, q \in Slot : Fork(c, q)
           \/ \E p \in Slot : Wakeup(p) \/ Reap(p)
    PROVE  TypeOK'
  <1>1. ASSUME NEW c \in CPU, NEW st \in {"RUNNABLE", "SLEEPING", "ZOMBIE"}, GiveUp(c, st)
        PROVE  TypeOK'
    <2>1. /\ state' \in [Slot -> States] /\ lock' \in [Slot -> CPU \cup {Null}]
          /\ pc' \in [CPU -> {"clean", "scan", "run", "back", "wfi"}]
      <3>1. st \in States /\ c \in CPU \cup {Null}
        BY DEF States
      <3>2. state' \in [Slot -> States] /\ lock' \in [Slot -> CPU \cup {Null}]
        BY <1>1, <3>1, SearchTypes, Zenon DEF GiveUp
      <3>3. pc' \in [CPU -> {"clean", "scan", "run", "back", "wfi"}]
        BY <1>1, SearchTypes DEF GiveUp
      <3> QED
        BY <3>2, <3>3
    <2>2. <<queue_level, ltime, proc, i, prty, min_p, found, cand>>'
            = <<queue_level, ltime, proc, i, prty, min_p, found, cand>>
      BY <1>1 DEF GiveUp
    <2> QED
      BY <2>1, <2>2 DEF TypeOK, States
  <1>2. ASSUME NEW q \in Slot, Reap(q) \/ \E c \in CPU : Fork(c, q)
        PROVE  TypeOK'
    <2>1. /\ state' \in [Slot -> States] /\ queue_level' \in [Slot -> Level]
          /\ ltime' \in [Slot -> 0 .. NPROC]
      BY <1>2, SearchTypes, TableFacts DEF Fork, Reap, States
    <2>2. <<lock, pc, proc, i, prty, min_p, found, cand>>'
            = <<lock, pc, proc, i, prty, min_p, found, cand>>
      BY <1>2 DEF Fork, Reap, cpuVars
    <2> QED
      BY <2>1, <2>2 DEF TypeOK, States
  <1>3. ASSUME NEW p \in Slot, Wakeup(p)
        PROVE  TypeOK'
    <2>1. state' \in [Slot -> States]
      BY <1>3, SearchTypes DEF Wakeup, States
    <2>2. <<queue_level, ltime, lock, pc, proc, i, prty, min_p, found, cand>>'
            = <<queue_level, ltime, lock, pc, proc, i, prty, min_p, found, cand>>
      BY <1>3 DEF Wakeup, cpuVars
    <2> QED
      BY <2>1, <2>2 DEF TypeOK, States
  <1> QED
    BY <1>1, <1>2, <1>3

LEMMA TypesScan ==
    ASSUME TypeOK, NEW c \in CPU,
           (\E waited \in BOOLEAN : Clean(c, waited)) \/ CleanEnd(c) \/ Look(c) \/ LevelEmpty(c)
    PROVE  TypeOK'
  <1>1. ASSUME NEW waited \in BOOLEAN, Clean(c, waited)
        PROVE  TypeOK'
    <2>1. i[c] \in Slot
      BY <1>1, SearchTypes, TableFacts DEF Clean
    <2>2. \A l \in Level : l > 0 => l - 1 \in Level
      BY TableFacts DEF Level
    <2>3. queue_level' \in [Slot -> Level]
      BY <1>1, <2>1, <2>2, SearchTypes DEF Clean
    <2>4. i' \in [CPU -> 1 .. NPROC + 1]
      BY <1>1, <2>1, SearchTypes, TableFacts DEF Clean
    <2>5. cand' \in [CPU -> SUBSET Slot]
      BY <1>1, SearchTypes DEF Clean
    <2>6. <<state, ltime, lock, pc, proc, prty, min_p, found>>'
            = <<state, ltime, lock, pc, proc, prty, min_p, found>>
      BY <1>1 DEF Clean
    <2> QED
      BY <2>3, <2>4, <2>5, <2>6 DEF TypeOK
  <1>2. CASE CleanEnd(c)
    <2>1. /\ pc' \in [CPU -> {"clean", "scan", "run", "back", "wfi"}]
          /\ i' \in [CPU -> 1 .. NPROC + 1]
      BY <1>2, SearchTypes, TableFacts DEF CleanEnd
    <2>2. cand' \in [CPU -> SUBSET Slot]
      BY <1>2, SearchTypes DEF CleanEnd
    <2>3. <<state, queue_level, ltime, lock, proc, prty, min_p, found>>'
            = <<state, queue_level, ltime, lock, proc, prty, min_p, found>>
      BY <1>2 DEF CleanEnd, procVars
    <2> QED
      BY <2>1, <2>2, <2>3 DEF TypeOK
  <1>3. CASE Look(c)
    <2>1. i[c] \in Slot
      BY <1>3, SearchTypes, TableFacts DEF Look
    <2>2. i' \in [CPU -> 1 .. NPROC + 1]
      BY <1>3, <2>1, SearchTypes, TableFacts DEF Look
    <2>3. lock' \in [Slot -> CPU \cup {Null}]
      BY <1>3, SearchTypes DEF Look
    <2>4. min_p' \in [CPU -> Slot \cup {Null}]
      BY <1>3, <2>1, SearchTypes DEF Look
    <2>5. <<state, queue_level, ltime, pc, proc, prty, found, cand>>'
            = <<state, queue_level, ltime, pc, proc, prty, found, cand>>
      BY <1>3 DEF Look, procVars
    <2> QED
      BY <2>2, <2>3, <2>4, <2>5 DEF TypeOK
  <1>4. CASE LevelEmpty(c)
    <2>1. i' \in [CPU -> 1 .. NPROC + 1]
      BY <1>4, SearchTypes, TableFacts DEF LevelEmpty
    <2>2. \A l \in Level : l + 1 < NLEVEL => l + 1 \in Level
      BY TableFacts DEF Level
    <2>3. prty' \in [CPU -> Level]
      <3>1. prty[c] \in Level /\ 0 \in Level
        BY SearchTypes, TableFacts
      <3>2. PICK l \in Level : prty' = [prty EXCEPT ![c] = l]
        BY <1>4, <2>2, <3>1 DEF LevelEmpty
      <3> QED
        BY <3>2, SearchTypes
    <2>4. /\ pc' \in [CPU -> {"clean", "scan", "run", "back", "wfi"}]
          /\ found' \in [CPU -> BOOLEAN]
      BY <1>4, SearchTypes, Zenon DEF LevelEmpty
    <2>5. cand' \in [CPU -> SUBSET Slot]
      BY <1>4, SearchTypes DEF LevelEmpty
    <2>6. <<state, queue_level, ltime, lock, proc, min_p>>'
            = <<state, queue_level, ltime, lock, proc, min_p>>
      BY <1>4 DEF LevelEmpty, procVars
    <2> QED
      BY <2>1, <2>3, <2>4, <2>5, <2>6 DEF TypeOK
  <1> QED
    BY <1>1, <1>2, <1>3, <1>4

LEMMA TypesRun ==
    ASSUME TypeOK, Running, NEW c \in CPU,
           Run(c) \/ Interrupt(c) \/ \E down \in BOOLEAN : Back(c, down)
    PROVE  TypeOK'
  <1>1. CASE Run(c)
    <2>1. min_p[c] \in Slot
      BY <1>1, SearchTypes DEF Run
    <2>2. ltime' \in [Slot -> 0 .. NPROC]
      BY <1>1, <2>1, SearchTypes, LatestFacts DEF Run
    <2>3. state' \in [Slot -> States] /\ lock' \in [Slot -> CPU \cup {Null}]
      BY <1>1, <2>1, SearchTypes DEF Run, States
    <2>4. /\ pc' \in [CPU -> {"clean", "scan", "run", "back", "wfi"}]
          /\ proc' \in [CPU -> Slot \cup {Null}] /\ min_p' \in [CPU -> Slot \cup {Null}]
      BY <1>1, <2>1, SearchTypes DEF Run
    <2>5. i' \in [CPU -> 1 .. NPROC + 1] /\ prty' \in [CPU -> Level]
      BY <1>1, SearchTypes, TableFacts DEF Run
    <2>6. cand' \in [CPU -> SUBSET Slot]
      BY <1>1, SearchTypes DEF Run
    <2>7. <<queue_level, found>>' = <<queue_level, found>>
      BY <1>1 DEF Run
    <2> QED
      BY <2>2, <2>3, <2>4, <2>5, <2>6, <2>7 DEF TypeOK, States
  <1>2. CASE Interrupt(c)
    <2>1. pc' \in [CPU -> {"clean", "scan", "run", "back", "wfi"}]
      BY <1>2, SearchTypes DEF Interrupt
    <2>2. <<state, queue_level, ltime, lock, proc, i, prty, min_p, found, cand>>'
            = <<state, queue_level, ltime, lock, proc, i, prty, min_p, found, cand>>
      BY <1>2 DEF Interrupt, procVars
    <2> QED
      BY <2>1, <2>2 DEF TypeOK
  <1>3. ASSUME NEW down \in BOOLEAN, Back(c, down)
        PROVE  TypeOK'
    <2>1. \A l \in Level : l + 1 < NLEVEL => l + 1 \in Level
      BY TableFacts DEF Level
    <2>2. queue_level' \in [Slot -> Level]
      <3>1. PICK p \in Slot : p = proc[c]
        BY <1>3, SearchTypes DEF Back, Running
      <3>2. queue_level[p] \in Level /\ queue_level \in [Slot -> Level]
        BY SearchTypes
      <3>3. PICK v \in Level : queue_level' = [queue_level EXCEPT ![p] = v]
        BY <1>3, <2>1, <3>1, <3>2, Zenon DEF Back
      <3> QED
        BY <3>2, <3>3
    <2>3. lock' \in [Slot -> CPU \cup {Null}]
      BY <1>3, SearchTypes, Zenon DEF Back
    <2>4. /\ pc' \in [CPU -> {"clean", "scan", "run", "back", "wfi"}]
          /\ proc' \in [CPU -> Slot \cup {Null}] /\ found' \in [CPU -> BOOLEAN]
      BY <1>3, SearchTypes DEF Back
    <2>5. <<state, ltime, i, prty, min_p, cand>>' = <<state, ltime, i, prty, min_p, cand>>
      BY <1>3 DEF Back
    <2> QED
      BY <2>2, <2>3, <2>4, <2>5 DEF TypeOK
  <1> QED
    BY <1>1, <1>2, <1>3

LEMMA TypesNext == TypeOK /\ Running /\ [Next]_vars => TypeOK'
  <1> SUFFICES ASSUME TypeOK, Running, [Next]_vars PROVE TypeOK'
    OBVIOUS
  <1>1. CASE UNCHANGED vars
    BY <1>1 DEF vars, procVars, cpuVars, TypeOK
  <1>2. CASE Next
    BY <1>2, TypesProgram, TypesScan, TypesRun, Zenon DEF Next, SearchStep
  <1> QED
    BY <1>1, <1>2

-----------------------------------------------------------------------------
(* Locks and candidates *)

LEMMA Unheld ==
    ASSUME Held, NEW p \in Slot, lock[p] = Null
    PROVE  \A d \in CPU : min_p[d] # p /\ ~(pc[d] = "back" /\ proc[d] = p)
  BY TableFacts DEF Held

LEMMA Mine ==
    ASSUME Held, NEW p \in Slot, NEW c \in CPU, lock[p] = c
    PROVE  \A d \in CPU : d # c => min_p[d] # p /\ ~(pc[d] = "back" /\ proc[d] = p)
  BY DEF Held

LEMMA BestOf ==
    ASSUME Best, NEW d \in CPU, min_p[d] # Null
    PROVE  /\ pc[d] = "scan" /\ min_p[d] < i[d]
           /\ state[min_p[d]] = "RUNNABLE" /\ queue_level[min_p[d]] = prty[d]
  BY DEF Best

LEMMA RunningKept ==
    ASSUME Running, state' = state,
           \A d \in CPU : pc'[d] \in {"run", "back"} => pc'[d] = pc[d] /\ proc'[d] = proc[d]
    PROVE  Running'
  <1>1. \A d \in CPU : pc'[d] \in {"run", "back"} => proc'[d] # Null
    BY DEF Running
  <1>2. \A d \in CPU : pc'[d] = "run" => state'[proc'[d]] = "RUNNING"
    BY DEF Running
  <1>3. ASSUME NEW d \in CPU, NEW e \in CPU, pc'[d] = "run", pc'[e] = "run", proc'[d] = proc'[e]
        PROVE  d = e
    <2>1. pc[d] = "run" /\ pc[e] = "run" /\ proc[d] = proc[e]
      BY <1>3
    <2> QED
      BY <2>1 DEF Running
  <1> QED
    BY <1>1, <1>2, <1>3 DEF Running

(* The search of d goes on while others lose candidates, or move some to   *)
(* lower levels, or renumber the times in the same order.                  *)
LEMMA SearchKept ==
    ASSUME TypeOK, TypeOK', NEW d \in CPU, Searched(d),
           pc'[d] = "scan" <=> pc[d] = "scan",
           pc[d] = "scan" => i'[d] = i[d],
           prty'[d] = prty[d], min_p'[d] = min_p[d],
           cand'[d] \subseteq cand[d],
           \A q \in cand'[d] : state'[q] = "RUNNABLE",
           \A q \in cand'[d] : \/ queue_level'[q] = queue_level[q]
                               \/ queue_level'[q] >= queue_level[q],
           \A q \in cand'[d] : min_p[d] # Null /\ ltime[q] >= ltime[min_p[d]] =>
                                  ltime'[q] >= ltime'[min_p[d]]
    PROVE  Searched(d)'
  <1>1. pc'[d] # "scan" => cand'[d] = {} /\ prty'[d] = 0
    BY DEF Searched
  <1>2. ASSUME NEW q \in cand'[d]
        PROVE  /\ state'[q] = "RUNNABLE"
               /\ queue_level'[q] >= prty'[d]
               /\ queue_level'[q] = prty'[d] /\ q < i'[d] =>
                     min_p'[d] # Null /\ ltime'[q] >= ltime'[min_p'[d]]
    <2>1. q \in cand[d] /\ pc[d] = "scan" /\ i'[d] = i[d]
      BY <1>2 DEF Searched
    <2>2. queue_level[q] \in Nat /\ queue_level'[q] \in Nat /\ prty[d] \in Nat
      <3>1. q \in Slot /\ prty[d] \in Nat
        BY <2>1, CpuTypes
      <3>2. queue_level'[q] \in Level
        BY <3>1 DEF TypeOK
      <3>3. queue_level'[q] \in Nat
        BY <3>2, TableFacts, Zenon
      <3> QED
        BY <3>1, <3>3, SlotTypes
    <2>3. /\ queue_level[q] >= prty[d]
          /\ queue_level[q] = prty[d] /\ q < i[d] =>
                min_p[d] # Null /\ ltime[q] >= ltime[min_p[d]]
      BY <2>1 DEF Searched
    <2>4. queue_level'[q] >= queue_level[q]
      BY <1>2, <2>2
    <2>5. queue_level'[q] >= prty'[d] /\ (queue_level'[q] = prty'[d] => queue_level[q] = prty[d])
      BY <2>2, <2>3, <2>4
    <2> QED
      BY <1>2, <2>1, <2>3, <2>5
  <1> QED
    BY <1>1, <1>2 DEF Searched

LEMMA SearchInit == Init => Held /\ Best /\ Running /\ \A c \in CPU : Searched(c)
  <1> SUFFICES ASSUME Init PROVE Held /\ Best /\ Running /\ \A c \in CPU : Searched(c)
    OBVIOUS
  <1>1. /\ \A p \in Slot : lock[p] = Null
        /\ \A c \in CPU : pc[c] = "clean" /\ min_p[c] = Null /\ cand[c] = {} /\ prty[c] = 0
    BY DEF Init
  <1>2. Held
    BY <1>1, TableFacts DEF Held
  <1> QED
    BY <1>1, <1>2 DEF Best, Running, Searched

-----------------------------------------------------------------------------
(* Steps of programs *)

(* fork(), wakeup() and wait() change a process that is neither RUNNABLE   *)
(* nor RUNNING, with its lock.                                             *)
LEMMA SearchProcess ==
    ASSUME SearchInv, TypeOK', NEW q \in Slot,
           Wakeup(q) \/ Reap(q) \/ \E c \in CPU : Fork(c, q)
    PROVE  Held' /\ Best' /\ Running' /\ \A c \in CPU : Searched(c)'
  <1>0. TypeOK /\ Held /\ Best /\ Running /\ \A d \in CPU : Searched(d)
    BY DEF SearchInv
  <1>1. /\ lock[q] = Null /\ state[q] \notin {"RUNNABLE", "RUNNING"}
        /\ <<lock, pc, proc, i, prty, min_p, cand>>' = <<lock, pc, proc, i, prty, min_p, cand>>
    BY DEF Wakeup, Reap, Fork, cpuVars
  <1>2. \A r \in Slot : r # q => /\ state'[r] = state[r] /\ queue_level'[r] = queue_level[r]
                                 /\ ltime'[r] = ltime[r]
    BY <1>0, SearchTypes DEF Wakeup, Reap, Fork
  <1>3. \A d \in CPU : min_p[d] # q /\ min_p[d] \in Slot \cup {Null}
    BY <1>0, <1>1, Unheld, SearchTypes
  <1>4. Held'
    BY <1>0, <1>1 DEF Held
  <1>5. Best'
    BY <1>0, <1>1, <1>2, <1>3 DEF Best
  <1>6. Running'
    <2>1. \A d \in CPU : pc[d] = "run" => state'[proc[d]] = "RUNNING"
      <3>1. \A d \in CPU : pc[d] = "run" =>
               state[proc[d]] = "RUNNING" /\ proc[d] \in Slot /\ proc[d] # q
        BY <1>0, <1>1, SearchTypes DEF Running
      <3> QED
        BY <1>2, <3>1
    <2> QED
      BY <1>0, <1>1, <2>1 DEF Running
  <1>7. ASSUME NEW d \in CPU
        PROVE  Searched(d)'
    <2>1. \A r \in cand[d] : r \in Slot /\ r # q /\ state[r] = "RUNNABLE" /\ queue_level[r] \in Nat
      BY <1>0, <1>1, Candidates
    <2>2. cand'[d] = cand[d] /\ (min_p[d] # Null => min_p[d] \in Slot /\ min_p[d] # q)
      BY <1>1, <1>3
    <2>3. \A r \in cand'[d] : state'[r] = "RUNNABLE" /\ queue_level'[r] = queue_level[r]
      BY <1>2, <2>1, <2>2, Zenon
    <2>4. \A r \in cand'[d] :
             min_p[d] # Null /\ ltime[r] >= ltime[min_p[d]] => ltime'[r] >= ltime'[min_p[d]]
      BY <1>2, <2>1, <2>2, Zenon
    <2>5. /\ pc'[d] = "scan" <=> pc[d] = "scan"
          /\ i'[d] = i[d] /\ prty'[d] = prty[d] /\ min_p'[d] = min_p[d]
          /\ cand'[d] \subseteq cand[d]
      BY <1>1
    <2> QED
      BY <1>0, <2>3, <2>4, <2>5, SearchKept
  <1> QED
    BY <1>4, <1>5, <1>6, <1>7

LEMMA SearchGiveUp ==
    ASSUME SearchInv, TypeOK', NEW c \in CPU, NEW st \in {"RUNNABLE", "SLEEPING", "ZOMBIE"},
           GiveUp(c, st)
    PROVE  Held' /\ Best' /\ Running' /\ \A d \in CPU : Searched(d)'
  <1>0. TypeOK /\ Held /\ Best /\ Running /\ \A d \in CPU : Searched(d)
    BY DEF SearchInv
  <1>1. PICK p \in Slot : p = proc[c]
    BY <1>0, SearchTypes DEF Running, GiveUp
  <1>2. /\ pc[c] = "run" /\ lock[p] = Null /\ state[p] = "RUNNING"
        /\ <<queue_level, ltime, proc, i, prty, min_p, cand>>'
             = <<queue_level, ltime, proc, i, prty, min_p, cand>>
    BY <1>0, <1>1 DEF GiveUp, Running
  <1>3. /\ lock'[p] = c /\ \A q \in Slot : q # p => lock'[q] = lock[q]
        /\ \A q \in Slot : q # p => state'[q] = state[q]
        /\ pc'[c] = "back" /\ \A d \in CPU : d # c => pc'[d] = pc[d]
    BY <1>0, <1>1, SearchTypes DEF GiveUp
  <1>4. \A d \in CPU : min_p[d] # p /\ min_p[d] \in Slot \cup {Null}
    BY <1>0, <1>2, Unheld, SearchTypes
  <1>5. min_p[c] = Null
    BY <1>0, <1>2 DEF Best
  <1>6. Held'
    <2>1. ASSUME NEW d \in CPU, NEW q \in Slot
          PROVE  lock'[q] = d <=> q = min_p[d] \/ (pc'[d] = "back" /\ q = proc[d])
      <3>1. CASE q = p
        <4>1. d # c => ~(pc[d] = "back" /\ proc[d] = p)
          BY <1>0, <1>2, Unheld
        <4> QED
          BY <1>1, <1>3, <1>4, <3>1, <4>1
      <3>2. CASE q # p
        <4>1. lock[q] = d <=> q = min_p[d] \/ (pc[d] = "back" /\ q = proc[d])
          BY <1>0 DEF Held
        <4> QED
          BY <1>1, <1>2, <1>3, <3>2, <4>1
      <3> QED
        BY <3>1, <3>2
    <2> QED
      BY <1>2, <2>1 DEF Held
  <1>7. Best'
    BY <1>0, <1>2, <1>3, <1>4, <1>5 DEF Best
  <1>8. Running'
    <2>1. ASSUME NEW d \in CPU, pc'[d] = "run"
          PROVE  state'[proc[d]] = "RUNNING"
      <3>1. d # c /\ pc[d] = "run"
        BY <1>3, <2>1
      <3>2. proc[d] # p /\ proc[d] \in Slot /\ state[proc[d]] = "RUNNING"
        BY <1>0, <1>1, <1>2, <3>1, SearchTypes DEF Running
      <3> QED
        BY <1>3, <3>2
    <2>2. \A d \in CPU : pc'[d] \in {"run", "back"} => proc[d] # Null
      BY <1>0, <1>2, <1>3 DEF Running
    <2>3. ASSUME NEW d \in CPU, NEW e \in CPU, pc'[d] = "run", pc'[e] = "run", proc[d] = proc[e]
          PROVE  d = e
      <3>1. pc[d] = "run" /\ pc[e] = "run"
        BY <1>3, <2>3
      <3> QED
        BY <1>0, <2>3, <3>1 DEF Running
    <2> QED
      BY <1>2, <2>1, <2>2, <2>3 DEF Running
  <1>9. ASSUME NEW d \in CPU
        PROVE  Searched(d)'
    <2>1. \A q \in cand[d] : q \in Slot /\ q # p /\ state[q] = "RUNNABLE" /\ queue_level[q] \in Nat
      BY <1>0, <1>2, Candidates
    <2>2. cand' = cand /\ queue_level' = queue_level /\ ltime' = ltime
      BY <1>2
    <2>3. \A q \in cand[d] : state'[q] = "RUNNABLE"
      BY <1>3, <2>1
    <2>4. \A q \in cand'[d] :
              /\ state'[q] = "RUNNABLE" /\ queue_level'[q] = queue_level[q]
              /\ min_p[d] # Null /\ ltime[q] >= ltime[min_p[d]] => ltime'[q] >= ltime'[min_p[d]]
      BY <2>2, <2>3, Zenon
    <2>5. /\ pc'[d] = "scan" <=> pc[d] = "scan"
          /\ i'[d] = i[d] /\ prty'[d] = prty[d] /\ min_p'[d] = min_p[d]
          /\ cand'[d] \subseteq cand[d]
      BY <1>2, <1>3
    <2> QED
      BY <1>0, <2>4, <2>5, SearchKept
  <1> QED
    BY <1>6, <1>7, <1>8, <1>9

-----------------------------------------------------------------------------
(* Steps of schedule_mlfq() *)

LEMMA SearchClean ==
    ASSUME SearchInv, TypeOK', NEW c \in CPU, NEW waited \in BOOLEAN, Clean(c, waited)
    PROVE  Held' /\ Best' /\ Running' /\ \A d \in CPU : Searched(d)'
  <1>0. TypeOK /\ Held /\ Best /\ Running /\ \A d \in CPU : Searched(d)
    BY DEF SearchInv
  <1>1. PICK p \in Slot : p = i[c]
    BY <1>0, SearchTypes, TableFacts DEF Clean
  <1>2. /\ pc[c] = "clean" /\ lock[p] = Null
        /\ <<state, ltime, lock, pc, proc, prty, min_p>>'
             = <<state, ltime, lock, pc, proc, prty, min_p>>
    BY <1>1 DEF Clean
  <1>3. /\ \A q \in Slot : q # p => queue_level'[q] = queue_level[q]
        /\ \A d \in CPU : d # c => i'[d] = i[d]
    BY <1>0, <1>1, SearchTypes DEF Clean
  <1>4. /\ \A d \in CPU : cand'[d] \subseteq cand[d]
        /\ queue_level'[p] = queue_level[p] \/ \A d \in CPU : p \notin cand'[d]
    BY <1>0, <1>1, SearchTypes DEF Clean
  <1>5. \A d \in CPU : min_p[d] # p /\ min_p[d] \in Slot \cup {Null}
    BY <1>0, <1>2, Unheld, SearchTypes
  <1>6. Held'
    BY <1>0, <1>2 DEF Held
  <1>7. Best'
    BY <1>0, <1>2, <1>3, <1>5 DEF Best
  <1>8. Running'
    BY <1>0, <1>2, RunningKept
  <1>9. ASSUME NEW d \in CPU
        PROVE  Searched(d)'
    <2>1. \A q \in cand[d] : q \in Slot /\ state[q] = "RUNNABLE" /\ queue_level[q] \in Nat
      BY <1>0, Candidates
    <2>2. \A q \in cand'[d] : queue_level'[q] = queue_level[q]
      BY <1>3, <1>4, <2>1
    <2>3. state' = state /\ ltime' = ltime /\ \A q \in cand'[d] : state[q] = "RUNNABLE"
      BY <1>2, <1>4, <2>1
    <2>4. /\ pc'[d] = "scan" <=> pc[d] = "scan"
          /\ pc[d] = "scan" => i'[d] = i[d]
          /\ prty'[d] = prty[d] /\ min_p'[d] = min_p[d]
          /\ cand'[d] \subseteq cand[d]
      BY <1>2, <1>3, <1>4
    <2> QED
      BY <1>0, <2>2, <2>3, <2>4, SearchKept
  <1> QED
    BY <1>6, <1>7, <1>8, <1>9

(* A step of c that changes only its own place in the search. *)
LEMMA OwnStep ==
    ASSUME SearchInv, TypeOK', NEW c \in CPU,
           <<state, queue_level, ltime>>' = <<state, queue_level, ltime>>,
           \A d \in CPU : d # c =>
              /\ pc'[d] = pc[d] /\ i'[d] = i[d] /\ prty'[d] = prty[d]
              /\ min_p'[d] = min_p[d] /\ cand'[d] = cand[d],
           NEW d \in CPU, d # c
    PROVE  Searched(d)'
  <1>0. TypeOK /\ Searched(d)
    BY DEF SearchInv
  <1>1. \A q \in cand[d] : state[q] = "RUNNABLE" /\ queue_level[q] \in Nat
    BY <1>0, Candidates
  <1>2. \A q \in cand'[d] :
            /\ state'[q] = "RUNNABLE" /\ queue_level'[q] = queue_level[q]
            /\ min_p[d] # Null /\ ltime[q] >= ltime[min_p[d]] => ltime'[q] >= ltime'[min_p[d]]
    BY <1>1
  <1>3. /\ pc'[d] = "scan" <=> pc[d] = "scan"
        /\ i'[d] = i[d] /\ prty'[d] = prty[d] /\ min_p'[d] = min_p[d]
        /\ cand'[d] \subseteq cand[d]
    OBVIOUS
  <1> QED
    BY <1>0, <1>2, <1>3, SearchKept

LEMMA SearchBegins ==
    ASSUME SearchInv, TypeOK', NEW c \in CPU, CleanEnd(c) \/ Interrupt(c)
    PROVE  Held' /\ Best' /\ Running' /\ \A d \in CPU : Searched(d)'
  <1>0. TypeOK /\ Held /\ Best /\ Running /\ Searched(c)
    BY DEF SearchInv
  <1>1. /\ pc[c] \in {"clean", "wfi"}
        /\ <<state, queue_level, ltime, lock, proc, prty, min_p>>'
             = <<state, queue_level, ltime, lock, proc, prty, min_p>>
    BY DEF CleanEnd, Interrupt, procVars
  <1>2. /\ pc'[c] \in {"scan", "clean"}
        /\ \A d \in CPU : d # c => pc'[d] = pc[d] /\ i'[d] = i[d] /\ cand'[d] = cand[d]
    BY <1>0, SearchTypes DEF CleanEnd, Interrupt
  <1>3. /\ pc'[c] # "scan" => cand'[c] = {}
        /\ \A q \in cand'[c] : q \in Slot /\ state[q] = "RUNNABLE" /\ i'[c] = 1
    BY <1>0, SearchTypes DEF CleanEnd, Interrupt, Searched
  <1>4. min_p[c] = Null /\ prty[c] = 0
    BY <1>0, <1>1 DEF Best, Searched
  <1>5. Held'
    <2>1. \A d \in CPU : pc'[d] = "back" <=> pc[d] = "back"
      BY <1>1, <1>2
    <2> QED
      BY <1>0, <1>1, <2>1 DEF Held
  <1>6. Best'
    BY <1>0, <1>1, <1>2, <1>4 DEF Best
  <1>7. Running'
    <2>1. \A d \in CPU : pc'[d] \in {"run", "back"} => d # c /\ pc'[d] = pc[d]
      BY <1>2
    <2> QED
      BY <1>0, <1>1, <2>1, RunningKept
  <1>8. Searched(c)'
    <2>1. ASSUME NEW q \in Slot PROVE queue_level[q] >= 0 /\ ~(q < 1)
      <3>1. q \in Nat /\ q # 0 /\ queue_level[q] \in Nat
        BY <1>0, SlotTypes
      <3> QED
        BY <3>1
    <2>2. prty'[c] = 0 /\ state' = state /\ queue_level' = queue_level
      BY <1>1, <1>4
    <2>3. \A q \in cand'[c] : /\ state'[q] = "RUNNABLE" /\ queue_level'[q] >= prty'[c]
                              /\ ~(q < i'[c])
      BY <1>3, <2>1, <2>2
    <2> QED
      BY <1>3, <2>2, <2>3 DEF Searched
  <1>9. \A d \in CPU : d # c => Searched(d)'
    BY <1>1, <1>2, OwnStep
  <1> QED
    BY <1>5, <1>6, <1>7, <1>8, <1>9

(* The scan passes a slot: it is not a candidate, or on another level, or  *)
(* no better than min_p, or it is the new min_p.                           *)
LEMMA SearchLook ==
    ASSUME SearchInv, TypeOK', NEW c \in CPU, Look(c)
    PROVE  Held' /\ Best' /\ Running' /\ \A d \in CPU : Searched(d)'
  <1>0. TypeOK /\ Held /\ Best /\ Running /\ Searched(c)
    BY DEF SearchInv
  <1>1. PICK p \in Slot : p = i[c]
    BY <1>0, SearchTypes, TableFacts DEF Look
  <1>2. /\ pc[c] = "scan" /\ lock[p] = Null
        /\ <<state, queue_level, ltime, pc, proc, prty, cand>>'
             = <<state, queue_level, ltime, pc, proc, prty, cand>>
    BY <1>1 DEF Look, procVars
  <1>3. i'[c] = p + 1 /\ \A d \in CPU : d # c => i'[d] = i[d]
    BY <1>0, <1>1, SearchTypes DEF Look
  <1>4. \A d \in CPU : min_p[d] # p /\ ~(pc[d] = "back" /\ proc[d] = p)
    BY <1>0, <1>2, Unheld
  <1>5. p \in Nat /\ cand[c] \subseteq Slot /\ \A q \in Slot : q \in Nat /\ ltime[q] \in Nat
    BY <1>0, SlotTypes, CpuTypes
  <1>6. Running'
    BY <1>0, <1>2, RunningKept
  <1>7. CASE /\ queue_level[p] = prty[c] /\ state[p] = "RUNNABLE"
             /\ min_p[c] = Null \/ ltime[p] < ltime[min_p[c]]
    <2>1. /\ lock' = [q \in Slot |-> IF q = p THEN c
                                     ELSE IF q = min_p[c] THEN Null ELSE lock[q]]
          /\ min_p' = [min_p EXCEPT ![c] = p]
      BY <1>1, <1>7 DEF Look
    <2>2. min_p'[c] = p /\ \A d \in CPU : d # c => min_p'[d] = min_p[d]
      BY <1>0, <2>1, SearchTypes
    <2>3. Held'
      <3>1. ASSUME NEW d \in CPU, NEW q \in Slot
            PROVE  lock'[q] = d <=> q = min_p'[d] \/ (pc[d] = "back" /\ q = proc[d])
        <4>1. lock[q] = d <=> q = min_p[d] \/ (pc[d] = "back" /\ q = proc[d])
          BY <1>0 DEF Held
        <4>2. CASE q = p
          BY <1>4, <2>1, <2>2, <4>2
        <4>3. CASE q # p /\ q = min_p[c]
          <5>1. lock[q] = c
            BY <1>0, <4>3 DEF Held
          <5>2. lock'[q] = Null /\ Null # d
            BY <2>1, <4>3, TableFacts
          <5> QED
            BY <1>2, <2>2, <4>1, <4>3, <5>1, <5>2
        <4>4. CASE q # p /\ q # min_p[c]
          BY <1>2, <2>1, <2>2, <4>1, <4>4
        <4> QED
          BY <4>2, <4>3, <4>4
      <3> QED
        BY <1>2, <3>1 DEF Held
    <2>4. Best'
      <3>1. p < i'[c]
        BY <1>3, <1>5
      <3> QED
        BY <1>0, <1>2, <1>3, <1>7, <2>2, <3>1 DEF Best
    <2>5. ASSUME NEW q \in cand[c], queue_level[q] = prty[c], q < p + 1
          PROVE  ltime[q] >= ltime[p]
      <3>1. CASE q = p
        BY <1>5, <3>1
      <3>2. CASE q # p
        <4>0. q \in Slot /\ q \in Nat /\ ltime[q] \in Nat /\ ltime[p] \in Nat
          BY <1>5
        <4>1. q < i[c]
          BY <1>1, <1>5, <2>5, <3>2, <4>0
        <4>2. min_p[c] # Null /\ ltime[q] >= ltime[min_p[c]]
          BY <1>0, <2>5, <4>1 DEF Searched
        <4>3. ltime[p] < ltime[min_p[c]] /\ min_p[c] \in Slot
          BY <1>0, <1>7, <4>2, CpuTypes
        <4>4. ltime[min_p[c]] \in Nat
          BY <1>5, <4>3, Zenon
        <4> QED
          BY <4>0, <4>2, <4>3, <4>4
      <3> QED
        BY <3>1, <3>2
    <2>6. p # Null
      BY TableFacts
    <2>7. Searched(c)'
      BY <1>0, <1>2, <1>3, <2>2, <2>5, <2>6 DEF Searched
    <2>8. \A d \in CPU : d # c => Searched(d)'
      BY <1>2, <1>3, <2>2, OwnStep
    <2> QED
      BY <1>6, <2>3, <2>4, <2>7, <2>8
  <1>8. CASE ~ /\ queue_level[p] = prty[c] /\ state[p] = "RUNNABLE"
               /\ min_p[c] = Null \/ ltime[p] < ltime[min_p[c]]
    <2>1. lock' = lock /\ min_p' = min_p
      BY <1>1, <1>8 DEF Look
    <2>2. Held'
      BY <1>0, <1>2, <2>1 DEF Held
    <2>3. Best'
      <3>1. ASSUME min_p[c] # Null PROVE min_p[c] < i'[c]
        <4>1. min_p[c] \in Slot
          BY <1>0, <3>1, SearchTypes
        <4>2. min_p[c] \in Nat
          BY <1>5, <4>1
        <4>3. min_p[c] < p
          BY <1>0, <1>1, <3>1, BestOf
        <4> QED
          BY <1>3, <1>5, <4>2, <4>3
      <3>2. ASSUME NEW d \in CPU, min_p[d] # Null
            PROVE  /\ pc[d] = "scan" /\ min_p[d] < i'[d]
                   /\ state[min_p[d]] = "RUNNABLE" /\ queue_level[min_p[d]] = prty[d]
        BY <1>0, <1>3, <3>1, <3>2, BestOf, Zenon
      <3> QED
        BY <1>2, <2>1, <3>2 DEF Best
    <2>4. ASSUME NEW q \in cand[c], queue_level[q] = prty[c], q < p + 1
          PROVE  min_p[c] # Null /\ ltime[q] >= ltime[min_p[c]]
      <3>1. CASE q = p
        <4>1. state[p] = "RUNNABLE"
          BY <1>0, <3>1 DEF Searched
        <4>2. min_p[c] # Null /\ ~(ltime[p] < ltime[min_p[c]]) /\ min_p[c] \in Slot
          BY <1>0, <1>8, <2>4, <3>1, <4>1, CpuTypes
        <4>3. ltime[p] \in Nat /\ ltime[min_p[c]] \in Nat
          BY <1>5, <4>2
        <4> QED
          BY <3>1, <4>2, <4>3
      <3>2. CASE q # p
        <4>0. q \in Nat
          BY <1>5
        <4>1. q < i[c]
          BY <1>1, <1>5, <2>4, <3>2, <4>0
        <4> QED
          BY <1>0, <2>4, <4>1 DEF Searched
      <3> QED
        BY <3>1, <3>2
    <2>5. Searched(c)'
      BY <1>0, <1>2, <1>3, <2>1, <2>4 DEF Searched
    <2>6. \A d \in CPU : d # c => Searched(d)'
      BY <1>2, <1>3, <2>1, OwnStep
    <2> QED
      BY <1>6, <2>2, <2>3, <2>5, <2>6
  <1> QED
    BY <1>7, <1>8

(* A level without a candidate is left behind; after the last one there is *)
(* no candidate at all.                                                    *)
LEMMA LevelDone ==
    ASSUME SearchInv, NEW c \in CPU, i[c] > NPROC, min_p[c] = Null, NEW q \in cand[c]
    PROVE  queue_level[q] >= prty[c] + 1 /\ prty[c] + 1 < NLEVEL
  <1>0. TypeOK /\ Searched(c)
    BY DEF SearchInv
  <1>1. q \in Slot /\ prty[c] \in Nat /\ i[c] \in Nat
    BY <1>0, CpuTypes
  <1>2. /\ q \in Nat /\ q <= NPROC
        /\ queue_level[q] \in Nat /\ queue_level[q] < NLEVEL
    BY <1>0, <1>1, SlotTypes
  <1>3. NPROC \in Nat /\ NLEVEL \in Nat
    BY TableFacts
  <1>4. q < i[c]
    BY <1>1, <1>2, <1>3
  <1>5. queue_level[q] >= prty[c] /\ queue_level[q] # prty[c]
    BY <1>0, <1>4 DEF Searched
  <1> QED
    BY <1>1, <1>2, <1>3, <1>5

LEMMA SearchLevel ==
    ASSUME SearchInv, TypeOK', NEW c \in CPU, LevelEmpty(c)
    PROVE  Held' /\ Best' /\ Running' /\ \A d \in CPU : Searched(d)'
  <1>0. TypeOK /\ Held /\ Best /\ Running /\ Searched(c)
    BY DEF SearchInv
  <1>1. /\ pc[c] = "scan" /\ i[c] > NPROC /\ min_p[c] = Null
        /\ <<state, queue_level, ltime, lock, proc, min_p>>'
             = <<state, queue_level, ltime, lock, proc, min_p>>
    BY DEF LevelEmpty, procVars
  <1>2. /\ pc'[c] \in {"scan", "clean", "wfi"} /\ i'[c] = 1
        /\ \A d \in CPU : d # c => /\ pc'[d] = pc[d] /\ i'[d] = i[d] /\ prty'[d] = prty[d]
                                   /\ cand'[d] = cand[d]
    BY <1>0, <1>1, SearchTypes DEF LevelEmpty
  <1>3. Held'
    <2>1. \A d \in CPU : pc'[d] = "back" <=> pc[d] = "back"
      BY <1>1, <1>2
    <2> QED
      BY <1>0, <1>1, <2>1 DEF Held
  <1>4. Best'
    <2>1. ASSUME NEW d \in CPU, min_p[d] # Null
          PROVE  /\ pc'[d] = "scan" /\ min_p[d] < i'[d]
                 /\ state[min_p[d]] = "RUNNABLE" /\ queue_level[min_p[d]] = prty'[d]
      <3>1. d # c /\ pc'[d] = pc[d] /\ i'[d] = i[d] /\ prty'[d] = prty[d]
        BY <1>1, <1>2, <2>1
      <3>2. /\ pc[d] = "scan" /\ min_p[d] < i[d]
            /\ state[min_p[d]] = "RUNNABLE" /\ queue_level[min_p[d]] = prty[d]
        BY <1>0, <2>1, BestOf
      <3> QED
        BY <3>1, <3>2, Zenon
    <2> QED
      BY <1>1, <2>1 DEF Best
  <1>5. Running'
    <2>1. \A d \in CPU : pc'[d] \in {"run", "back"} => d # c /\ pc'[d] = pc[d]
      BY <1>2
    <2> QED
      BY <1>0, <1>1, <2>1, RunningKept
  <1>6. Searched(c)'
    <2>1. CASE prty[c] + 1 < NLEVEL
      <3>1. prty'[c] = prty[c] + 1 /\ pc' = pc /\ cand' = cand
        BY <1>0, <2>1, SearchTypes DEF LevelEmpty
      <3>2. \A q \in cand[c] : /\ state[q] = "RUNNABLE" /\ queue_level[q] >= prty'[c]
                               /\ ~(q < i'[c])
        <4>1. \A q \in cand[c] : q \in Slot
          BY <1>0, CpuTypes
        <4>2. \A q \in cand[c] : q \in Nat /\ q # 0
          BY <1>0, <4>1, SlotTypes
        <4>3. \A q \in cand[c] : ~(q < i'[c])
          BY <1>2, <4>2
        <4>4. \A q \in cand[c] : state[q] = "RUNNABLE" /\ queue_level[q] >= prty'[c]
          BY <1>0, <1>1, <3>1, LevelDone DEF Searched
        <4> QED
          BY <4>3, <4>4
      <3> QED
        BY <1>1, <3>1, <3>2 DEF Searched
    <2>2. CASE ~(prty[c] + 1 < NLEVEL)
      <3>1. prty'[c] = 0 /\ cand'[c] = {}
        BY <1>0, <2>2, SearchTypes DEF LevelEmpty
      <3> QED
        BY <3>1 DEF Searched
    <2> QED
      BY <2>1, <2>2
  <1>7. \A d \in CPU : d # c => Searched(d)'
    BY <1>1, <1>2, OwnStep
  <1> QED
    BY <1>3, <1>4, <1>5, <1>6, <1>7

LEMMA SearchRun ==
    ASSUME SearchInv, TypeOK', NEW c \in CPU, Run(c)
    PROVE  Held' /\ Best' /\ Running' /\ \A d \in CPU : Searched(d)'
  <1>0. TypeOK /\ Held /\ Best /\ Running /\ \A d \in CPU : Searched(d)
    BY DEF SearchInv
  <1>1. PICK p \in Slot : p = min_p[c]
    BY <1>0, SearchTypes DEF Run
  <1>2. /\ pc[c] = "scan" /\ state[p] = "RUNNABLE" /\ lock[p] = c
        /\ ltime' = Latest(p) /\ queue_level' = queue_level
    BY <1>0, <1>1 DEF Run, Held
  <1>3. /\ lock'[p] = Null /\ \A q \in Slot : q # p => lock'[q] = lock[q]
        /\ state'[p] = "RUNNING" /\ \A q \in Slot : q # p => state'[q] = state[q]
    BY <1>0, <1>1, SearchTypes DEF Run
  <1>4. /\ pc'[c] = "run" /\ proc'[c] = p /\ min_p'[c] = Null
        /\ \A d \in CPU : d # c => pc'[d] = pc[d] /\ proc'[d] = proc[d] /\ min_p'[d] = min_p[d]
    BY <1>0, <1>1, SearchTypes DEF Run
  <1>5. /\ prty'[c] = 0 /\ cand'[c] = {}
        /\ \A d \in CPU : d # c => /\ i'[d] = i[d] /\ prty'[d] = prty[d]
                                   /\ cand'[d] = cand[d] \ {p}
    BY <1>0, <1>1, SearchTypes DEF Run
  <1>6. \A d \in CPU : d # c => min_p[d] # p /\ ~(pc[d] = "back" /\ proc[d] = p)
    BY <1>0, <1>2, Mine
  <1>7. Held'
    <2>1. ASSUME NEW d \in CPU, NEW q \in Slot
          PROVE  lock'[q] = d <=> q = min_p'[d] \/ (pc'[d] = "back" /\ q = proc'[d])
      <3>1. lock[q] = d <=> q = min_p[d] \/ (pc[d] = "back" /\ q = proc[d])
        BY <1>0 DEF Held
      <3>2. Null # d /\ Null # q
        BY TableFacts
      <3>3. CASE q = p
        BY <1>3, <1>4, <1>6, <3>2, <3>3
      <3>4. CASE q # p
        BY <1>1, <1>2, <1>3, <1>4, <3>1, <3>2, <3>4
      <3> QED
        BY <3>3, <3>4
    <2> QED
      BY <2>1 DEF Held
  <1>8. Best'
    <2>1. ASSUME NEW d \in CPU, min_p'[d] # Null
          PROVE  /\ pc'[d] = "scan" /\ min_p'[d] < i'[d]
                 /\ state'[min_p'[d]] = "RUNNABLE" /\ queue_level'[min_p'[d]] = prty'[d]
      <3>1. d # c /\ min_p'[d] = min_p[d] /\ min_p[d] # Null
        BY <1>4, <2>1
      <3>2. min_p[d] \in Slot /\ min_p[d] # p
        BY <1>0, <1>6, <3>1, CpuTypes
      <3>3. /\ pc[d] = "scan" /\ min_p[d] < i[d]
            /\ state[min_p[d]] = "RUNNABLE" /\ queue_level[min_p[d]] = prty[d]
        BY <1>0, <3>1, BestOf
      <3> QED
        BY <1>2, <1>3, <1>4, <1>5, <3>1, <3>2, <3>3, Zenon
    <2> QED
      BY <2>1 DEF Best
  <1>9. Running'
    <2>1. \A d \in CPU : d # c /\ pc[d] = "run" => proc[d] # p /\ proc[d] \in Slot
      BY <1>0, <1>2, SearchTypes DEF Running
    <2>2. \A d \in CPU : pc'[d] \in {"run", "back"} => proc'[d] # Null
      BY <1>0, <1>4, TableFacts DEF Running
    <2>3. \A d \in CPU : pc'[d] = "run" => state'[proc'[d]] = "RUNNING"
      BY <1>0, <1>3, <1>4, <2>1 DEF Running
    <2>4. ASSUME NEW d \in CPU, NEW e \in CPU, pc'[d] = "run", pc'[e] = "run", proc'[d] = proc'[e]
          PROVE  d = e
      <3>1. \A a \in CPU : a # c /\ pc'[a] = "run" =>
               pc[a] = "run" /\ proc'[a] = proc[a] /\ proc'[a] # p
        BY <1>4, <2>1
      <3>2. CASE d # c /\ e # c
        <4>1. pc[d] = "run" /\ pc[e] = "run" /\ proc[d] = proc[e]
          BY <2>4, <3>1, <3>2
        <4> QED
          BY <1>0, <4>1 DEF Running
      <3>3. CASE d = c \/ e = c
        BY <1>4, <2>4, <3>1, <3>3
      <3> QED
        BY <3>2, <3>3
    <2> QED
      BY <2>2, <2>3, <2>4 DEF Running
  <1>10. Searched(c)'
    BY <1>5 DEF Searched
  <1>11. ASSUME NEW d \in CPU, d # c
         PROVE  Searched(d)'
    <2>1. \A q \in cand[d] : q \in Slot /\ state[q] = "RUNNABLE" /\ queue_level[q] \in Nat
      BY <1>0, Candidates
    <2>2. \A q \in cand'[d] : q \in cand[d] /\ q # p
      BY <1>5, <1>11
    <2>3. \A q \in cand'[d] : state'[q] = "RUNNABLE" /\ queue_level'[q] = queue_level[q]
      BY <1>2, <1>3, <2>1, <2>2, Zenon
    <2>4. min_p[d] # Null => min_p[d] \in Slot \ {p}
      BY <1>0, <1>6, <1>11, SearchTypes
    <2>5. \A q, r \in Slot \ {p} : ltime[q] >= ltime[r] => ltime'[q] >= ltime'[r]
      BY <1>0, <1>2, LatestFacts, SearchTypes
    <2>6. \A q \in cand'[d] :
            min_p[d] # Null /\ ltime[q] >= ltime[min_p[d]] => ltime'[q] >= ltime'[min_p[d]]
      BY <2>1, <2>2, <2>4, <2>5
    <2>7. /\ pc'[d] = "scan" <=> pc[d] = "scan"
          /\ i'[d] = i[d] /\ prty'[d] = prty[d] /\ min_p'[d] = min_p[d]
          /\ cand'[d] \subseteq cand[d]
      BY <1>4, <1>5, <1>11, <2>2
    <2> QED
      BY <1>0, <2>3, <2>6, <2>7, SearchKept
  <1> QED
    BY <1>7, <1>8, <1>9, <1>10, <1>11

LEMMA SearchBack ==
    ASSUME SearchInv, TypeOK', NEW c \in CPU, NEW down \in BOOLEAN, Back(c, down)
    PROVE  Held' /\ Best' /\ Running' /\ \A d \in CPU : Searched(d)'
  <1>0. TypeOK /\ Held /\ Best /\ Running /\ \A d \in CPU : Searched(d)
    BY DEF SearchInv
  <1>1. PICK p \in Slot : p = proc[c]
    BY <1>0, SearchTypes DEF Back, Running
  <1>2. /\ pc[c] = "back" /\ lock[p] = c
        /\ <<state, ltime, i, prty, min_p, cand>>' = <<state, ltime, i, prty, min_p, cand>>
    BY <1>0, <1>1 DEF Back, Held
  <1>3. /\ lock'[p] = Null /\ \A q \in Slot : q # p => lock'[q] = lock[q]
        /\ \A q \in Slot : q # p => queue_level'[q] = queue_level[q]
    BY <1>0, <1>1, SearchTypes DEF Back
  <1>4. /\ pc'[c] = "clean" /\ \A d \in CPU : d # c => pc'[d] = pc[d] /\ proc'[d] = proc[d]
    BY <1>0, SearchTypes DEF Back
  <1>5. \A q \in Slot : queue_level'[q] >= queue_level[q]
    <2>1. \A q \in Slot : queue_level[q] \in Nat
      BY <1>0, SlotTypes
    <2>2. queue_level'[p] \in {queue_level[p], queue_level[p] + 1}
      BY <1>0, <1>1, SearchTypes DEF Back
    <2>3. queue_level'[p] >= queue_level[p]
      BY <2>1, <2>2
    <2> QED
      BY <1>3, <2>1, <2>3
  <1>6. min_p[c] = Null /\ \A d \in CPU : min_p[d] # p
    <2>1. min_p[c] = Null
      BY <1>0, <1>2 DEF Best
    <2> QED
      BY <1>0, <1>2, <2>1, Mine, TableFacts
  <1>7. Held'
    <2>1. ASSUME NEW d \in CPU, NEW q \in Slot
          PROVE  lock'[q] = d <=> q = min_p'[d] \/ (pc'[d] = "back" /\ q = proc'[d])
      <3>1. lock[q] = d <=> q = min_p[d] \/ (pc[d] = "back" /\ q = proc[d])
        BY <1>0 DEF Held
      <3>2. Null # d /\ Null # q /\ (d # c => ~(pc[d] = "back" /\ proc[d] = p))
        BY <1>0, <1>2, Mine, TableFacts
      <3>3. CASE q = p
        BY <1>2, <1>3, <1>4, <1>6, <3>2, <3>3
      <3>4. CASE q # p
        BY <1>1, <1>2, <1>3, <1>4, <3>1, <3>2, <3>4
      <3> QED
        BY <3>3, <3>4
    <2> QED
      BY <2>1 DEF Held
  <1>8. Best'
    <2>1. ASSUME NEW d \in CPU, min_p[d] # Null
          PROVE  /\ pc'[d] = "scan" /\ min_p[d] < i[d]
                 /\ state[min_p[d]] = "RUNNABLE" /\ queue_level'[min_p[d]] = prty[d]
      <3>1. d # c /\ min_p[d] \in Slot /\ min_p[d] # p
        BY <1>0, <1>6, <2>1, CpuTypes
      <3>2. /\ pc[d] = "scan" /\ min_p[d] < i[d]
            /\ state[min_p[d]] = "RUNNABLE" /\ queue_level[min_p[d]] = prty[d]
        BY <1>0, <2>1, BestOf
      <3> QED
        BY <1>3, <1>4, <3>1, <3>2, Zenon
    <2> QED
      BY <1>2, <2>1 DEF Best
  <1>9. Running'
    <2>1. \A d \in CPU : pc'[d] \in {"run", "back"} =>
             d # c /\ pc'[d] = pc[d] /\ proc'[d] = proc[d]
      BY <1>4
    <2> QED
      BY <1>0, <1>2, <2>1, RunningKept
  <1>10. ASSUME NEW d \in CPU
         PROVE  Searched(d)'
    <2>1. \A q \in cand[d] : q \in Slot /\ state[q] = "RUNNABLE"
      BY <1>0, SearchTypes DEF Searched
    <2>2. /\ state' = state /\ ltime' = ltime /\ cand' = cand
          /\ \A q \in cand'[d] : queue_level'[q] >= queue_level[q]
      BY <1>2, <1>5, <2>1
    <2>3. /\ pc'[d] = "scan" <=> pc[d] = "scan"
          /\ i'[d] = i[d] /\ prty'[d] = prty[d] /\ min_p'[d] = min_p[d]
          /\ cand'[d] \subseteq cand[d]
      BY <1>2, <1>4
    <2> QED
      BY <1>0, <2>1, <2>2, <2>3, SearchKept
  <1> QED
    BY <1>7, <1>8, <1>9, <1>10

LEMMA SearchNext == SearchInv /\ [Next]_vars => SearchInv'
  <1> SUFFICES ASSUME SearchInv, [Next]_vars PROVE SearchInv'
    OBVIOUS
  <1>1. TypeOK'
    BY TypesNext DEF SearchInv
  <1> DEFINE Goal == Held' /\ Best' /\ Running' /\ \A d \in CPU : Searched(d)'
  <1>2. CASE UNCHANGED vars
    <2>1. /\ <<state, queue_level, ltime, lock>>' = <<state, queue_level, ltime, lock>>
          /\ <<pc, proc, i, prty, min_p, cand>>' = <<pc, proc, i, prty, min_p, cand>>
      BY <1>2 DEF vars, procVars, cpuVars
    <2>2. Held' /\ Best'
      BY <2>1 DEF SearchInv, Held, Best
    <2>3. Running'
      BY <2>1 DEF SearchInv, Running
    <2>4. ASSUME NEW c \in CPU PROVE Searched(c)'
      <3>1. Searched(c)
        BY DEF SearchInv
      <3> QED
        BY <2>1, <3>1 DEF Searched
    <2> QED
      BY <1>1, <2>2, <2>3, <2>4 DEF SearchInv
  <1>3. ASSUME NEW c \in CPU, SearchStep(c) PROVE Goal
    BY <1>1, <1>3, SearchClean, SearchBegins, SearchLook, SearchLevel, SearchRun, Zenon
      DEF SearchStep
  <1>4. ASSUME NEW c \in CPU, NEW down \in BOOLEAN, Back(c, down) PROVE Goal
    BY <1>1, <1>4, SearchBack, Zenon
  <1>5. ASSUME NEW c \in CPU, Interrupt(c) PROVE Goal
    BY <1>1, <1>5, SearchBegins, Zenon
  <1>6. ASSUME NEW c \in CPU, NEW st \in {"RUNNABLE", "SLEEPING", "ZOMBIE"}, GiveUp(c, st)
        PROVE  Goal
    BY <1>1, <1>6, SearchGiveUp, Zenon
  <1>7. ASSUME NEW q \in Slot, Wakeup(q) \/ Reap(q) \/ \E c \in CPU : Fork(c, q) PROVE Goal
    BY <1>1, <1>7, SearchProcess, Zenon
  <1>8. CASE Next
    <2>1. Goal
      BY <1>3, <1>4, <1>5, <1>6, <1>7, <1>8, Zenon DEF Next
    <2> QED
      BY <1>1, <2>1 DEF SearchInv
  <1> QED
    BY <1>2, <1>8

LEMMA SearchInvHolds == Spec => []SearchInv
  <1>1. Init => SearchInv
    BY TypesInit, SearchInit DEF SearchInv
  <1> QED
    BY <1>1, SearchNext, PTL DEF Spec

-----------------------------------------------------------------------------
(* Results *)

(* A search ends with a process in Run, and without one in LevelEmpty. *)
LEMMA SearchEnding ==
    ASSUME TypeOK, Next, NEW c \in CPU
    PROVE  /\ pc[c] = "scan" /\ pc'[c] = "run" => i[c] > NPROC /\ min_p[c] # Null
           /\ pc[c] # "wfi" /\ pc'[c] = "wfi" =>
                 i[c] > NPROC /\ min_p[c] = Null /\ ~(prty[c] + 1 < NLEVEL)
  <1> DEFINE Ending ==
         /\ pc[c] = "scan" /\ pc'[c] = "run" => i[c] > NPROC /\ min_p[c] # Null
         /\ pc[c] # "wfi" /\ pc'[c] = "wfi" =>
               i[c] > NPROC /\ min_p[c] = Null /\ ~(prty[c] + 1 < NLEVEL)
  <1>0. pc \in [CPU -> {"clean", "scan", "run", "back", "wfi"}]
    BY DEF TypeOK
  <1>1. ASSUME NEW d \in CPU, SearchStep(d) PROVE Ending
    <2>1. ASSUME NEW waited \in BOOLEAN, Clean(d, waited) PROVE Ending
      BY <2>1 DEF Clean
    <2>2. ASSUME CleanEnd(d) PROVE Ending
      BY <1>0, <2>2 DEF CleanEnd
    <2>3. ASSUME Look(d) PROVE Ending
      BY <2>3 DEF Look
    <2>4. ASSUME LevelEmpty(d) PROVE Ending
      BY <1>0, <2>4 DEF LevelEmpty
    <2>5. ASSUME Run(d) PROVE Ending
      BY <1>0, <2>5 DEF Run
    <2> QED
      BY <1>1, <2>1, <2>2, <2>3, <2>4, <2>5, Zenon DEF SearchStep
  <1>2. ASSUME NEW d \in CPU, NEW down \in BOOLEAN, Back(d, down) PROVE Ending
    BY <1>0, <1>2 DEF Back
  <1>3. ASSUME NEW d \in CPU, Interrupt(d) PROVE Ending
    BY <1>0, <1>3 DEF Interrupt
  <1>4. ASSUME NEW d \in CPU, NEW st \in {"RUNNABLE", "SLEEPING", "ZOMBIE"}, GiveUp(d, st)
        PROVE  Ending
    BY <1>0, <1>4 DEF GiveUp
  <1>5. ASSUME NEW q \in Slot, Wakeup(q) \/ Reap(q) \/ \E d \in CPU : Fork(d, q) PROVE Ending
    BY <1>5 DEF Wakeup, Reap, Fork, cpuVars
  <1>6. Ending
    BY <1>1, <1>2, <1>3, <1>4, <1>5, Zenon DEF Next
  <1> QED
    BY <1>6

(* At every moment, on any number of CPUs, processes and levels, the       *)
(* scheduler of a CPU holds the lock of min_p, which is RUNNABLE and on    *)
(* the level searched, or that of the process it is back from, and no      *)
(* other: no break out of the search of scheduler_mlfq() leaks a lock.     *)
THEOREM LocksOfSearch == Spec => []MinHeld
  <1>1. SearchInv => MinHeld
    <2> SUFFICES ASSUME SearchInv PROVE MinHeld
      OBVIOUS
    <2>0. TypeOK /\ Held /\ Best /\ Running
      BY DEF SearchInv
    <2>1. ASSUME NEW c \in CPU
          PROVE  {p \in Slot : lock[p] = c} =
                    (IF min_p[c] # Null THEN {min_p[c]} ELSE {})
                       \cup (IF pc[c] = "back" THEN {proc[c]} ELSE {})
      <3>1. \A p \in Slot : lock[p] = c <=> p = min_p[c] \/ (pc[c] = "back" /\ p = proc[c])
        BY <2>0 DEF Held
      <3>2. /\ min_p[c] # Null => min_p[c] \in Slot
            /\ pc[c] = "back" => proc[c] \in Slot
            /\ Null \notin Slot
        BY <2>0, SearchTypes, TableFacts DEF Running
      <3> QED
        BY <3>1, <3>2
    <2> QED
      BY <2>0, <2>1 DEF MinHeld, Best
  <1> QED
    BY <1>1, SearchInvHolds, PTL

(* A search of scheduler_mlfq() that races with the other CPUs runs a      *)
(* process that none of the processes RUNNABLE all along beats by level or *)
(* by ltime, and stops in wfi only when there is none of them.             *)
THEOREM PicksAreSound == Spec => PickSound
  <1> DEFINE Sound(c) ==
         /\ pc[c] = "scan" /\ pc'[c] = "run" =>
               \A q \in cand[c] : \/ queue_level[q] > prty[c]
                                  \/ queue_level[q] = prty[c] /\ ltime[q] >= ltime[min_p[c]]
         /\ pc[c] # "wfi" /\ pc'[c] = "wfi" => cand[c] = {}
  <1>1. SearchInv /\ [Next]_vars => [\A c \in CPU : Sound(c)]_vars
    <2> SUFFICES ASSUME SearchInv, Next, NEW c \in CPU PROVE Sound(c)
      OBVIOUS
    <2>0. TypeOK /\ Searched(c)
      BY DEF SearchInv
    <2>1. ASSUME pc[c] = "scan", pc'[c] = "run"
          PROVE  i[c] > NPROC /\ min_p[c] # Null
      BY <2>0, <2>1, SearchEnding
    <2>2. ASSUME pc[c] # "wfi", pc'[c] = "wfi"
          PROVE  i[c] > NPROC /\ min_p[c] = Null /\ ~(prty[c] + 1 < NLEVEL)
      BY <2>0, <2>2, SearchEnding
    <2>3. ASSUME pc[c] = "scan", pc'[c] = "run", NEW q \in cand[c]
          PROVE  \/ queue_level[q] > prty[c]
                 \/ queue_level[q] = prty[c] /\ ltime[q] >= ltime[min_p[c]]
      <3>1. /\ q \in Slot /\ queue_level[q] \in Level /\ prty[c] \in Level
            /\ i[c] \in 1 .. NPROC + 1
        BY <2>0, SearchTypes
      <3>2. /\ q \in Nat /\ q <= NPROC /\ NPROC \in Nat
            /\ queue_level[q] \in Nat /\ prty[c] \in Nat
        BY <3>1, TableFacts
      <3>3. q < i[c]
        BY <2>1, <2>3, <3>1, <3>2
      <3>4. /\ queue_level[q] >= prty[c]
            /\ queue_level[q] = prty[c] => ltime[q] >= ltime[min_p[c]]
        BY <2>0, <3>3 DEF Searched
      <3> QED
        BY <3>2, <3>4
    <2>4. ASSUME pc[c] # "wfi", pc'[c] = "wfi" PROVE cand[c] = {}
      BY <2>2, <2>4, LevelDone
    <2> QED
      BY <2>3, <2>4
  <1> QED
    BY <1>1, SearchInvHolds, PTL DEF Spec, PickSound
=============================================================================
