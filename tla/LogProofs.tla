------------------------------ MODULE LogProofs ------------------------------
(***************************************************************************)
(* The invariant of the log: what the headers, the log blocks, the cache   *)
(* and the home blocks are to each other at every point of a commit and of *)
(* a recovery, for any number of processes and blocks and any log size.    *)
(* And Log implements AtomicDisk: what log.c writes block by block reaches *)
(* the disk as whole transactions, wherever a crash comes.  What each step *)
(* is to AtomicDisk comes first, from the invariant; then that every step  *)
(* keeps the invariant; then the theorems.                                 *)
(***************************************************************************)
EXTENDS Log, FiniteSetTheorems, TLAPS

Ending == {"log", "install", "end"}
Active == {p \in Proc : pc[p] = "in"}
Installing == \E p \in Proc : pc[p] = "install"

Distinct(s) == \A j, k \in 1 .. Len(s) : s[j] = s[k] => j = k

(* TypeOK, with the headers as sequences. *)
Types ==
    /\ home \in [Block -> Data] /\ logdata \in [Entry -> Data]
    /\ cache \in [Block -> Data \cup {NotCached}] /\ pins \in [Block -> Nat]
    /\ head \in Seq(Block) /\ lh \in Seq(Block)
    /\ Len(head) <= LOGBLOCKS /\ Len(lh) <= LOGBLOCKS
    /\ outstanding \in Nat /\ committing \in BOOLEAN
    /\ boot \in {"read", "install", "up"}
    /\ pc \in [Proc -> Labels] /\ op \in [Proc -> Data]
    /\ logged \in [Proc -> SUBSET Block]
    /\ tail \in 1 .. LOGBLOCKS + 1 /\ ops \in Data

(* outstanding counts the operations in progress; one process commits, and *)
(* only when there are none; nothing runs before recovery is over.         *)
Ops ==
    /\ outstanding = Cardinality(Active)
    /\ \A p \in Proc : pc[p] \in Ending => committing /\ Active = {}
    /\ \A p, q \in Proc : pc[p] \in Ending /\ pc[q] \in Ending => p = q
    /\ committing => \E p \in Proc : pc[p] \in Ending
    /\ boot # "up" => \A p \in Proc : pc[p] = "out"

(* No block is logged twice, and the header on disk is empty but from the  *)
(* commit to the end of the installation.                                  *)
Headers ==
    /\ Distinct(lh) /\ Distinct(head)
    /\ boot = "read" => lh = <<>>
    /\ boot = "install" \/ Installing => lh = head
    /\ boot = "up" /\ ~Installing => head = <<>>
    /\ boot = "up" /\ lh # <<>> => \E p \in Proc : pc[p] \in {"in", "log", "install"}

Clean(b) == cache[b] \in {NotCached, home[b]} /\ pins[b] = 0

(* A logged block is pinned in the cache until it has been installed; all  *)
(* other blocks are as on disk.                                            *)
Unlogged ==
    \A b \in Block : boot # "up" \/ (\A k \in 1 .. Len(lh) : lh[k] # b) => Clean(b)

Pinned ==
    boot = "up" /\ ~Installing =>
        \A k \in 1 .. Len(lh) : cache[lh[k]] # NotCached /\ pins[lh[k]] = 1

(* How far the loops of write_log() and install_trans() have come. *)
Copied ==
    (\E p \in Proc : pc[p] = "log") =>
        \A k \in 1 .. Len(lh) : k < tail => logdata[k] = cache[lh[k]]

Homed ==
    boot = "install" \/ Installing =>
        \A k \in 1 .. Len(lh) : k < tail => home[lh[k]] = logdata[k] /\ Clean(lh[k])

Waiting ==
    Installing =>
        \A k \in 1 .. Len(lh) : k >= tail => cache[lh[k]] = logdata[k] /\ pins[lh[k]] = 1

Blocks == Unlogged /\ Pinned /\ Copied /\ Homed /\ Waiting

LogInv == Types /\ Ops /\ Headers /\ Blocks
-----------------------------------------------------------------------------
(* Facts *)

LEMMA LogFacts ==
    /\ LOGBLOCKS \in Nat \ {0} /\ IsFiniteSet(Proc)
    /\ 0 \in Data /\ Data \subseteq Nat /\ NotCached \notin Data
    /\ 1 \in 1 .. LOGBLOCKS + 1
  BY LogAssumption DEF Data, NotCached, Entry

(* The entry of the log that the loop of commit() or recovery is at. *)
LEMMA TailInLog ==
    ASSUME Types, tail <= Len(lh)
    PROVE  /\ tail \in 1 .. Len(lh) /\ tail \in Entry
           /\ tail + 1 \in 1 .. LOGBLOCKS + 1
           /\ lh[tail] \in Block /\ logdata[tail] \in Data
  <1>1. /\ tail \in 1 .. LOGBLOCKS + 1 /\ Len(lh) \in Nat
        /\ Len(lh) <= LOGBLOCKS /\ LOGBLOCKS \in Nat
    BY LogFacts DEF Types
  <1>2. tail \in 1 .. Len(lh) /\ tail \in Entry /\ tail + 1 \in 1 .. LOGBLOCKS + 1
    BY <1>1 DEF Entry
  <1> QED
    BY <1>2 DEF Types

(* The process in end_op() is the only one, and no operation is going on. *)
LEMMA Committer ==
    ASSUME Ops, NEW p \in Proc, pc[p] \in Ending
    PROVE  /\ boot = "up"
           /\ \A q \in Proc : q # p => pc[q] \notin {"in", "log", "install", "end"}
           /\ Installing <=> pc[p] = "install"
  <1>1. boot = "up" /\ \A q \in Proc : pc[q] \in Ending => q = p
    BY DEF Ops, Ending
  <1>2. \A q \in Proc : pc[q] # "in"
    BY DEF Ops, Active
  <1> QED
    BY <1>1, <1>2 DEF Ending, Installing

(* While an operation is going on, nobody commits. *)
LEMMA NoCommitter ==
    ASSUME Ops, NEW p \in Proc, pc[p] = "in"
    PROVE  boot = "up" /\ ~Installing /\ \A q \in Proc : pc[q] \notin Ending
  <1>1. p \in Active
    BY DEF Active
  <1>2. boot = "up" /\ \A q \in Proc : pc[q] \notin Ending
    BY <1>1 DEF Ops
  <1> QED
    BY <1>2 DEF Installing, Ending

-----------------------------------------------------------------------------
(* Recovered and the contents seen through the cache, of any disk. *)
Installed(h, d, m) ==
    [b \in Block |-> LET at == {k \in 1 .. Len(h) : h[k] = b}
                     IN  IF at = {} THEN m[b] ELSE d[Max(at)]]

Seen(c, m) == [b \in Block |-> IF c[b] = NotCached THEN m[b] ELSE c[b]]

Current == IF boot = "up" THEN [b \in Block |-> Contents(b)] ELSE Recovered

LEMMA StateMaps ==
    /\ Recovered = Installed(head, logdata, home)
    /\ Recovered' = Installed(head', logdata', home')
    /\ boot = "up" => Current = Seen(cache, home)
    /\ boot' = "up" => Current' = Seen(cache', home')
    /\ boot # "up" => Current = Recovered
    /\ boot' # "up" => Current' = Recovered'
  BY DEF Recovered, Installed, Seen, Current, Contents

(* No block is logged twice, so the last entry for a block is its only one. *)
LEMMA LastAt ==
    ASSUME NEW n \in Nat, NEW s, NEW k \in 1 .. n, \A j \in 1 .. n : s[j] = s[k] => j = k
    PROVE  /\ {j \in 1 .. n : s[j] = s[k]} # {}
           /\ Max({j \in 1 .. n : s[j] = s[k]}) = k
  <1>1. {j \in 1 .. n : s[j] = s[k]} = {k}
    OBVIOUS
  <1>2. Max({k}) = k
    BY DEF Max
  <1> QED
    BY <1>1, <1>2

LEMMA InstalledLogged ==
    ASSUME NEW h \in Seq(Block), Distinct(h), NEW d, NEW m, NEW k \in 1 .. Len(h)
    PROVE  Installed(h, d, m)[h[k]] = d[k]
  <1>1. Len(h) \in Nat /\ h[k] \in Block /\ \A j \in 1 .. Len(h) : h[j] = h[k] => j = k
    BY DEF Distinct
  <1>2. /\ {j \in 1 .. Len(h) : h[j] = h[k]} # {}
        /\ Max({j \in 1 .. Len(h) : h[j] = h[k]}) = k
    BY <1>1, LastAt
  <1> QED
    BY <1>1, <1>2 DEF Installed

LEMMA InstalledOther ==
    ASSUME NEW h, NEW d, NEW m, NEW b \in Block, \A k \in 1 .. Len(h) : h[k] # b
    PROVE  Installed(h, d, m)[b] = m[b]
  <1>1. {j \in 1 .. Len(h) : h[j] = b} = {}
    OBVIOUS
  <1> QED
    BY <1>1 DEF Installed

(* A disk recovers to f when it does so block by block. *)
LEMMA InstalledIs ==
    ASSUME NEW h \in Seq(Block), Distinct(h), NEW d, NEW m, NEW f,
           \A k \in 1 .. Len(h) : f[h[k]] = d[k],
           \A b \in Block : (\A k \in 1 .. Len(h) : h[k] # b) => f[b] = m[b],
           NEW b \in Block
    PROVE  Installed(h, d, m)[b] = f[b]
  <1>1. CASE \A k \in 1 .. Len(h) : h[k] # b
    BY <1>1, InstalledOther
  <1>2. CASE \E k \in 1 .. Len(h) : h[k] = b
    <2>1. PICK k \in 1 .. Len(h) : h[k] = b
      BY <1>2
    <2> QED
      BY <2>1, InstalledLogged
  <1> QED
    BY <1>1, <1>2

LEMMA InstalledEqual ==
    ASSUME NEW h, NEW d, NEW m, NEW h2, NEW d2, NEW m2,
           \A b \in Block : Installed(h, d, m)[b] = Installed(h2, d2, m2)[b]
    PROVE  Installed(h, d, m) = Installed(h2, d2, m2)
  <1>1. /\ Installed(h, d, m) = [b \in Block |-> Installed(h, d, m)[b]]
        /\ Installed(h2, d2, m2) = [b \in Block |-> Installed(h2, d2, m2)[b]]
    BY DEF Installed
  <1> QED
    BY <1>1

LEMMA EmptyHead ==
    ASSUME NEW d, NEW m
    PROVE  \A b \in Block : Installed(<<>>, d, m)[b] = m[b]
  <1>1. \A k \in 1 .. Len(<<>>) : FALSE
    OBVIOUS
  <1>2. ASSUME NEW b \in Block PROVE Installed(<<>>, d, m)[b] = m[b]
    BY <1>1, InstalledOther
  <1> QED
    BY <1>2

-----------------------------------------------------------------------------
(* What each step does to the disk as recovery would leave it *)

LEMMA StableKept ==
    ASSUME LogInv,
           \/ UNCHANGED disk \/ RecoverInstall \/ RecoverClear
           \/ \E p \in Proc : WriteLog(p) \/ InstallTrans(p) \/ ClearHead(p)
    PROVE  Recovered' = Recovered
  <1>0. /\ Types /\ Ops /\ Headers /\ Blocks /\ head \in Seq(Block) /\ Distinct(head)
        /\ pc \in [Proc -> Labels]
    BY DEF LogInv, Headers, Types
  <1>a. PICK R : R = Installed(head, logdata, home)
    OBVIOUS
  <1>2. /\ \A k \in 1 .. Len(head) : R[head[k]] = logdata[k]
        /\ \A b \in Block : (\A k \in 1 .. Len(head) : head[k] # b) => R[b] = home[b]
    <2>1. ASSUME NEW k \in 1 .. Len(head) PROVE R[head[k]] = logdata[k]
      BY <1>0, <1>a, InstalledLogged
    <2>2. ASSUME NEW b \in Block, \A k \in 1 .. Len(head) : head[k] # b
          PROVE  R[b] = home[b]
      BY <1>a, <2>2, InstalledOther
    <2> QED
      BY <2>1, <2>2, Zenon
  <1>3. CASE UNCHANGED disk
    BY <1>3, StateMaps DEF disk
  <1>4. ASSUME RecoverInstall \/ \E p \in Proc : InstallTrans(p)
        PROVE  Recovered' = Recovered
    <2>1. /\ tail <= Len(lh) /\ head' = head /\ logdata' = logdata
          /\ home' = [home EXCEPT ![lh[tail]] = logdata[tail]]
          /\ boot = "install" \/ Installing
      BY <1>4 DEF RecoverInstall, InstallTrans, Installing
    <2>2. lh = head /\ tail \in 1 .. Len(head)
      BY <1>0, <2>1, TailInLog DEF Headers
    <2>3. \A b \in Block : b # head[tail] => home'[b] = home[b]
      BY <1>0, <2>1, <2>2 DEF Types
    <2>4. \A b \in Block : (\A k \in 1 .. Len(head) : head[k] # b) => R[b] = home'[b]
      BY <1>2, <2>2, <2>3
    <2>5. \A b \in Block : Installed(head, logdata, home')[b] = R[b]
      BY <1>0, <1>2, <2>4, InstalledIs
    <2>6. \A b \in Block : Installed(head, logdata, home')[b] = Installed(head, logdata, home)[b]
      BY <1>a, <2>5
    <2>7. Installed(head, logdata, home') = Installed(head, logdata, home)
      BY <2>6, InstalledEqual
    <2> QED
      BY <2>1, <2>7, StateMaps
  <1>5. ASSUME RecoverClear \/ \E p \in Proc : ClearHead(p)
        PROVE  Recovered' = Recovered
    <2>1. /\ tail > Len(lh) /\ head' = <<>> /\ logdata' = logdata /\ home' = home
          /\ boot = "install" \/ Installing
      BY <1>5 DEF RecoverClear, ClearHead, Installing
    <2>2. lh = head /\ \A k \in 1 .. Len(head) : k < tail
      <3>1. lh = head
        BY <1>0, <2>1, Zenon DEF Headers
      <3>2. Len(head) \in Nat /\ tail \in Nat /\ tail > Len(head)
        BY <1>0, <2>1, <3>1, LogFacts DEF Types
      <3> QED
        BY <3>1, <3>2
    <2>3. \A k \in 1 .. Len(head) : home[head[k]] = logdata[k]
      BY <1>0, <2>1, <2>2 DEF Blocks, Homed
    <2>4. ASSUME NEW b \in Block PROVE R[b] = home[b]
      BY <1>2, <2>3
    <2>6. \A b \in Block : Installed(<<>>, logdata, home)[b] = R[b]
      BY <2>4, EmptyHead
    <2>7. \A b \in Block : Installed(<<>>, logdata, home)[b] = Installed(head, logdata, home)[b]
      BY <1>a, <2>6
    <2>8. Installed(<<>>, logdata, home) = Installed(head, logdata, home)
      BY <2>7, InstalledEqual
    <2> QED
      BY <2>1, <2>8, StateMaps
  <1>6. ASSUME NEW p \in Proc, WriteLog(p)
        PROVE  Recovered' = Recovered
    <2>1. pc[p] = "log" /\ head' = head /\ home' = home
      BY <1>6 DEF WriteLog
    <2>2. boot = "up" /\ ~Installing
      BY <1>0, <2>1, Committer DEF Ending
    <2>3. head = <<>> /\ Len(<<>>) = 0
      BY <1>0, <2>2 DEF Headers
    <2>4. \A b \in Block : Installed(head, logdata', home)[b] = R[b]
      BY <1>a, <2>3, EmptyHead
    <2>5. \A b \in Block : Installed(head, logdata', home)[b] = Installed(head, logdata, home)[b]
      BY <1>a, <2>4
    <2>6. Installed(head, logdata', home) = Installed(head, logdata, home)
      BY <2>5, InstalledEqual
    <2> QED
      BY <2>1, <2>6, StateMaps
  <1> QED
    BY <1>3, <1>4, <1>5, <1>6

(* write_head() makes the disk what the cache shows. *)
LEMMA StableCommits ==
    ASSUME LogInv, NEW p \in Proc, WriteHead(p)
    PROVE  Recovered' = Seen(cache, home) /\ boot = "up" /\ Active = {}
  <1>0. /\ Types /\ Ops /\ Headers /\ Blocks /\ lh \in Seq(Block) /\ Distinct(lh)
    BY DEF LogInv, Headers, Types
  <1>1. pc[p] = "log" /\ tail > Len(lh) /\ head' = lh /\ home' = home /\ logdata' = logdata
    BY DEF WriteHead
  <1>2. boot = "up" /\ ~Installing /\ Active = {}
    BY <1>0, <1>1, Committer DEF Ending, Ops
  <1>3. \A k \in 1 .. Len(lh) : k < tail
    BY <1>0, <1>1 DEF Types
  <1>4. \A k \in 1 .. Len(lh) : logdata[k] = cache[lh[k]] /\ cache[lh[k]] # NotCached
    BY <1>0, <1>1, <1>2, <1>3 DEF Blocks, Pinned, Copied
  <1>5. \A k \in 1 .. Len(lh) : Seen(cache, home)[lh[k]] = logdata[k]
    BY <1>0, <1>4 DEF Seen
  <1>6. \A b \in Block : (\A k \in 1 .. Len(lh) : lh[k] # b) => Clean(b)
    BY <1>0 DEF Blocks, Unlogged
  <1>7. \A b \in Block : (\A k \in 1 .. Len(lh) : lh[k] # b) => Seen(cache, home)[b] = home[b]
    BY <1>6 DEF Seen, Clean
  <1>8. Seen(cache, home) = [b \in Block |-> Seen(cache, home)[b]]
    BY DEF Seen
  <1>9. \A b \in Block : Installed(lh, logdata, home)[b] = Seen(cache, home)[b]
    BY <1>0, <1>5, <1>7, InstalledIs
  <1>10. Installed(lh, logdata, home) = Seen(cache, home)
    BY <1>8, <1>9 DEF Installed
  <1> QED
    BY <1>1, <1>2, <1>10, StateMaps
-----------------------------------------------------------------------------
(* What each step does to the contents seen through the cache *)

LEMMA SeenKept ==
    ASSUME LogInv, boot = "up",
           \/ \E p \in Proc : WriteLog(p) \/ InstallTrans(p)
           \/ \E b \in Block : Bread(b) \/ Recycle(b)
    PROVE  boot' = "up" /\ Seen(cache', home') = Seen(cache, home)
  <1>0. /\ Types /\ Ops /\ Headers /\ Blocks /\ \A k \in 1 .. Len(lh) : lh[k] \in Block
    BY DEF LogInv, Types
  <1>1. ASSUME NEW p \in Proc, WriteLog(p)
        PROVE  boot' = "up" /\ Seen(cache', home') = Seen(cache, home)
    <2>1. /\ tail \in 1 .. Len(lh) /\ home' = home /\ boot' = boot
          /\ cache' = [cache EXCEPT ![lh[tail]] = Contents(lh[tail])]
      BY <1>0, <1>1, TailInLog DEF WriteLog
    <2>2. boot = "up" /\ ~Installing
      BY <1>0, <1>1, Committer DEF Ending, WriteLog
    <2>3. Contents(lh[tail]) = cache[lh[tail]]
      BY <1>0, <2>1, <2>2 DEF Blocks, Pinned, Contents
    <2>4. \A b \in Block : cache'[b] = cache[b]
      BY <1>0, <2>1, <2>3 DEF Types
    <2> QED
      BY <2>1, <2>2, <2>4 DEF Seen
  <1>2. ASSUME NEW p \in Proc, InstallTrans(p)
        PROVE  boot' = "up" /\ Seen(cache', home') = Seen(cache, home)
    <2>1. /\ tail \in 1 .. Len(lh) /\ boot' = boot /\ Installing
          /\ home' = [home EXCEPT ![lh[tail]] = logdata[tail]]
          /\ cache' = [cache EXCEPT ![lh[tail]] = logdata[tail]]
          /\ logdata[tail] # NotCached
      BY <1>0, <1>2, TailInLog, LogFacts DEF InstallTrans, Installing
    <2>2. cache[lh[tail]] = logdata[tail]
      <3>1. tail >= tail
        BY <1>0, LogFacts DEF Types
      <3> QED
        BY <1>0, <2>1, <3>1, Zenon DEF Blocks, Waiting
    <2>3. /\ \A b \in Block : cache'[b] = cache[b]
          /\ \A b \in Block : b # lh[tail] => home'[b] = home[b]
      BY <1>0, <2>1, <2>2 DEF Types
    <2>4. ASSUME NEW b \in Block PROVE Seen(cache', home')[b] = Seen(cache, home)[b]
      <3>1. cache'[b] = cache[b] /\ (b = lh[tail] => cache[b] # NotCached)
        BY <2>1, <2>2, <2>3
      <3> QED
        BY <2>3, <3>1 DEF Seen
    <2>5. /\ Seen(cache', home') = [b \in Block |-> Seen(cache', home')[b]]
          /\ Seen(cache, home) = [b \in Block |-> Seen(cache, home)[b]]
      BY DEF Seen
    <2> QED
      BY <2>1, <2>4, <2>5, Zenon
  <1>3. ASSUME NEW b \in Block, Bread(b)
        PROVE  boot' = "up" /\ Seen(cache', home') = Seen(cache, home)
    <2>1. /\ home' = home /\ boot' = boot /\ cache[b] = NotCached
          /\ cache'[b] = home[b] /\ \A x \in Block : x # b => cache'[x] = cache[x]
      BY <1>0, <1>3 DEF Bread, disk, Types
    <2> QED
      BY <2>1 DEF Seen
  <1>4. ASSUME NEW b \in Block, Recycle(b)
        PROVE  boot' = "up" /\ Seen(cache', home') = Seen(cache, home)
    <2>1. /\ home' = home /\ boot' = boot /\ cache[b] # NotCached /\ pins[b] = 0
          /\ cache'[b] = NotCached /\ \A x \in Block : x # b => cache'[x] = cache[x]
      BY <1>0, <1>4 DEF Recycle, disk, Types
    <2>2. Clean(b)
      <3>1. CASE \A k \in 1 .. Len(lh) : lh[k] # b
        BY <1>0, <3>1 DEF Blocks, Unlogged
      <3>2. ASSUME NEW k \in 1 .. Len(lh), lh[k] = b PROVE Clean(b)
        <4>1. pins[lh[k]] # 1
          BY <2>1, <3>2
        <4>2. Installing
          BY <1>0, <3>2, <4>1, Zenon DEF Blocks, Pinned
        <4>3. ~(k >= tail)
          BY <1>0, <3>2, <4>1, <4>2, Zenon DEF Blocks, Waiting
        <4>4. k < tail
          <5>1. tail \in Nat /\ k \in Nat
            BY <1>0, LogFacts DEF Types
          <5> QED
            BY <4>3, <5>1
        <4> QED
          BY <1>0, <3>2, <4>2, <4>4, Zenon DEF Blocks, Homed
      <3> QED
        BY <3>1, <3>2
    <2>3. cache[b] = home[b]
      BY <2>1, <2>2 DEF Clean
    <2> QED
      BY <2>1, <2>3 DEF Seen
  <1> QED
    BY <1>1, <1>2, <1>3, <1>4

-----------------------------------------------------------------------------
(* Each step is a step of AtomicDisk, or leaves its state alone *)

LEMMA Stutters ==
    ASSUME Active' = Active, Current' = Current, Recovered' = Recovered
    PROVE  UNCHANGED Atomic!vars
  BY DEF Active, Current, Atomic!vars

LEMMA RecoverySteps ==
    ASSUME LogInv, ReadHead \/ RecoverInstall \/ RecoverClear
    PROVE  Active' = Active /\ Current' = Current
  <1>0. Types /\ Blocks
    BY DEF LogInv
  <1>1. Recovered' = Recovered
    BY StableKept DEF ReadHead
  <1>2. boot # "up" /\ pc' = pc
    BY DEF ReadHead, RecoverInstall, RecoverClear, procVars
  <1>3. CASE boot' # "up"
    BY <1>1, <1>2, <1>3, StateMaps DEF Active
  <1>4. CASE boot' = "up"
    <2>1. /\ cache' = cache /\ home' = home /\ head' = <<>>
      BY <1>4 DEF ReadHead, RecoverInstall, RecoverClear
    <2>2. \A b \in Block : Clean(b)
      BY <1>0, <1>2 DEF Blocks, Unlogged
    <2>3. \A b \in Block : Seen(cache', home')[b] = home[b]
      BY <2>1, <2>2 DEF Clean, Seen
    <2>4. \A b \in Block : Installed(<<>>, logdata', home')[b] = home[b]
      BY <2>1, EmptyHead
    <2>5. Seen(cache', home') = Installed(head', logdata', home')
      <3>1. /\ Seen(cache', home') = [b \in Block |-> Seen(cache', home')[b]]
            /\ Installed(<<>>, logdata', home')
                 = [b \in Block |-> Installed(<<>>, logdata', home')[b]]
        BY DEF Seen, Installed
      <3>2. \A b \in Block : Seen(cache', home')[b] = Installed(<<>>, logdata', home')[b]
        BY <2>3, <2>4, Zenon
      <3>3. Seen(cache', home') = Installed(<<>>, logdata', home')
        BY <3>1, <3>2
      <3> QED
        BY <2>1, <3>3
    <2> QED
      BY <1>1, <1>2, <1>4, <2>5, StateMaps DEF Active
  <1> QED
    BY <1>3, <1>4

(* Of the steps of a process, those that are steps of AtomicDisk. *)
LEMMA OperationSteps ==
    ASSUME LogInv, NEW p \in Proc, BeginOp(p) \/ EndOp(p) \/ EndOpLast(p)
    PROVE  Atomic!Begin(p) \/ Atomic!End(p)
  <1>0. pc \in [Proc -> Labels]
    BY DEF LogInv, Types
  <1>1. /\ boot' = boot /\ cache' = cache /\ home' = home /\ UNCHANGED disk
    BY DEF BeginOp, EndOp, EndOpLast, disk
  <1>2. Recovered' = Recovered
    BY <1>1, StateMaps DEF disk
  <1>3. Current' = Current
    BY <1>1, <1>2, StateMaps
  <1>4. CASE BeginOp(p)
    <2>1. p \notin Active /\ Active' = Active \cup {p}
      BY <1>0, <1>4 DEF BeginOp, Active
    <2> QED
      BY <1>2, <1>3, <2>1 DEF Active, Current, Atomic!Begin
  <1>5. CASE EndOp(p) \/ EndOpLast(p)
    <2>1. p \in Active /\ Active' = Active \ {p}
      BY <1>0, <1>5 DEF EndOp, EndOpLast, WakeLog, Active
    <2> QED
      BY <1>2, <1>3, <2>1 DEF Active, Current, Atomic!End
  <1> QED
    BY <1>4, <1>5

LEMMA WriteSteps ==
    ASSUME LogInv, NEW p \in Proc, NEW b \in Block, LogWrite(p, b)
    PROVE  op[p] \in Data /\ Atomic!Write(p, b, op[p])
  <1>0. /\ op[p] \in Data /\ op[p] # NotCached /\ Types /\ Ops
    BY LogFacts DEF LogInv, Types
  <1>1. /\ pc[p] = "in" /\ pc' = pc /\ boot' = boot /\ UNCHANGED disk
        /\ cache' = [cache EXCEPT ![b] = op[p]]
    BY DEF LogWrite
  <1>2. boot = "up" /\ home' = home
    BY <1>0, <1>1 DEF Ops, disk
  <1>3. Recovered' = Recovered
    BY <1>1, StateMaps DEF disk
  <1>4. cache'[b] = op[p] /\ \A x \in Block : x # b => cache'[x] = cache[x]
    BY <1>0, <1>1 DEF Types
  <1>5. Seen(cache', home') = [Seen(cache, home) EXCEPT ![b] = op[p]]
    BY <1>0, <1>2, <1>4, Zenon DEF Seen
  <1>6. Current' = [Current EXCEPT ![b] = op[p]]
    BY <1>1, <1>2, <1>5, StateMaps, Zenon
  <1>7. p \in Active /\ Active' = Active
    BY <1>1 DEF Active
  <1> QED
    BY <1>0, <1>3, <1>6, <1>7 DEF Active, Current, Atomic!Write

LEMMA CommitStep ==
    ASSUME LogInv, NEW p \in Proc, WriteHead(p)
    PROVE  Atomic!Commit
  <1>0. pc \in [Proc -> Labels] /\ pc[p] = "log"
    BY DEF LogInv, Types, WriteHead
  <1>1. /\ boot' = boot /\ cache' = cache /\ home' = home
        /\ pc' = [pc EXCEPT ![p] = "install"]
    BY DEF WriteHead
  <1>2. Recovered' = Seen(cache, home) /\ boot = "up" /\ Active = {}
    BY StableCommits
  <1>3. Current' = Current /\ Recovered' = Current
    BY <1>1, <1>2, StateMaps
  <1>4. Active' = Active
    BY <1>0, <1>1 DEF Active
  <1> QED
    BY <1>2, <1>3, <1>4 DEF Active, Current, Atomic!Commit

LEMMA CrashStep ==
    ASSUME LogInv, Crash
    PROVE  Atomic!Crash
  <1>1. boot' # "up" /\ Active' = {} /\ UNCHANGED disk
    BY DEF Crash, Active
  <1>2. Recovered' = Recovered /\ Current' = Recovered
    BY <1>1, StateMaps DEF disk
  <1> QED
    BY <1>1, <1>2 DEF Active, Current, Atomic!Crash

(* The others change neither the operations in progress, nor what the      *)
(* operations see, nor what a crash leaves.                                *)
LEMMA HiddenSteps ==
    ASSUME LogInv, NEW p \in Proc,
           \/ CallBeginOp(p) \/ BeginSleep(p) \/ EndCommit(p)
           \/ WriteLog(p) \/ InstallTrans(p) \/ ClearHead(p)
    PROVE  UNCHANGED Atomic!vars
  <1>0. pc \in [Proc -> Labels]
    BY DEF LogInv, Types
  <1>1. boot' = boot
    BY DEF CallBeginOp, BeginSleep, WriteLog, InstallTrans, ClearHead, EndCommit
  <1>2. \A q \in Proc : pc'[q] = "in" <=> pc[q] = "in"
    <2>1. CASE CallBeginOp(p) \/ BeginSleep(p) \/ ClearHead(p)
      BY <1>0, <2>1 DEF CallBeginOp, BeginSleep, ClearHead
    <2>2. CASE EndCommit(p)
      BY <1>0, <2>2 DEF EndCommit, WakeLog
    <2>3. CASE WriteLog(p) \/ InstallTrans(p)
      BY <2>3 DEF WriteLog, InstallTrans, procVars
    <2> QED
      BY <2>1, <2>2, <2>3
  <1>3. Active' = Active
    BY <1>2 DEF Active
  <1>4. Recovered' = Recovered
    <2>1. CASE CallBeginOp(p) \/ BeginSleep(p) \/ EndCommit(p)
      <3>1. UNCHANGED disk
        BY <2>1 DEF CallBeginOp, BeginSleep, EndCommit
      <3> QED
        BY <3>1, StableKept
    <2>2. CASE WriteLog(p) \/ InstallTrans(p) \/ ClearHead(p)
      BY <2>2, StableKept
    <2> QED
      BY <2>1, <2>2
  <1>5. Current' = Current
    <2>1. CASE boot # "up"
      BY <1>1, <1>4, <2>1, StateMaps
    <2>2. CASE boot = "up"
      <3>1. CASE CallBeginOp(p) \/ BeginSleep(p) \/ ClearHead(p) \/ EndCommit(p)
        <4>1. cache' = cache /\ home' = home
          BY <3>1 DEF CallBeginOp, BeginSleep, ClearHead, EndCommit, disk
        <4> QED
          BY <1>1, <2>2, <4>1, StateMaps
      <3>2. CASE WriteLog(p) \/ InstallTrans(p)
        <4>1. Seen(cache', home') = Seen(cache, home)
          BY <2>2, <3>2, SeenKept
        <4> QED
          BY <1>1, <2>2, <4>1, StateMaps
      <3> QED
        BY <3>1, <3>2
    <2> QED
      BY <2>1, <2>2
  <1> QED
    BY <1>3, <1>4, <1>5, Stutters

LEMMA CacheSteps ==
    ASSUME LogInv, NEW b \in Block, Bread(b) \/ Recycle(b)
    PROVE  UNCHANGED Atomic!vars
  <1>1. boot' = boot /\ UNCHANGED disk /\ pc' = pc
    BY DEF Bread, Recycle, procVars
  <1>2. Recovered' = Recovered
    BY <1>1, StableKept
  <1>3. Current' = Current
    <2>1. CASE boot # "up"
      BY <1>1, <1>2, <2>1, StateMaps
    <2>2. CASE boot = "up"
      <3>1. Seen(cache', home') = Seen(cache, home)
        BY <2>2, SeenKept
      <3> QED
        BY <1>1, <2>2, <3>1, StateMaps
    <2> QED
      BY <2>1, <2>2
  <1>4. Active' = Active
    BY <1>1 DEF Active
  <1> QED
    BY <1>2, <1>3, <1>4, Stutters

-----------------------------------------------------------------------------
(* The types are kept. *)

LEMMA InitTypes == Init => Types
  <1> SUFFICES ASSUME Init PROVE Types
    OBVIOUS
  <1>1. <<>> \in Seq(Block) /\ Len(<<>>) = 0 /\ Len(<<>>) <= LOGBLOCKS
    BY LogFacts
  <1>2. /\ home \in [Block -> Data] /\ logdata \in [Entry -> Data]
        /\ cache \in [Block -> Data \cup {NotCached}] /\ pins \in [Block -> Nat]
    BY LogFacts DEF Init
  <1>3. /\ pc \in [Proc -> Labels] /\ op \in [Proc -> Data]
        /\ logged \in [Proc -> SUBSET Block]
    BY LogFacts DEF Init, Labels
  <1>4. /\ head \in Seq(Block) /\ lh \in Seq(Block)
        /\ Len(head) <= LOGBLOCKS /\ Len(lh) <= LOGBLOCKS
    BY <1>1, LogFacts DEF Init
  <1>5. /\ outstanding \in Nat /\ committing \in BOOLEAN
        /\ boot = "read" /\ tail \in 1 .. LOGBLOCKS + 1 /\ ops \in Data
    BY LogFacts, Zenon DEF Init
  <1> QED
    BY <1>2, <1>3, <1>4, <1>5, Zenon DEF Types

LEMMA TypesRecovery ==
    ASSUME Types, ReadHead \/ RecoverInstall \/ RecoverClear
    PROVE  Types'
  <1>1. <<>> \in Seq(Block) /\ Len(<<>>) = 0 /\ Len(<<>>) <= LOGBLOCKS
    BY LogFacts
  <1>2. CASE ReadHead
    BY <1>2, LogFacts DEF Types, ReadHead, disk, procVars
  <1>3. CASE RecoverInstall
    <2>1. /\ tail \in 1 .. Len(lh) /\ tail \in Entry
          /\ tail' = tail + 1 /\ tail + 1 \in 1 .. LOGBLOCKS + 1
      BY <1>3, TailInLog DEF RecoverInstall
    <2>2. lh[tail] \in Block /\ logdata[tail] \in Data
      BY <1>3, TailInLog DEF RecoverInstall
    <2>3. home' \in [Block -> Data] /\ cache' \in [Block -> Data \cup {NotCached}]
      BY <1>3, <2>2 DEF Types, RecoverInstall
    <2> QED
      BY <1>3, <2>1, <2>3 DEF Types, RecoverInstall, logVars, procVars
  <1>4. CASE RecoverClear
    BY <1>1, <1>4, LogFacts DEF Types, RecoverClear, procVars
  <1> QED
    BY <1>2, <1>3, <1>4

LEMMA TypesBegin ==
    ASSUME Types, NEW p \in Proc,
           CallBeginOp(p) \/ BeginStep(p) \/ \E b \in Block : LogWrite(p, b)
    PROVE  Types'
  <1>1. CASE CallBeginOp(p)
    <2>1. ops' \in Data /\ ops' = ops + 1
      <3>1. ops \in 0 .. MaxOps /\ ops < MaxOps /\ ops' = ops + 1 /\ MaxOps \in Nat
        BY <1>1, LogAssumption DEF Types, CallBeginOp, Data
      <3> QED
        BY <3>1 DEF Data
    <2>2. op' \in [Proc -> Data] /\ pc' \in [Proc -> Labels]
      BY <1>1, <2>1 DEF Types, CallBeginOp, Labels
    <2> QED
      BY <1>1, <2>1, <2>2 DEF Types, CallBeginOp, disk, logVars
  <1>2. CASE BeginStep(p)
    <2>1. pc' \in [Proc -> Labels]
      <3>1. pc' = [pc EXCEPT ![p] = "in"] \/ pc' = [pc EXCEPT ![p] = "asleep"]
        BY <1>2 DEF BeginStep, BeginOp, BeginSleep
      <3>2. "in" \in Labels /\ "asleep" \in Labels
        BY DEF Labels
      <3> QED
        BY <3>1, <3>2, Zenon DEF Types
    <2>2. outstanding' \in Nat
      BY <1>2 DEF Types, BeginStep, BeginOp, BeginSleep, logVars
    <2> QED
      <3>1. UNCHANGED <<home, logdata, head, cache, pins, lh, committing, boot, op, logged,
                        tail, ops>>
        BY <1>2 DEF BeginStep, BeginOp, BeginSleep, disk, logVars
      <3> QED
        BY <2>1, <2>2, <3>1 DEF Types
  <1>3. ASSUME NEW b \in Block, LogWrite(p, b)
        PROVE  Types'
    <2>1. /\ cache' \in [Block -> Data \cup {NotCached}]
          /\ logged' \in [Proc -> SUBSET Block]
      BY <1>3 DEF Types, LogWrite
    <2>2. lh' \in Seq(Block) /\ Len(lh') <= LOGBLOCKS /\ pins' \in [Block -> Nat]
      <3>1. CASE lh' = Append(lh, b) /\ pins' = [pins EXCEPT ![b] = @ + 1]
        <4>1. lh' \in Seq(Block) /\ Len(lh') = Len(lh) + 1
          BY <3>1 DEF Types
        <4>2. Len(lh) \in Nat /\ Len(lh) < LOGBLOCKS
          BY <1>3 DEF Types, LogWrite
        <4>3. pins' \in [Block -> Nat]
          BY <3>1 DEF Types
        <4> QED
          BY <4>1, <4>2, <4>3, LogFacts
      <3>2. CASE lh' = lh /\ pins' = pins
        BY <3>2 DEF Types
      <3> QED
        BY <1>3, <3>1, <3>2 DEF LogWrite
    <2> QED
      BY <1>3, <2>1, <2>2, Zenon DEF Types, LogWrite, disk
  <1> QED
    BY <1>1, <1>2, <1>3

LEMMA TypesEnd ==
    ASSUME Types, NEW p \in Proc, EndStep(p),
           \A k \in 1 .. Len(lh) : k >= tail /\ pc[p] = "install" => pins[lh[k]] = 1
    PROVE  Types'
  <1>1. <<>> \in Seq(Block) /\ Len(<<>>) = 0 /\ Len(<<>>) <= LOGBLOCKS
    BY LogFacts
  <1>2. CASE EndOp(p) \/ EndCommit(p)
    <2>1. pc' \in [Proc -> Labels]
      <3>1. pc' = WakeLog([pc EXCEPT ![p] = "out"])
        BY <1>2 DEF EndOp, EndCommit
      <3>2. [pc EXCEPT ![p] = "out"] \in [Proc -> Labels]
        BY DEF Types, Labels
      <3>3. ASSUME NEW f \in [Proc -> Labels]
            PROVE  WakeLog(f) \in [Proc -> Labels]
        BY DEF WakeLog, Labels
      <3> QED
        BY <3>1, <3>2, <3>3, Zenon
    <2>2. logged' \in [Proc -> SUBSET Block]
      BY <1>2, Zenon DEF Types, EndOp, EndCommit
    <2>3. outstanding' \in Nat
      <3>1. outstanding \in Nat
        BY DEF Types
      <3>2. outstanding' = outstanding \/ (outstanding > 1 /\ outstanding' = outstanding - 1)
        BY <1>2 DEF EndOp, EndCommit
      <3> QED
        BY <3>1, <3>2
    <2> QED
      BY <1>2, <2>1, <2>2, <2>3, Zenon DEF Types, EndOp, EndCommit, disk
  <1>3. CASE EndOpLast(p)
    <2>1. pc' \in [Proc -> Labels] /\ logged' \in [Proc -> SUBSET Block]
      BY <1>3 DEF Types, EndOpLast, Labels
    <2> QED
      BY <1>3, <2>1, LogFacts DEF Types, EndOpLast, disk
  <1>4. CASE WriteLog(p)
    <2>1. /\ tail \in 1 .. Len(lh) /\ tail \in Entry
          /\ tail' = tail + 1 /\ tail + 1 \in 1 .. LOGBLOCKS + 1
      BY <1>4, TailInLog DEF WriteLog
    <2>2. lh[tail] \in Block /\ Contents(lh[tail]) \in Data
      <3>1. lh[tail] \in Block
        BY <1>4, TailInLog DEF WriteLog
      <3> QED
        BY <3>1 DEF Types, Contents
    <2>3. logdata' \in [Entry -> Data] /\ cache' \in [Block -> Data \cup {NotCached}]
      BY <1>4, <2>1, <2>2 DEF Types, WriteLog
    <2> QED
      BY <1>4, <2>1, <2>3 DEF Types, WriteLog, logVars, procVars
  <1>5. CASE WriteHead(p)
    <2>1. pc' \in [Proc -> Labels]
      BY <1>5 DEF Types, WriteHead, Labels
    <2> QED
      BY <1>5, <2>1, LogFacts DEF Types, WriteHead, logVars
  <1>6. CASE InstallTrans(p)
    <2>1. /\ tail \in 1 .. Len(lh) /\ tail \in Entry
          /\ tail' = tail + 1 /\ tail + 1 \in 1 .. LOGBLOCKS + 1
      BY <1>6, TailInLog DEF InstallTrans
    <2>2. lh[tail] \in Block /\ logdata[tail] \in Data
      BY <1>6, TailInLog DEF InstallTrans
    <2>5. pins[lh[tail]] = 1
      <3>1. tail >= tail
        BY <2>1
      <3> QED
        BY <1>6, <2>1, <3>1 DEF InstallTrans
    <2>3. home' \in [Block -> Data] /\ cache' \in [Block -> Data \cup {NotCached}]
      BY <1>6, <2>2 DEF Types, InstallTrans
    <2>4. pins' \in [Block -> Nat]
      <3>1. pins' = [pins EXCEPT ![lh[tail]] = 0]
        BY <1>6, <2>5 DEF InstallTrans
      <3> QED
        BY <3>1, Zenon DEF Types
    <2> QED
      BY <1>6, <2>1, <2>3, <2>4 DEF Types, InstallTrans, logVars, procVars
  <1>7. CASE ClearHead(p)
    <2>1. pc' \in [Proc -> Labels]
      BY <1>7 DEF Types, ClearHead, Labels
    <2> QED
      BY <1>1, <1>7, <2>1, LogFacts DEF Types, ClearHead
  <1> QED
    BY <1>2, <1>3, <1>4, <1>5, <1>6, <1>7 DEF EndStep

LEMMA TypesOther ==
    ASSUME Types, Crash \/ \E b \in Block : Bread(b) \/ Recycle(b)
    PROVE  Types'
  <1>1. <<>> \in Seq(Block) /\ Len(<<>>) = 0 /\ Len(<<>>) <= LOGBLOCKS
    BY LogFacts
  <1>2. CASE Crash
    <2>1. /\ cache' \in [Block -> Data \cup {NotCached}] /\ pins' \in [Block -> Nat]
          /\ pc' \in [Proc -> Labels] /\ op' \in [Proc -> Data]
          /\ logged' \in [Proc -> SUBSET Block]
      BY <1>2, LogFacts DEF Crash, Labels
    <2>2. /\ lh' \in Seq(Block) /\ Len(lh') <= LOGBLOCKS
          /\ outstanding' \in Nat /\ committing' \in BOOLEAN
          /\ boot' = "read" /\ tail' \in 1 .. LOGBLOCKS + 1
      <3>1. /\ lh' = <<>> /\ outstanding' = 0 /\ committing' = FALSE
            /\ boot' = "read" /\ tail' = 1
        BY <1>2 DEF Crash
      <3> QED
        BY <1>1, <3>1, LogFacts, Zenon
    <2>3. <<home, logdata, head, ops>>' = <<home, logdata, head, ops>>
      BY <1>2 DEF Crash, disk
    <2> QED
      BY <2>1, <2>2, <2>3 DEF Types
  <1>3. ASSUME NEW b \in Block, Bread(b) \/ Recycle(b)
        PROVE  Types'
    <2>1. cache' \in [Block -> Data \cup {NotCached}]
      BY <1>3, Zenon DEF Types, Bread, Recycle
    <2> QED
      <3>1. UNCHANGED <<home, logdata, head, pins, lh, outstanding, committing, boot, pc, op,
                        logged, tail, ops>>
        BY <1>3 DEF Bread, Recycle, disk, logVars, procVars
      <3> QED
        BY <2>1, <3>1 DEF Types
  <1> QED
    BY <1>2, <1>3

LEMMA TypesNext == LogInv /\ [Next]_vars => Types'
  <1> SUFFICES ASSUME LogInv, [Next]_vars PROVE Types'
    OBVIOUS
  <1>1. Types
    BY DEF LogInv
  <1>2. ASSUME NEW p \in Proc
        PROVE  \A k \in 1 .. Len(lh) : k >= tail /\ pc[p] = "install" => pins[lh[k]] = 1
    BY DEF LogInv, Blocks, Waiting, Installing
  <1>3. CASE UNCHANGED vars
    <2>1. UNCHANGED <<home, logdata, head, cache, pins, lh, outstanding, committing, boot,
                      pc, op, logged, tail, ops>>
      BY <1>3 DEF vars, disk, logVars, procVars
    <2> QED
      BY <1>1, <2>1 DEF Types
  <1>4. CASE Next
    BY <1>1, <1>2, <1>4, TypesRecovery, TypesBegin, TypesEnd, TypesOther DEF Next
  <1> QED
    BY <1>3, <1>4

-----------------------------------------------------------------------------
(* Ops *)

LEMMA NoneActive == Cardinality({}) = 0 /\ IsFiniteSet(Active) /\ Active \subseteq Proc
  <1>1. Active \subseteq Proc
    BY DEF Active
  <1> QED
    BY <1>1, LogFacts, FS_Subset, FS_EmptySet

LEMMA OpsInit == Init => Ops
  <1> SUFFICES ASSUME Init PROVE Ops
    OBVIOUS
  <1>1. \A p \in Proc : pc[p] = "out"
    BY DEF Init
  <1>2. Active = {}
    BY <1>1 DEF Active
  <1> QED
    BY <1>1, <1>2, NoneActive DEF Init, Ops, Ending

(* Where processes only move between labels outside and before an          *)
(* operation, or from one step of end_op() to the next.                    *)
LEMMA OpsKept ==
    ASSUME Ops, <<outstanding, committing, boot>>' = <<outstanding, committing, boot>>,
           \A q \in Proc : pc'[q] = "in" <=> pc[q] = "in",
           \A q \in Proc : pc'[q] \in Ending <=> pc[q] \in Ending,
           boot # "up" => pc' = pc
    PROVE  Ops'
  <1>1. Active' = Active
    BY DEF Active
  <1> QED
    BY <1>1 DEF Ops

(* What Ops asks when nobody is ending. *)
LEMMA OpsOnly ==
    ASSUME \A q \in Proc : pc'[q] \notin Ending, boot' = "up", ~committing',
           Cardinality(Active') = outstanding'
    PROVE  Ops'
  BY DEF Ops

(* The last operation is the one that ends. *)
LEMMA LastActive ==
    ASSUME Types, Ops, NEW p \in Proc, pc[p] = "in", outstanding = 1
    PROVE  \A q \in Proc : q # p => pc[q] # "in"
  <1>1. p \in Active /\ Cardinality(Active) = 1 /\ IsFiniteSet(Active)
    BY NoneActive DEF Active, Ops
  <1>2. PICK x : Active = {x}
    BY <1>1, FS_Singleton
  <1> QED
    BY <1>1, <1>2 DEF Active

LEMMA OpsNext == LogInv /\ [Next]_vars => Ops'
  <1> SUFFICES ASSUME Types, Ops, [Next]_vars
               PROVE  Ops'
    BY DEF LogInv
  <1>0. pc \in [Proc -> Labels] /\ outstanding \in Nat
    BY DEF Types
  <1>1. CASE \/ UNCHANGED vars \/ RecoverInstall
             \/ \E b \in Block : Bread(b) \/ Recycle(b)
             \/ \E p \in Proc : \/ WriteLog(p) \/ InstallTrans(p)
                                \/ \E b \in Block : LogWrite(p, b)
    <2>1. <<outstanding, committing, boot, pc>>' = <<outstanding, committing, boot, pc>>
      BY <1>1 DEF vars, RecoverInstall, Bread, Recycle, WriteLog, InstallTrans,
                  LogWrite, logVars, procVars
    <2> QED
      BY <2>1, OpsKept
  <1>2. CASE ReadHead \/ RecoverClear
    <2>1. <<outstanding, committing, pc>>' = <<outstanding, committing, pc>>
      BY <1>2 DEF ReadHead, RecoverClear, procVars
    <2>2. boot # "up" /\ Active' = Active
      BY <1>2, <2>1 DEF ReadHead, RecoverClear, Active
    <2> QED
      BY <2>1, <2>2 DEF Ops
  <1>3. ASSUME NEW p \in Proc,
               CallBeginOp(p) \/ BeginSleep(p) \/ WriteHead(p) \/ ClearHead(p)
        PROVE  Ops'
    <2>1. /\ <<outstanding, committing, boot>>' = <<outstanding, committing, boot>>
          /\ pc[p] # "out" \/ boot = "up"
      BY <1>3 DEF CallBeginOp, BeginSleep, WriteHead, ClearHead, logVars
    <2>2. /\ \A q \in Proc : q # p => pc'[q] = pc[q]
          /\ \/ pc[p] \in {"out", "begin"} /\ pc'[p] \in {"begin", "asleep"}
             \/ pc[p] \in {"log", "install"} /\ pc'[p] \in {"install", "end"}
      BY <1>0, <1>3 DEF CallBeginOp, BeginSleep, WriteHead, ClearHead
    <2>3. boot = "up"
      BY <2>1 DEF Ops
    <2>4. /\ pc'[p] = "in" <=> pc[p] = "in"
          /\ pc'[p] \in Ending <=> pc[p] \in Ending
      BY <2>2 DEF Ending
    <2> QED
      BY <2>1, <2>2, <2>3, <2>4, OpsKept
  <1>4. ASSUME NEW p \in Proc, BeginOp(p)
        PROVE  Ops'
    <2>1. /\ pc[p] = "begin" /\ ~committing
          /\ <<committing, boot>>' = <<committing, boot>> /\ outstanding' = outstanding + 1
      BY <1>4 DEF BeginOp, MayBegin
    <2>2. pc'[p] = "in" /\ \A q \in Proc : q # p => pc'[q] = pc[q]
      BY <1>0, <1>4 DEF BeginOp
    <2>3. Active' = Active \cup {p} /\ p \notin Active
      BY <2>1, <2>2 DEF Active
    <2>4. Cardinality(Active') = outstanding'
      BY <2>1, <2>3, NoneActive, FS_AddElement, Zenon DEF Ops
    <2>5. \A q \in Proc : pc[q] \notin Ending
      BY <2>1 DEF Ops
    <2>6. \A q \in Proc : pc'[q] \notin Ending
      BY <2>2, <2>5 DEF Ending
    <2>7. boot' = "up" /\ ~committing'
      BY <2>1 DEF Ops
    <2> QED
      BY <2>4, <2>6, <2>7, OpsOnly
  <1>5. ASSUME NEW p \in Proc, EndOp(p)
        PROVE  Ops'
    <2>1. /\ pc[p] = "in" /\ outstanding' = outstanding - 1
          /\ <<committing, boot>>' = <<committing, boot>>
      BY <1>5 DEF EndOp
    <2>2. /\ pc'[p] = "out"
          /\ \A q \in Proc : q # p =>
                pc'[q] = IF pc[q] = "asleep" THEN "begin" ELSE pc[q]
      BY <1>0, <1>5 DEF EndOp, WakeLog
    <2>3. Active' = Active \ {p} /\ p \in Active
      BY <2>1, <2>2 DEF Active
    <2>4. Cardinality(Active') = outstanding'
      BY <2>1, <2>3, NoneActive, FS_RemoveElement DEF Ops
    <2>5. \A q \in Proc : pc[q] \notin Ending
      BY <2>3 DEF Ops
    <2>6. \A q \in Proc : pc'[q] \notin Ending
      BY <2>2, <2>5 DEF Ending
    <2>7. boot' = "up" /\ ~committing'
      BY <2>1, <2>5 DEF Ops
    <2> QED
      BY <2>4, <2>6, <2>7, OpsOnly
  <1>6. ASSUME NEW p \in Proc, EndOpLast(p)
        PROVE  Ops'
    <2>1. /\ pc[p] = "in" /\ outstanding = 1 /\ outstanding' = 0
          /\ committing' = TRUE /\ boot' = boot
      BY <1>6 DEF EndOpLast
    <2>2. /\ pc'[p] \in {"end", "log"}
          /\ \A q \in Proc : q # p => pc'[q] = pc[q]
      BY <1>0, <1>6 DEF EndOpLast
    <2>3. Active' = {}
      BY <2>1, <2>2, LastActive DEF Active
    <2>4. p \in Active
      BY <2>1 DEF Active
    <2>5. \A q \in Proc : pc[q] \notin Ending
      BY <2>4 DEF Ops
    <2>6. \A q \in Proc : pc'[q] \in Ending <=> q = p
      BY <2>2, <2>5 DEF Ending
    <2>7. boot = "up"
      BY <2>1 DEF Ops
    <2> QED
      BY <2>1, <2>3, <2>6, <2>7, NoneActive DEF Ops
  <1>7. ASSUME NEW p \in Proc, EndCommit(p)
        PROVE  Ops'
    <2>1. /\ pc[p] = "end" /\ committing' = FALSE
          /\ <<outstanding, boot>>' = <<outstanding, boot>>
      BY <1>7 DEF EndCommit
    <2>2. /\ pc'[p] = "out"
          /\ \A q \in Proc : q # p =>
                pc'[q] = IF pc[q] = "asleep" THEN "begin" ELSE pc[q]
      BY <1>0, <1>7 DEF EndCommit, WakeLog
    <2>3. Active' = Active
      BY <2>1, <2>2 DEF Active
    <2>4. \A q \in Proc : pc'[q] \notin Ending
      BY <2>1, <2>2 DEF Ops, Ending
    <2>5. boot = "up"
      BY <2>1 DEF Ops
    <2> QED
      BY <2>1, <2>3, <2>4, <2>5 DEF Ops
  <1>8. CASE Crash
    <2>1. /\ outstanding' = 0 /\ committing' = FALSE
          /\ \A q \in Proc : pc'[q] = "out"
      BY <1>8 DEF Crash
    <2>2. Active' = {}
      BY <2>1 DEF Active
    <2> QED
      BY <2>1, <2>2, NoneActive DEF Ops, Ending
  <1> QED
    BY <1>1, <1>2, <1>3, <1>4, <1>5, <1>6, <1>7, <1>8 DEF Next, BeginStep, EndStep

-----------------------------------------------------------------------------
(* Headers and Blocks *)

LEMMA BlocksInit == Init => Headers /\ Blocks
  <1> SUFFICES ASSUME Init PROVE Headers /\ Blocks
    OBVIOUS
  <1>1. /\ head = <<>> /\ lh = <<>> /\ boot = "read" /\ Len(<<>>) = 0
        /\ \A p \in Proc : pc[p] = "out"
        /\ \A b \in Block : cache[b] = NotCached /\ pins[b] = 0
    BY DEF Init
  <1>2. ~Installing /\ Distinct(<<>>)
    BY <1>1 DEF Installing, Distinct
  <1> QED
    <2>1. Headers
      BY <1>1, <1>2 DEF Headers
    <2>2. Unlogged
      BY <1>1 DEF Unlogged, Clean
    <2>3. Pinned /\ Copied /\ Homed /\ Waiting
      BY <1>1, <1>2 DEF Pinned, Copied, Homed, Waiting
    <2> QED
      BY <2>1, <2>2, <2>3 DEF Blocks

(* A step that leaves disk, cache and log alone. *)
LEMMA BlocksKept ==
    ASSUME Headers, Blocks,
           <<home, logdata, head, cache, pins, lh, boot, tail>>'
             = <<home, logdata, head, cache, pins, lh, boot, tail>>,
           \A q \in Proc : pc'[q] = "install" <=> pc[q] = "install",
           \A q \in Proc : pc'[q] = "log" => pc[q] = "log",
           boot = "up" /\ lh # <<>> => \E q \in Proc : pc'[q] \in {"in", "log", "install"}
    PROVE  Headers' /\ Blocks'
  <1>1. Installing' <=> Installing
    BY DEF Installing
  <1>2. Headers'
    BY <1>1 DEF Headers, Distinct
  <1>3. (\E q \in Proc : pc'[q] = "log") => \E q \in Proc : pc[q] = "log"
    OBVIOUS
  <1>4. Blocks'
    <2>1. Unlogged'
      BY DEF Unlogged, Blocks, Clean
    <2>2. Pinned'
      BY <1>1 DEF Pinned, Blocks
    <2>3. Copied'
      BY <1>1, <1>3 DEF Copied, Blocks
    <2>4. Homed'
      BY <1>1 DEF Homed, Blocks, Clean
    <2>5. Waiting'
      BY <1>1 DEF Waiting, Blocks
    <2> QED
      BY <2>1, <2>2, <2>3, <2>4, <2>5 DEF Blocks
  <1> QED
    BY <1>2, <1>4

LEMMA BlocksRecovery ==
    ASSUME Types, Ops, Headers, Blocks, ReadHead \/ RecoverInstall \/ RecoverClear
    PROVE  Headers' /\ Blocks'
  <1>1. /\ pc' = pc /\ boot # "up"
        /\ \A p \in Proc : pc[p] = "out"
    BY DEF ReadHead, RecoverInstall, RecoverClear, procVars, Ops
  <1>2. ~Installing /\ ~Installing' /\ \A p \in Proc : pc'[p] = "out"
    BY <1>1 DEF Installing
  <1>3. \A b \in Block : Clean(b)
    BY <1>1 DEF Blocks, Unlogged
  <1>4. CASE ReadHead
    <2>1. /\ lh' = head /\ head' = head /\ tail' = 1 /\ boot' = "install"
          /\ <<home, cache, pins>>' = <<home, cache, pins>>
      BY <1>4 DEF ReadHead, disk
    <2>2. \A b \in Block : Clean(b)'
      BY <1>3, <2>1 DEF Clean
    <2>3. \A k \in 1 .. Len(lh') : ~(k < tail')
      BY <2>1
    <2> QED
      <3>1. Headers'
        <4>1. Distinct(head)
          BY DEF Headers
        <4>2. Distinct(lh)' /\ Distinct(head)'
          BY <2>1, <4>1 DEF Distinct
        <4> QED
          BY <1>2, <2>1, <4>2 DEF Headers
      <3>2. Unlogged'
        BY <2>2 DEF Unlogged
      <3>3. Pinned'
        BY <2>1 DEF Pinned
      <3>4. Copied'
        BY <1>2 DEF Copied
      <3>5. Homed'
        BY <2>3 DEF Homed
      <3>6. Waiting'
        BY <1>2 DEF Waiting
      <3> QED
        BY <3>1, <3>2, <3>3, <3>4, <3>5, <3>6 DEF Blocks
  <1>5. CASE RecoverInstall
    <2>1. /\ boot = "install" /\ tail \in 1 .. Len(lh) /\ lh[tail] \in Block
          /\ <<logdata, head, pins, lh, boot>>' = <<logdata, head, pins, lh, boot>>
          /\ tail' = tail + 1
      BY <1>5, TailInLog DEF RecoverInstall, logVars
    <2>2. /\ home'[lh[tail]] = logdata[tail] /\ cache'[lh[tail]] = logdata[tail]
          /\ \A b \in Block : b # lh[tail] => home'[b] = home[b] /\ cache'[b] = cache[b]
      BY <1>5, <2>1 DEF RecoverInstall, Types
    <2>3. \A b \in Block : Clean(b)'
      BY <1>3, <2>1, <2>2 DEF Clean
    <2>4. ASSUME NEW k \in 1 .. Len(lh), k < tail'
          PROVE  home'[lh[k]] = logdata[k] /\ lh[k] \in Block
      <3>1. lh[k] \in Block
        BY DEF Types
      <3>2. CASE k = tail
        BY <2>2, <3>1, <3>2
      <3>3. CASE k # tail
        <4>1. k < tail
          BY <2>1, <2>4, <3>3
        <4>2. lh[k] # lh[tail]
          BY <2>1, <3>3 DEF Headers, Distinct
        <4>3. home[lh[k]] = logdata[k]
          BY <2>1, <4>1 DEF Blocks, Homed
        <4> QED
          BY <2>2, <3>1, <4>2, <4>3
      <3> QED
        BY <3>2, <3>3
    <2>5. Headers'
      BY <1>2, <2>1 DEF Headers, Distinct
    <2>6. Blocks'
      <3>1. Unlogged'
        BY <2>3 DEF Unlogged
      <3>2. Pinned'
        BY <1>1, <2>1 DEF Pinned
      <3>3. Copied'
        BY <1>2 DEF Copied
      <3>4. Homed'
        BY <2>1, <2>3, <2>4 DEF Homed
      <3>5. Waiting'
        BY <1>2 DEF Waiting
      <3> QED
        BY <3>1, <3>2, <3>3, <3>4, <3>5 DEF Blocks
    <2> QED
      BY <2>5, <2>6
  <1>6. CASE RecoverClear
    <2>1. /\ lh' = <<>> /\ head' = <<>> /\ boot' = "up" /\ Len(<<>>) = 0
          /\ <<home, cache, pins>>' = <<home, cache, pins>>
      BY <1>6 DEF RecoverClear
    <2>2. \A b \in Block : Clean(b)'
      BY <1>3, <2>1 DEF Clean
    <2> QED
      <3>1. Headers'
        BY <1>2, <2>1 DEF Headers, Distinct
      <3>2. Unlogged'
        BY <2>2 DEF Unlogged
      <3>3. Pinned'
        BY <2>1 DEF Pinned
      <3>4. Copied'
        BY <1>2 DEF Copied
      <3>5. Homed'
        BY <1>2, <2>1 DEF Homed
      <3>6. Waiting'
        BY <1>2 DEF Waiting
      <3> QED
        BY <3>1, <3>2, <3>3, <3>4, <3>5, <3>6 DEF Blocks
  <1> QED
    BY <1>4, <1>5, <1>6

LEMMA BlocksWrite ==
    ASSUME Types, Ops, Headers, Blocks, NEW p \in Proc, NEW b \in Block, LogWrite(p, b)
    PROVE  Headers' /\ Blocks'
  <1>1. /\ pc[p] = "in" /\ pc' = pc
        /\ <<home, logdata, head, boot>>' = <<home, logdata, head, boot>>
    BY DEF LogWrite, disk
  <1>2. /\ boot = "up" /\ ~Installing /\ head = <<>>
        /\ \A q \in Proc : pc[q] \notin {"log", "install"}
    BY <1>1, NoCommitter DEF Headers, Ending
  <1>3. ~Installing' /\ boot' = "up" /\ \A q \in Proc : pc'[q] # "log"
    BY <1>1, <1>2 DEF Installing
  <1>4. /\ cache'[b] # NotCached
        /\ \A x \in Block : x # b => cache'[x] = cache[x]
    BY LogFacts DEF LogWrite, Types
  <1>5. CASE /\ \A k \in 1 .. Len(lh) : lh[k] # b
             /\ lh' = Append(lh, b) /\ pins' = [pins EXCEPT ![b] = @ + 1]
    <2>1. /\ Len(lh') = Len(lh) + 1 /\ Len(lh) \in Nat
          /\ lh'[Len(lh) + 1] = b
          /\ \A k \in 1 .. Len(lh) : lh'[k] = lh[k] /\ lh[k] \in Block
      BY <1>5 DEF Types
    <2>2. \A k \in 1 .. Len(lh') : k \in 1 .. Len(lh) \/ k = Len(lh) + 1
      BY <2>1
    <2>3. Distinct(lh')
      BY <1>5, <2>1, <2>2 DEF Headers, Distinct
    <2>4. pins'[b] = 1 /\ \A x \in Block : x # b => pins'[x] = pins[x]
      <3>1. pins[b] = 0
        BY <1>5 DEF Blocks, Unlogged, Clean
      <3> QED
        BY <1>5, <3>1 DEF Types
    <2>5. \A k \in 1 .. Len(lh') : cache'[lh'[k]] # NotCached /\ pins'[lh'[k]] = 1
      <3>1. \A k \in 1 .. Len(lh) : cache[lh[k]] # NotCached /\ pins[lh[k]] = 1
        BY <1>2 DEF Blocks, Pinned
      <3>2. \A k \in 1 .. Len(lh) : cache'[lh[k]] # NotCached /\ pins'[lh[k]] = 1
        BY <1>4, <2>1, <2>4, <3>1
      <3> QED
        BY <1>4, <2>1, <2>2, <2>4, <3>2
    <2>6. ASSUME NEW x \in Block, \A k \in 1 .. Len(lh') : lh'[k] # x
          PROVE  Clean(x)'
      <3>1. x # b
        BY <2>1, <2>6
      <3>2. \A k \in 1 .. Len(lh) : lh[k] # x
        BY <2>1, <2>6
      <3> QED
        BY <1>1, <1>4, <2>4, <3>1, <3>2 DEF Blocks, Unlogged, Clean
    <2>7. Headers'
      BY <1>1, <1>2, <1>3, <2>3 DEF Headers
    <2>8. Blocks'
      <3>1. Unlogged'
        BY <1>3, <2>6 DEF Unlogged
      <3>2. Pinned'
        BY <2>5 DEF Pinned
      <3>3. Copied'
        BY <1>3 DEF Copied
      <3>4. Homed'
        BY <1>3 DEF Homed
      <3>5. Waiting'
        BY <1>3 DEF Waiting
      <3> QED
        BY <3>1, <3>2, <3>3, <3>4, <3>5 DEF Blocks
    <2> QED
      BY <2>7, <2>8
  <1>6. CASE /\ \E k \in 1 .. Len(lh) : lh[k] = b
             /\ lh' = lh /\ pins' = pins
    <2>1. \A k \in 1 .. Len(lh) : cache'[lh[k]] # NotCached /\ pins[lh[k]] = 1
      <3>1. \A k \in 1 .. Len(lh) : lh[k] \in Block
        BY DEF Types
      <3>2. \A k \in 1 .. Len(lh) : cache[lh[k]] # NotCached /\ pins[lh[k]] = 1
        BY <1>2 DEF Blocks, Pinned
      <3> QED
        BY <1>4, <3>1, <3>2
    <2>2. \A x \in Block : (\A k \in 1 .. Len(lh) : lh[k] # x) => Clean(x)'
      BY <1>1, <1>4, <1>6 DEF Blocks, Unlogged, Clean
    <2>3. Headers'
      BY <1>1, <1>2, <1>3, <1>6 DEF Headers, Distinct
    <2>4. Blocks'
      <3>1. Unlogged'
        BY <1>3, <1>6, <2>2 DEF Unlogged
      <3>2. Pinned'
        BY <1>6, <2>1 DEF Pinned
      <3>3. Copied'
        BY <1>3 DEF Copied
      <3>4. Homed'
        BY <1>3 DEF Homed
      <3>5. Waiting'
        BY <1>3 DEF Waiting
      <3> QED
        BY <3>1, <3>2, <3>3, <3>4, <3>5 DEF Blocks
    <2> QED
      BY <2>3, <2>4
  <1> QED
    BY <1>5, <1>6 DEF LogWrite

LEMMA BlocksCommit ==
    ASSUME Types, Ops, Headers, Blocks, NEW p \in Proc,
           EndOpLast(p) \/ WriteLog(p) \/ WriteHead(p)
    PROVE  Headers' /\ Blocks'
  <1>0. pc \in [Proc -> Labels]
    BY DEF Types
  <1>1. CASE EndOpLast(p)
    <2>1. /\ pc[p] = "in" /\ tail' = 1
          /\ <<home, logdata, head, cache, pins, lh, boot>>'
               = <<home, logdata, head, cache, pins, lh, boot>>
      BY <1>1 DEF EndOpLast, disk
    <2>2. /\ boot = "up" /\ ~Installing /\ \A q \in Proc : pc[q] # "install"
      BY <2>1, NoCommitter DEF Ending
    <2>3. /\ lh # <<>> => pc'[p] = "log"
          /\ pc'[p] \in {"end", "log"} /\ \A q \in Proc : q # p => pc'[q] = pc[q]
      BY <1>0, <1>1 DEF EndOpLast
    <2>4. ~Installing'
      BY <2>2, <2>3 DEF Installing
    <2>5. \A k \in 1 .. Len(lh') : ~(k < tail')
      BY <2>1
    <2>6. Headers'
      BY <2>1, <2>2, <2>3, <2>4 DEF Headers, Distinct
    <2>7. Blocks'
      <3>1. Unlogged'
        BY <2>1, <2>2 DEF Unlogged, Blocks, Clean
      <3>2. Pinned'
        BY <2>1, <2>2 DEF Pinned, Blocks
      <3>3. Copied'
        BY <2>5 DEF Copied
      <3>4. Homed'
        BY <2>5 DEF Homed
      <3>5. Waiting'
        BY <2>4 DEF Waiting
      <3> QED
        BY <3>1, <3>2, <3>3, <3>4, <3>5 DEF Blocks
    <2> QED
      BY <2>6, <2>7
  <1>2. CASE WriteLog(p)
    <2>1. /\ pc[p] = "log" /\ pc' = pc /\ tail' = tail + 1
          /\ tail \in 1 .. Len(lh) /\ tail \in Entry /\ lh[tail] \in Block
          /\ <<home, head, pins, lh, boot>>' = <<home, head, pins, lh, boot>>
      BY <1>2, TailInLog DEF WriteLog, logVars, procVars
    <2>2. boot = "up" /\ ~Installing
      BY <2>1, Committer DEF Ending
    <2>3. ~Installing'
      BY <2>1, <2>2 DEF Installing
    <2>4. Contents(lh[tail]) = cache[lh[tail]]
      BY <2>1, <2>2 DEF Blocks, Pinned, Contents
    <2>5. /\ \A b \in Block : cache'[b] = cache[b]
          /\ logdata'[tail] = cache[lh[tail]]
          /\ \A k \in Entry : k # tail => logdata'[k] = logdata[k]
      BY <1>2, <2>1, <2>4 DEF WriteLog, Types
    <2>6. \A k \in 1 .. Len(lh) : lh[k] \in Block /\ k \in Entry
      BY LogFacts DEF Types, Entry
    <2>7. ASSUME NEW k \in 1 .. Len(lh), k < tail'
          PROVE  logdata'[k] = cache'[lh[k]]
      <3>1. CASE k = tail
        BY <2>5, <2>6, <3>1
      <3>2. CASE k # tail
        <4>1. k < tail
          BY <2>1, <2>7, <3>2
        <4>2. logdata[k] = cache[lh[k]]
          BY <2>1, <4>1 DEF Blocks, Copied
        <4> QED
          BY <2>5, <2>6, <3>2, <4>2
      <3> QED
        BY <3>1, <3>2
    <2>8. Headers'
      BY <2>1, <2>2, <2>3 DEF Headers, Distinct
    <2>9. \A b \in Block : Clean(b) => Clean(b)'
      BY <2>1, <2>5 DEF Clean
    <2>10. \A k \in 1 .. Len(lh) : cache'[lh[k]] # NotCached /\ pins[lh[k]] = 1
      BY <2>2, <2>5, <2>6 DEF Blocks, Pinned
    <2>11. Blocks'
      <3>1. Unlogged'
        BY <2>1, <2>2, <2>9 DEF Unlogged, Blocks
      <3>2. Pinned'
        BY <2>1, <2>10 DEF Pinned
      <3>3. Copied'
        BY <2>1, <2>7 DEF Copied
      <3>4. Homed'
        BY <2>1, <2>2, <2>3 DEF Homed
      <3>5. Waiting'
        BY <2>3 DEF Waiting
      <3> QED
        BY <3>1, <3>2, <3>3, <3>4, <3>5 DEF Blocks
    <2> QED
      BY <2>8, <2>11
  <1>3. CASE WriteHead(p)
    <2>1. /\ pc[p] = "log" /\ tail > Len(lh) /\ head' = lh /\ tail' = 1
          /\ <<home, logdata, cache, pins, lh, boot>>'
               = <<home, logdata, cache, pins, lh, boot>>
      BY <1>3 DEF WriteHead, logVars
    <2>2. pc'[p] = "install" /\ \A q \in Proc : q # p => pc'[q] = pc[q]
      BY <1>0, <1>3 DEF WriteHead
    <2>3. /\ boot = "up" /\ ~Installing
          /\ \A q \in Proc : q # p => pc[q] # "log"
      BY <2>1, Committer DEF Ending
    <2>4. Installing' /\ \A q \in Proc : pc'[q] # "log"
      BY <2>2, <2>3 DEF Installing
    <2>5. \A k \in 1 .. Len(lh) : ~(k < tail') /\ k < tail
      BY <2>1 DEF Types
    <2>6. \A k \in 1 .. Len(lh) : cache[lh[k]] = logdata[k] /\ pins[lh[k]] = 1
      BY <2>1, <2>3, <2>5 DEF Blocks, Pinned, Copied
    <2>7. Headers'
      <3>1. Distinct(lh)
        BY DEF Headers
      <3>2. Distinct(lh)' /\ Distinct(head)'
        BY <2>1, <3>1 DEF Distinct
      <3> QED
        BY <2>1, <2>2, <2>3, <2>4, <3>2 DEF Headers
    <2>8. Blocks'
      <3>1. Unlogged'
        BY <2>1, <2>3 DEF Unlogged, Blocks, Clean
      <3>2. Pinned'
        BY <2>4 DEF Pinned
      <3>3. Copied'
        BY <2>4 DEF Copied
      <3>4. Homed'
        BY <2>1, <2>5 DEF Homed
      <3>5. Waiting'
        BY <2>1, <2>6 DEF Waiting
      <3> QED
        BY <3>1, <3>2, <3>3, <3>4, <3>5 DEF Blocks
    <2> QED
      BY <2>7, <2>8
  <1> QED
    BY <1>1, <1>2, <1>3

LEMMA BlocksInstall ==
    ASSUME Types, Ops, Headers, Blocks, NEW p \in Proc, InstallTrans(p) \/ ClearHead(p)
    PROVE  Headers' /\ Blocks'
  <1>0. pc \in [Proc -> Labels] /\ pc[p] = "install" /\ \A k \in 1 .. Len(lh) : lh[k] \in Block
    BY DEF Types, InstallTrans, ClearHead
  <1>1. /\ boot = "up" /\ Installing
        /\ \A q \in Proc : q # p => pc[q] \notin {"log", "install"}
    BY <1>0, Committer DEF Ending
  <1>2. CASE InstallTrans(p)
    <2>0. tail \in 1 .. Len(lh) /\ tail >= tail
      BY <1>2, TailInLog DEF InstallTrans
    <2>1. /\ pc' = pc /\ tail' = tail + 1
          /\ tail \in 1 .. Len(lh) /\ lh[tail] \in Block
          /\ <<logdata, head, lh, boot>>' = <<logdata, head, lh, boot>>
      BY <1>2, TailInLog DEF InstallTrans, logVars, procVars
    <2>2. Installing' /\ \A q \in Proc : pc'[q] # "log"
      BY <1>0, <1>1, <2>1 DEF Installing
    <2>3. pins[lh[tail]] = 1
      BY <1>1, <2>0, Zenon DEF Blocks, Waiting
    <2>4. /\ home'[lh[tail]] = logdata[tail] /\ cache'[lh[tail]] = logdata[tail]
          /\ \A b \in Block : b # lh[tail] => home'[b] = home[b] /\ cache'[b] = cache[b]
      BY <1>2, <2>1 DEF InstallTrans, Types
    <2>5. /\ pins'[lh[tail]] = 0
          /\ \A b \in Block : b # lh[tail] => pins'[b] = pins[b]
      <3>1. pins \in [Block -> Nat] /\ pins' = [pins EXCEPT ![lh[tail]] = @ - 1]
        BY <1>2 DEF InstallTrans, Types
      <3> QED
        BY <2>1, <2>3, <3>1
    <2>6. \A b \in Block : b # lh[tail] => (Clean(b)' <=> Clean(b))
      BY <2>4, <2>5 DEF Clean
    <2>7. \A b \in Block : b = lh[tail] => Clean(b)'
      BY <2>4, <2>5 DEF Clean
    <2>8. ASSUME NEW k \in 1 .. Len(lh), k < tail'
          PROVE  home'[lh[k]] = logdata[k] /\ Clean(lh[k])'
      <3>1. CASE k = tail
        <4>1. home'[lh[k]] = logdata[k] /\ lh'[k] = lh[k] /\ lh[k] = lh[tail]
          BY <2>1, <2>4, <3>1
        <4> QED
          BY <2>1, <2>7, <4>1 DEF Clean
      <3>2. CASE k # tail
        <4>1. k < tail
          BY <2>1, <2>8, <3>2
        <4>2. lh[k] # lh[tail]
          BY <2>1, <3>2 DEF Headers, Distinct
        <4>3. home[lh[k]] = logdata[k] /\ Clean(lh[k])
          BY <1>1, <4>1 DEF Blocks, Homed
        <4>4. home'[lh[k]] = logdata[k]
          BY <1>0, <2>4, <4>2, <4>3
        <4>5. cache'[lh[k]] = cache[lh[k]] /\ pins'[lh[k]] = pins[lh[k]]
              /\ home'[lh[k]] = home[lh[k]]
          BY <1>0, <2>4, <2>5, <4>2
        <4> QED
          BY <2>1, <4>3, <4>4, <4>5 DEF Clean
      <3> QED
        BY <3>1, <3>2
    <2>9. ASSUME NEW k \in 1 .. Len(lh), k >= tail'
          PROVE  cache'[lh[k]] = logdata[k] /\ pins'[lh[k]] = 1
      <3>1. k >= tail /\ k # tail
        BY <2>1, <2>9
      <3>2. lh[k] # lh[tail]
        BY <2>1, <3>1 DEF Headers, Distinct
      <3>3. cache[lh[k]] = logdata[k] /\ pins[lh[k]] = 1
        BY <1>1, <3>1 DEF Blocks, Waiting
      <3> QED
        BY <1>0, <2>4, <2>5, <3>2, <3>3
    <2>10. Headers'
      BY <1>0, <1>1, <2>1, <2>2 DEF Headers, Distinct
    <2>11. \A b \in Block : (\A k \in 1 .. Len(lh) : lh[k] # b) => Clean(b)'
      BY <2>1, <2>6 DEF Blocks, Unlogged
    <2>12. Blocks'
      <3>1. /\ lh' = lh /\ logdata' = logdata /\ boot' = "up"
        BY <1>1, <2>1
      <3> QED
        <4>1. Unlogged'
          BY <2>11, <3>1 DEF Unlogged
        <4>2. Pinned'
          BY <2>2 DEF Pinned
        <4>3. Copied'
          BY <2>2 DEF Copied
        <4>4. Homed'
          BY <2>8, <3>1 DEF Homed
        <4>5. Waiting'
          BY <2>9, <3>1 DEF Waiting
        <4> QED
          BY <4>1, <4>2, <4>3, <4>4, <4>5 DEF Blocks
    <2> QED
      BY <2>10, <2>12
  <1>3. CASE ClearHead(p)
    <2>1. /\ tail > Len(lh) /\ head' = <<>> /\ lh' = <<>> /\ Len(<<>>) = 0
          /\ <<home, cache, pins, boot>>' = <<home, cache, pins, boot>>
      BY <1>3 DEF ClearHead
    <2>2. pc'[p] = "end" /\ \A q \in Proc : q # p => pc'[q] = pc[q]
      BY <1>0, <1>3 DEF ClearHead
    <2>3. ~Installing' /\ \A q \in Proc : pc'[q] # "log"
      BY <1>1, <2>2 DEF Installing
    <2>4. \A b \in Block : Clean(b)
      <3>1. \A k \in 1 .. Len(lh) : k < tail
        BY <2>1 DEF Types
      <3>2. \A k \in 1 .. Len(lh) : Clean(lh[k])
        BY <1>1, <3>1 DEF Blocks, Homed
      <3> QED
        BY <3>2 DEF Blocks, Unlogged
    <2>5. \A b \in Block : Clean(b)'
      BY <2>1, <2>4 DEF Clean
    <2> QED
      <3>1. Headers'
        <4>1. Distinct(<<>>)
          BY <2>1 DEF Distinct
        <4>2. boot' = "up"
          BY <1>1, <2>1
        <4> QED
          BY <2>1, <2>3, <4>1, <4>2 DEF Headers
      <3>2. Unlogged'
        BY <2>5 DEF Unlogged
      <3>3. Pinned'
        BY <2>1 DEF Pinned
      <3>4. Copied'
        BY <2>3 DEF Copied
      <3>5. Homed'
        BY <2>1 DEF Homed
      <3>6. Waiting'
        BY <2>3 DEF Waiting
      <3> QED
        BY <3>1, <3>2, <3>3, <3>4, <3>5, <3>6 DEF Blocks
  <1> QED
    BY <1>2, <1>3

(* The buffer cache may fetch any block and drop any that is not pinned. *)
LEMMA BlocksCache ==
    ASSUME Types, Ops, Headers, Blocks, NEW b \in Block, Bread(b) \/ Recycle(b)
    PROVE  Headers' /\ Blocks'
  <1>1. /\ <<home, logdata, head, pins, lh, boot, pc, tail>>'
             = <<home, logdata, head, pins, lh, boot, pc, tail>>
        /\ cache'[b] \in {NotCached, home[b]}
        /\ \A x \in Block : x # b => cache'[x] = cache[x]
    BY DEF Bread, Recycle, disk, logVars, procVars, Types
  <1>2. cache[b] = NotCached \/ pins[b] = 0
    BY DEF Bread, Recycle
  <1>3. Installing' <=> Installing
    BY <1>1 DEF Installing
  <1>4. \A x \in Block : Clean(x) => Clean(x)'
    BY <1>1 DEF Clean
  <1>5. \A k \in 1 .. Len(lh) : lh[k] \in Block /\ k \in Entry
    BY LogFacts DEF Types, Entry
  <1>6. ASSUME boot = "up", ~Installing, NEW k \in 1 .. Len(lh)
        PROVE  lh[k] # b
    BY <1>2, <1>6 DEF Blocks, Pinned
  <1>7. ASSUME Installing, NEW k \in 1 .. Len(lh), k >= tail
        PROVE  lh[k] # b
    <2>1. logdata[k] # NotCached
      BY <1>5, LogFacts DEF Types
    <2> QED
      BY <1>2, <1>7, <2>1 DEF Blocks, Waiting
  <1>8. ASSUME NEW p \in Proc, pc[p] = "log"
        PROVE  boot = "up" /\ ~Installing
    BY <1>8, Committer DEF Ending
  <1>9. Headers'
    BY <1>1, <1>3 DEF Headers, Distinct
  <1>10. Blocks'
    <2>1. \A x \in Block : boot # "up" \/ (\A k \in 1 .. Len(lh) : lh[k] # x) => Clean(x)'
      BY <1>4 DEF Blocks, Unlogged
    <2>2. boot = "up" /\ ~Installing =>
            \A k \in 1 .. Len(lh) : cache'[lh[k]] # NotCached /\ pins[lh[k]] = 1
      BY <1>1, <1>5, <1>6 DEF Blocks, Pinned
    <2>3. (\E p \in Proc : pc[p] = "log") =>
            \A k \in 1 .. Len(lh) : k < tail => logdata[k] = cache'[lh[k]]
      BY <1>1, <1>5, <1>6, <1>8 DEF Blocks, Copied
    <2>4. boot = "install" \/ Installing =>
            \A k \in 1 .. Len(lh) : k < tail => home[lh[k]] = logdata[k] /\ Clean(lh[k])
      BY DEF Blocks, Homed
    <2>5. Installing => \A k \in 1 .. Len(lh) : k >= tail
                           => cache'[lh[k]] = logdata[k] /\ pins[lh[k]] = 1
      BY <1>1, <1>5, <1>7 DEF Blocks, Waiting
    <2>6. \A k \in 1 .. Len(lh) : Clean(lh[k]) => Clean(lh[k])'
      BY <1>1, <1>4, <1>5
    <2> QED
      <3>1. Unlogged'
        BY <1>1, <2>1 DEF Unlogged
      <3>2. Pinned'
        BY <1>1, <1>3, <2>2 DEF Pinned
      <3>3. Copied'
        BY <1>1, <2>3 DEF Copied
      <3>4. Homed'
        BY <1>1, <1>3, <2>4, <2>6 DEF Homed
      <3>5. Waiting'
        BY <1>1, <1>3, <2>5 DEF Waiting
      <3> QED
        BY <3>1, <3>2, <3>3, <3>4, <3>5 DEF Blocks
  <1> QED
    BY <1>9, <1>10

LEMMA BlocksNext == LogInv /\ Ops' /\ [Next]_vars => Headers' /\ Blocks'
  <1> SUFFICES ASSUME Types, Ops, Headers, Blocks, Ops', [Next]_vars
               PROVE  Headers' /\ Blocks'
    BY DEF LogInv
  <1>0. pc \in [Proc -> Labels] /\ outstanding \in Nat
    BY DEF Types
  <1>1. CASE UNCHANGED vars
    <2>1. <<home, logdata, head, cache, pins, lh, boot, tail, pc>>'
            = <<home, logdata, head, cache, pins, lh, boot, tail, pc>>
      BY <1>1 DEF vars, disk, logVars, procVars
    <2> QED
      BY <2>1, BlocksKept DEF Headers
  <1>2. ASSUME NEW p \in Proc, CallBeginOp(p) \/ BeginOp(p) \/ BeginSleep(p)
        PROVE  Headers' /\ Blocks'
    <2>1. <<home, logdata, head, cache, pins, lh, boot, tail>>'
            = <<home, logdata, head, cache, pins, lh, boot, tail>>
      BY <1>2 DEF CallBeginOp, BeginOp, BeginSleep, disk, logVars
    <2>2. /\ pc[p] \in {"out", "begin"} /\ pc'[p] \in {"begin", "in", "asleep"}
          /\ \A q \in Proc : q # p => pc'[q] = pc[q]
      BY <1>0, <1>2 DEF CallBeginOp, BeginOp, BeginSleep
    <2>3. boot = "up" /\ lh # <<>> => \E q \in Proc : pc'[q] \in {"in", "log", "install"}
      BY <2>2 DEF Headers
    <2> QED
      BY <2>1, <2>2, <2>3, BlocksKept
  <1>3. ASSUME NEW p \in Proc, EndOp(p) \/ EndCommit(p)
        PROVE  Headers' /\ Blocks'
    <2>1. <<home, logdata, head, cache, pins, lh, boot, tail>>'
            = <<home, logdata, head, cache, pins, lh, boot, tail>>
      BY <1>3 DEF EndOp, EndCommit, disk
    <2>2. /\ pc[p] \in {"in", "end"} /\ pc'[p] = "out"
          /\ \A q \in Proc : q # p => pc'[q] = IF pc[q] = "asleep" THEN "begin" ELSE pc[q]
      BY <1>0, <1>3 DEF EndOp, EndCommit, WakeLog
    <2>3. boot = "up" /\ lh # <<>> => \E q \in Proc : pc'[q] \in {"in", "log", "install"}
      <3>1. CASE EndOp(p)
        <4>1. outstanding' # 0
          BY <1>0, <3>1 DEF EndOp
        <4>2. Active' # {}
          BY <4>1, NoneActive DEF Ops
        <4> QED
          BY <4>2 DEF Active
      <3>2. CASE EndCommit(p)
        <4>1. pc[p] = "end"
          BY <3>2 DEF EndCommit
        <4> QED
          BY <2>2, <4>1 DEF Headers
      <3> QED
        BY <1>3, <3>1, <3>2
    <2>4. \A q \in Proc : /\ pc'[q] = "install" <=> pc[q] = "install"
                          /\ pc'[q] = "log" => pc[q] = "log"
      BY <2>2
    <2> QED
      BY <2>1, <2>3, <2>4, BlocksKept
  <1>4. CASE Crash
    <2>1. /\ lh' = <<>> /\ head' = head /\ boot' = "read" /\ Len(<<>>) = 0
          /\ \A q \in Proc : pc'[q] = "out"
          /\ \A b \in Block : cache'[b] = NotCached /\ pins'[b] = 0
      BY <1>4 DEF Crash, disk
    <2>2. ~Installing'
      BY <2>1 DEF Installing
    <2> QED
      <3>1. Headers'
        <4>1. Distinct(<<>>) /\ Distinct(head)
          BY <2>1 DEF Headers, Distinct
        <4> QED
          BY <2>1, <2>2, <4>1 DEF Headers
      <3>2. Unlogged'
        BY <2>1 DEF Unlogged, Clean
      <3>3. Pinned'
        BY <2>1 DEF Pinned
      <3>4. Copied'
        BY <2>1 DEF Copied
      <3>5. Homed'
        BY <2>1, <2>2 DEF Homed
      <3>6. Waiting'
        BY <2>2 DEF Waiting
      <3> QED
        BY <3>1, <3>2, <3>3, <3>4, <3>5, <3>6 DEF Blocks
  <1> QED
    BY <1>1, <1>2, <1>3, <1>4, BlocksRecovery, BlocksWrite, BlocksCommit, BlocksInstall,
       BlocksCache DEF Next, BeginStep, EndStep

LEMMA LogInvHolds == Spec => []LogInv
  <1>1. Init => LogInv
    BY InitTypes, OpsInit, BlocksInit DEF LogInv
  <1>2. LogInv /\ [Next]_vars => LogInv'
    BY TypesNext, OpsNext, BlocksNext DEF LogInv
  <1> QED
    BY <1>1, <1>2, PTL DEF Spec

(* The log is typed as declared: in particular the header never outgrows   *)
(* its LOGBLOCKS entries, and outstanding never counts more operations     *)
(* than there are processes, nor drops below none.                         *)
THEOREM LogTyped == Spec => []TypeOK
  <1>1. LogInv => TypeOK
    <2> SUFFICES ASSUME LogInv PROVE TypeOK
      OBVIOUS
    <2>1. Types /\ outstanding = Cardinality(Active)
      BY DEF LogInv, Ops
    <2>2. Active \subseteq Proc /\ IsFiniteSet(Proc)
      BY LogFacts DEF Active
    <2>3. /\ Cardinality(Active) <= Cardinality(Proc)
          /\ Cardinality(Active) \in Nat /\ Cardinality(Proc) \in Nat
      BY <2>2, FS_Subset, FS_CardinalityType
    <2>4. outstanding \in 0 .. Cardinality(Proc)
      BY <2>1, <2>3
    <2>5. \A s \in {head, lh} : Len(s) <= LOGBLOCKS /\ \A k \in 1 .. Len(s) : s[k] \in Block
      BY <2>1 DEF Types
    <2> QED
      BY <2>1, <2>4, <2>5, Zenon DEF Types, TypeOK
  <1> QED
    BY <1>1, LogInvHolds, PTL

(* end_op() leaves nothing behind: when no operation is in progress and no *)
(* commit is under way, the header on disk is clear, every block is on     *)
(* disk as the cache shows it, and install_trans() has unpinned every      *)
(* buffer, wherever crashes came before.                                   *)
THEOREM DurableHolds == Spec => []Durable
  <1>1. LogInv => Durable
    <2> SUFFICES ASSUME LogInv, boot = "up", outstanding = 0, ~committing
                 PROVE  /\ head = <<>>
                        /\ \A b \in Block : Contents(b) = home[b] /\ pins[b] = 0
      BY DEF Durable
    <2>1. \A p \in Proc : pc[p] \notin {"in", "log", "install"}
      <3>1. Active = {}
        BY NoneActive, FS_EmptySet, Zenon DEF LogInv, Ops
      <3> QED
        BY <3>1 DEF LogInv, Ops, Active, Ending
    <2>2. head = <<>> /\ lh = <<>>
      BY <2>1 DEF LogInv, Headers, Installing
    <2>3. \A b \in Block : Clean(b)
      BY <2>2 DEF LogInv, Blocks, Unlogged
    <2> QED
      BY <2>2, <2>3 DEF Clean, Contents
  <1> QED
    BY <1>1, LogInvHolds, PTL
(* What the file system may rely on: begin_op(), log_write() and end_op()  *)
(* with commit() and recovery behave like a disk on which transactions are *)
(* atomic.  The operations in progress, the blocks read through the cache  *)
(* and the blocks that recovery would restore change only as AtomicDisk    *)
(* says; in particular a crash between any two disk writes leaves all or   *)
(* nothing of a transaction, and none is committed half done.              *)
THEOREM LogImplementsAtomicDisk == Spec => AtomicSpec
  <1>1. Init => Atomic!Init
    <2> SUFFICES ASSUME Init PROVE Atomic!Init
      OBVIOUS
    <2>1. Active = {} /\ boot # "up" /\ head = <<>> /\ home = [b \in Block |-> 0]
      BY DEF Init, Active
    <2>2. \A b \in Block : Installed(<<>>, logdata, home)[b] = 0
      BY <2>1, EmptyHead
    <2>3. Installed(<<>>, logdata, home) = [b \in Block |-> 0]
      BY <2>2 DEF Installed
    <2>4. Recovered = [b \in Block |-> 0] /\ Current = Recovered
      BY <2>1, <2>3, StateMaps
    <2> QED
      BY <2>1, <2>4 DEF Active, Current, Atomic!Init
  <1>2. LogInv /\ [Next]_vars => [Atomic!Next]_(Atomic!vars)
    <2> SUFFICES ASSUME LogInv, [Next]_vars
                 PROVE  Atomic!Next \/ UNCHANGED Atomic!vars
      OBVIOUS
    <2>1. CASE UNCHANGED vars
      <3>1. <<disk, boot, cache, home, pc>>' = <<disk, boot, cache, home, pc>>
        BY <2>1 DEF vars, disk, procVars
      <3>2. Recovered' = Recovered
        BY <3>1, StableKept
      <3>3. Current' = Current /\ Active' = Active
        BY <3>1, <3>2, StateMaps DEF Active
      <3> QED
        BY <3>2, <3>3, Stutters
    <2>2. CASE ReadHead \/ RecoverInstall \/ RecoverClear
      <3>1. Recovered' = Recovered
        BY <2>2, StableKept DEF ReadHead
      <3> QED
        BY <2>2, <3>1, RecoverySteps, Stutters
    <2>3. ASSUME NEW p \in Proc, BeginOp(p) \/ EndOp(p) \/ EndOpLast(p)
          PROVE  Atomic!Next
      BY <2>3, OperationSteps DEF Atomic!Next
    <2>4. ASSUME NEW p \in Proc, NEW b \in Block, LogWrite(p, b)
          PROVE  Atomic!Next
      BY <2>4, WriteSteps DEF Atomic!Next
    <2>5. ASSUME NEW p \in Proc, WriteHead(p)
          PROVE  Atomic!Next
      BY <2>5, CommitStep DEF Atomic!Next
    <2>6. CASE Crash
      BY <2>6, CrashStep DEF Atomic!Next
    <2>7. ASSUME NEW p \in Proc, \/ CallBeginOp(p) \/ BeginSleep(p) \/ WriteLog(p)
                                \/ InstallTrans(p) \/ ClearHead(p) \/ EndCommit(p)
          PROVE  UNCHANGED Atomic!vars
      BY <2>7, HiddenSteps
    <2>8. ASSUME NEW b \in Block, Bread(b) \/ Recycle(b)
          PROVE  UNCHANGED Atomic!vars
      BY <2>8, CacheSteps
    <2> QED
      BY <2>1, <2>2, <2>3, <2>4, <2>5, <2>6, <2>7, <2>8 DEF Next, BeginStep, EndStep
  <1> QED
    BY <1>1, <1>2, LogInvHolds, PTL DEF Spec, AtomicSpec, Atomic!Spec
=============================================================================
