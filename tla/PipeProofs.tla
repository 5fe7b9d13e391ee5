----------------------------- MODULE PipeProofs -----------------------------
(***************************************************************************)
(* Proofs about the pipe of module Pipe, for any number of readers and     *)
(* writers and any PIPESIZE that divides 2^W: the ring holds the bytes     *)
(* written and not yet read, in order, also after the counters have        *)
(* wrapped (InOrder, inductive as it stands, by the arithmetic of the      *)
(* first section), and nobody sleeps at a pipe that is ready for it        *)
(* (SleepersWait, which needs who holds pi->lock and who will call         *)
(* wakeup()).                                                              *)
(***************************************************************************)
EXTENDS Pipe, TLAPS

(* Who is in the middle of a call holds pi->lock. *)
Holder ==
    \A p \in Proc : /\ pc[p] \in {"loop", "copy", "dozing"} => lock = p
                    /\ pc[p] = "copy" => p \in Reader

(* The read end is closed by the last reader. *)
ReadersGone == ~readopen => \A p \in Reader : pc[p] = "closed"

(* A writer sleeps at a full pipe, or a reader that takes bytes out will   *)
(* wake it; a reader sleeps at an empty one, or a writer that puts bytes   *)
(* in will wake it, or a writer was killed.                                *)
WritersSleep ==
    \A p \in Writer : pc[p] \in {"dozing", "asleep"} =>
        Full \/ \E r \in Reader : pc[r] = "copy"

ReadersSleep ==
    \A p \in Reader : pc[p] \in {"dozing", "asleep"} =>
        \/ Empty
        \/ \E q \in Writer : pc[q] = "loop"
        \/ \E q \in Writer : killed[q]

SleepInv == Holder /\ ReadersGone /\ WritersSleep /\ ReadersSleep
-----------------------------------------------------------------------------
(* Arithmetic *)

LEMMA DivMod ==
    ASSUME NEW a \in Nat, NEW P \in Nat \ {0}
    PROVE  \E q \in Nat : a = P * q + (a % P)
  <1>1. a \div P \in Nat
    OBVIOUS
  <1>2. a = P * (a \div P) + (a % P)
    OBVIOUS
  <1> QED
    BY <1>1, <1>2, Zenon

LEMMA ModRange ==
    ASSUME NEW a \in Nat, NEW P \in Nat \ {0}
    PROVE  a % P \in 0 .. P - 1
  OBVIOUS

(* Quotient and remainder are unique. *)
LEMMA Unique ==
    ASSUME NEW P \in Nat \ {0}, NEW q \in Nat, NEW k \in Nat,
           NEW r \in 0 .. P - 1, NEW s \in 0 .. P - 1, P * q + r = P * k + s
    PROVE  q = k /\ r = s
  <1>1. ASSUME NEW d \in Nat \ {0} PROVE P * d >= P
    OBVIOUS
  <1>2. ~(q > k)
    <2> SUFFICES ASSUME q > k PROVE FALSE
      OBVIOUS
    <2>1. q - k \in Nat \ {0}
      OBVIOUS
    <2>2. P * (q - k) >= P
      BY <1>1, <2>1
    <2>3. P * (q - k) = P * q - P * k
      OBVIOUS
    <2>4. P * q \in Nat /\ P * k \in Nat
      OBVIOUS
    <2> QED
      BY <2>2, <2>3, <2>4
  <1>3. ~(k > q)
    <2> SUFFICES ASSUME k > q PROVE FALSE
      OBVIOUS
    <2>1. k - q \in Nat \ {0}
      OBVIOUS
    <2>2. P * (k - q) >= P
      BY <1>1, <2>1
    <2>3. P * (k - q) = P * k - P * q
      OBVIOUS
    <2>4. P * q \in Nat /\ P * k \in Nat
      OBVIOUS
    <2> QED
      BY <2>2, <2>3, <2>4
  <1>4. q = k
    BY <1>2, <1>3
  <1>5. P * q \in Nat
    OBVIOUS
  <1> QED
    BY <1>4, <1>5

LEMMA SameRest ==
    ASSUME NEW P \in Nat \ {0}, NEW q \in Nat, NEW m \in Nat, NEW k \in Nat,
           NEW r \in 0 .. P - 1, NEW s \in 0 .. P - 1, (P * q + r) + P * m = P * k + s
    PROVE  r = s
  <1>1. PICK j \in Nat : j = q + m
    OBVIOUS
  <1>2. P * j = P * q + P * m /\ P * q \in Nat /\ P * m \in Nat
    BY <1>1
  <1>3. P * j + r = P * k + s
    BY <1>2
  <1> QED
    BY <1>3, Unique, Zenon

LEMMA ModShift ==
    ASSUME NEW P \in Nat \ {0}, NEW M \in Nat, M % P = 0, NEW x \in Nat
    PROVE  (x + M) % P = x % P
  <1>1. PICK q \in Nat : x = P * q + (x % P)
    BY DivMod, Zenon
  <1>2. PICK m \in Nat : M = P * m
    <2>1. PICK m \in Nat : M = P * m + (M % P)
      BY DivMod, Zenon
    <2> QED
      BY <2>1
  <1>3. x + M \in Nat
    OBVIOUS
  <1>4. PICK k \in Nat : x + M = P * k + ((x + M) % P)
    BY <1>3, DivMod, Zenon
  <1>5. x % P \in 0 .. P - 1 /\ (x + M) % P \in 0 .. P - 1
    BY <1>3, ModRange, Zenon
  <1>6. (P * q + (x % P)) + P * m = P * k + ((x + M) % P)
    BY <1>1, <1>2, <1>4, Zenon
  <1> QED
    BY <1>5, <1>6, SameRest, Zenon

(* Numbers less than P apart do not share a slot of the ring. *)
LEMMA ModApart ==
    ASSUME NEW P \in Nat \ {0}, NEW x \in Nat, NEW y \in Nat, x < y, y < x + P
    PROVE  x % P # y % P
  <1> SUFFICES ASSUME x % P = y % P PROVE FALSE
    OBVIOUS
  <1>1. PICK q \in Nat : x = P * q + (x % P)
    BY DivMod, Zenon
  <1>2. PICK k \in Nat : y = P * k + (y % P)
    BY DivMod, Zenon
  <1>3. x % P \in 0 .. P - 1 /\ y - x \in 0 .. P - 1 /\ 0 \in 0 .. P - 1
    BY ModRange
  <1>4. P * q \in Nat /\ P * k \in Nat
    OBVIOUS
  <1>5. P * q + (y - x) = P * k + 0
    BY <1>1, <1>2, <1>3, <1>4
  <1>6. y - x = 0
    BY <1>3, <1>5, Unique
  <1> QED
    BY <1>6

(* A counter of W bits, and its slot of the ring. *)
LEMMA Wrap ==
    ASSUME NEW M \in Nat \ {0}, NEW x \in 0 .. 2 * M - 1
    PROVE  \/ x < M /\ x % M = x
           \/ x >= M /\ x % M = x - M
  <1>1. CASE x < M
    BY <1>1
  <1>2. CASE x >= M
    <2>1. x - M \in 0 .. M - 1
      BY <1>2
    <2> QED
      BY <1>2, <2>1
  <1> QED
    BY <1>1, <1>2

LEMMA WrapSlot ==
    ASSUME NEW P \in Nat \ {0}, NEW M \in Nat \ {0}, M % P = 0, NEW x \in 0 .. 2 * M - 1
    PROVE  (x % M) % P = x % P
  <1>1. CASE x % M = x
    BY <1>1
  <1>2. CASE x >= M /\ x % M = x - M
    <2>1. x - M \in Nat /\ x = (x - M) + M
      BY <1>2
    <2>2. ((x - M) + M) % P = (x - M) % P
      BY <2>1, ModShift, Zenon
    <2> QED
      BY <1>2, <2>1, <2>2
  <1> QED
    BY <1>1, <1>2, Wrap, Zenon

LEMMA WrapNext ==
    ASSUME NEW M \in Nat \ {0}, NEW x \in 0 .. 2 * M - 2
    PROVE  ((x % M) + 1) % M = (x + 1) % M
  <1>1. CASE x < M
    BY <1>1
  <1>2. CASE x >= M
    <2>1. PICK y \in Nat : y = x % M
      BY ModRange
    <2>2. y = x - M
      <3>1. x % M = x - M
        BY <1>2
      <3> QED
        BY <2>1, <3>1, Zenon
    <2>3. (y + 1) % M = y + 1
      BY <2>2
    <2>4. (x + 1) % M = x + 1 - M
      BY <1>2
    <2>5. y + 1 = x + 1 - M
      BY <2>2
    <2> QED
      BY <2>1, <2>3, <2>4, <2>5, Zenon
  <1> QED
    BY <1>1, <1>2

LEMMA WrapFront ==
    ASSUME NEW M \in Nat \ {0}, NEW x \in 0 .. M - 1, NEW l \in 1 .. M
    PROVE  (((x + 1) % M) + (l - 1)) % M = (x + l) % M
  <1>1. CASE x + 1 < M
    <2>1. (x + 1) % M = x + 1
      BY <1>1
    <2> QED
      BY <2>1
  <1>2. CASE x + 1 = M
    <2>1. (x + 1) % M = 0
      BY <1>2
    <2>2. (0 + (l - 1)) % M = l - 1
      OBVIOUS
    <2>3. (x + l) % M = x + l - M
      BY <1>2
    <2>4. l - 1 = x + l - M
      BY <1>2
    <2> QED
      BY <2>1, <2>2, <2>3, <2>4, Zenon
  <1> QED
    BY <1>1, <1>2


-----------------------------------------------------------------------------
(* The ring *)

LEMMA Bounds ==
    /\ PIPESIZE \in Nat \ {0} /\ 2^W \in Nat \ {0} /\ MaxN \in Nat \ {0}
    /\ 2^W % PIPESIZE = 0 /\ 2^W > PIPESIZE
    /\ None \notin Proc /\ \A p \in Reader : p \notin Writer
  BY PipeAssumption DEF Proc

LEMMA RingSize ==
    /\ PIPESIZE \in Nat \ {0} /\ 2^W \in Nat \ {0}
    /\ 2^W % PIPESIZE = 0 /\ 2^W > PIPESIZE
  BY Bounds

(* n1 stands for nread, l for the bytes between nread and nwrite. *)
LEMMA RingPut ==
    ASSUME NEW n1 \in 0 .. 2^W - 1, NEW l \in 0 .. PIPESIZE - 1
    PROVE  /\ (n1 + (l + 1)) % 2^W = (((n1 + l) % 2^W) + 1) % 2^W
           /\ (n1 + l) % PIPESIZE = ((n1 + l) % 2^W) % PIPESIZE
           /\ \A k \in 1 .. l : (n1 + k - 1) % PIPESIZE # (n1 + l) % PIPESIZE
  <1>1. n1 + l \in 0 .. 2 * 2^W - 1 /\ n1 + l \in 0 .. 2 * 2^W - 2
    BY RingSize
  <1>2. (n1 + (l + 1)) % 2^W = (((n1 + l) % 2^W) + 1) % 2^W
    <2>1. (((n1 + l) % 2^W) + 1) % 2^W = ((n1 + l) + 1) % 2^W
      BY <1>1, RingSize, WrapNext, Zenon
    <2>2. n1 + (l + 1) = (n1 + l) + 1
      BY RingSize
    <2> QED
      BY <2>1, <2>2, Zenon
  <1>3. (n1 + l) % PIPESIZE = ((n1 + l) % 2^W) % PIPESIZE
    BY <1>1, RingSize, WrapSlot, Zenon
  <1>4. ASSUME NEW k \in 1 .. l
        PROVE  (n1 + k - 1) % PIPESIZE # (n1 + l) % PIPESIZE
    <2>1. /\ n1 + k - 1 \in Nat /\ n1 + l \in Nat
          /\ n1 + k - 1 < n1 + l /\ n1 + l < (n1 + k - 1) + PIPESIZE
      BY RingSize
    <2> QED
      BY <2>1, RingSize, ModApart, Zenon
  <1> QED
    BY <1>2, <1>3, <1>4, Zenon

LEMMA RingTake ==
    ASSUME NEW n1 \in 0 .. 2^W - 1, NEW l \in 1 .. PIPESIZE
    PROVE  /\ (((n1 + 1) % 2^W) + (l - 1)) % 2^W = (n1 + l) % 2^W
           /\ \A k \in Nat \ {0} :
                 (((n1 + 1) % 2^W) + k - 1) % PIPESIZE = (n1 + (k + 1) - 1) % PIPESIZE
  <1>1. (((n1 + 1) % 2^W) + (l - 1)) % 2^W = (n1 + l) % 2^W
    <2>1. l \in 1 .. 2^W
      BY RingSize
    <2> QED
      BY <2>1, RingSize, WrapFront, Zenon
  <1>2. ASSUME NEW k \in Nat \ {0}
        PROVE  (((n1 + 1) % 2^W) + k - 1) % PIPESIZE = (n1 + (k + 1) - 1) % PIPESIZE
    <2>1. CASE n1 + 1 < 2^W
      <3>1. (n1 + 1) % 2^W = n1 + 1
        BY <2>1, RingSize
      <3>2. (n1 + 1) + k - 1 = n1 + (k + 1) - 1
        BY RingSize
      <3> QED
        BY <3>1, <3>2, Zenon
    <2>2. CASE n1 + 1 = 2^W
      <3>1. (n1 + 1) % 2^W = 0
        BY <2>2, RingSize
      <3>2. 0 + k - 1 \in Nat /\ n1 + (k + 1) - 1 = (0 + k - 1) + 2^W
        BY <2>2, RingSize
      <3>3. ((0 + k - 1) + 2^W) % PIPESIZE = (0 + k - 1) % PIPESIZE
        BY <3>2, RingSize, ModShift, Zenon
      <3> QED
        BY <3>1, <3>2, <3>3, Zenon
    <2> QED
      BY <2>1, <2>2, RingSize
  <1> QED
    BY <1>1, <1>2, Zenon

(* What InOrder says of the counters, in naturals. *)
LEMMA RingFacts ==
    ASSUME InOrder
    PROVE  /\ nread \in 0 .. 2^W - 1 /\ nwrite \in 0 .. 2^W - 1
           /\ sent \in Nat /\ rcvd \in Nat /\ sent - rcvd \in 0 .. PIPESIZE
           /\ ~Full => sent - rcvd \in 0 .. PIPESIZE - 1
           /\ ~Empty => sent - rcvd \in 1 .. PIPESIZE
  <1>1. /\ nread \in 0 .. 2^W - 1 /\ nwrite \in 0 .. 2^W - 1
        /\ sent \in Nat /\ rcvd \in 0 .. sent /\ sent - rcvd <= PIPESIZE
        /\ (nread + (sent - rcvd)) % 2^W = nwrite
    BY DEF InOrder, TypeOK, uint
  <1>2. PICK l \in Nat : l = sent - rcvd
    BY <1>1
  <1>3. rcvd \in Nat /\ l \in 0 .. PIPESIZE
    BY <1>1, <1>2, Bounds
  <1>4. l = PIPESIZE => Full
    BY <1>1, <1>2, Zenon DEF Full
  <1>5. l = 0 => Empty
    <2> SUFFICES ASSUME l = 0 PROVE Empty
      OBVIOUS
    <2>1. (nread + 0) % 2^W = nread
      BY <1>1, Bounds
    <2> QED
      BY <1>1, <1>2, <2>1, Zenon DEF Empty
  <1>6. /\ l # PIPESIZE => l \in 0 .. PIPESIZE - 1
        /\ l # 0 => l \in 1 .. PIPESIZE
    BY <1>3, Bounds
  <1> QED
    BY <1>1, <1>2, <1>3, <1>4, <1>5, <1>6, Zenon


LEMMA PutByte ==
    ASSUME InOrder, NEW p \in Proc, WriteByte(p)
    PROVE  InOrder'
  <1>0. TypeOK
    BY DEF InOrder
  <1>1. /\ nread \in 0 .. 2^W - 1 /\ nwrite \in 0 .. 2^W - 1
        /\ sent \in Nat /\ rcvd \in Nat /\ sent - rcvd \in 0 .. PIPESIZE - 1
    BY RingFacts DEF WriteByte
  <1>2. PICK l \in 0 .. PIPESIZE - 1 : l = sent - rcvd
    BY <1>1
  <1>3. /\ (nread + l) % 2^W = nwrite
        /\ \A k \in 1 .. l : data[(nread + k - 1) % PIPESIZE] = rcvd + k
    BY <1>2, Zenon DEF InOrder
  <1>4. /\ (nread + (l + 1)) % 2^W = (nwrite + 1) % 2^W
        /\ (nread + l) % PIPESIZE = nwrite % PIPESIZE
        /\ \A k \in 1 .. l : (nread + k - 1) % PIPESIZE # nwrite % PIPESIZE
    <2>1. /\ (nread + (l + 1)) % 2^W = (((nread + l) % 2^W) + 1) % 2^W
          /\ (nread + l) % PIPESIZE = ((nread + l) % 2^W) % PIPESIZE
          /\ \A k \in 1 .. l : (nread + k - 1) % PIPESIZE # (nread + l) % PIPESIZE
      BY <1>1, RingPut, Zenon
    <2>2. (nread + l) % PIPESIZE = nwrite % PIPESIZE
      BY <1>3, <2>1, Zenon
    <2> QED
      BY <1>3, <2>1, <2>2, Zenon
  <1>5. /\ data' = [data EXCEPT ![nwrite % PIPESIZE] = sent + 1]
        /\ nwrite' = (nwrite + 1) % 2^W /\ sent' = sent + 1
        /\ nread' = nread /\ rcvd' = rcvd
        /\ i' = [i EXCEPT ![p] = i[p] + 1] /\ i[p] < n[p]
        /\ <<readopen, writeopen, lock, pc, n, killed>>'
             = <<readopen, writeopen, lock, pc, n, killed>>
    BY DEF WriteByte
  <1>6. l + 1 \in 1 .. PIPESIZE /\ sent' - rcvd' = l + 1 /\ rcvd + (l + 1) = sent + 1
    BY <1>1, <1>2, <1>5, Bounds
  <1>7. TypeOK'
    <2>1. nwrite % PIPESIZE \in 0 .. PIPESIZE - 1 /\ nwrite' \in 0 .. 2^W - 1
      <3>1. nwrite \in Nat /\ nwrite + 1 \in Nat
        BY <1>1, Bounds
      <3> QED
        BY <1>5, <3>1, Bounds, ModRange, Zenon
    <2>2. data' \in [0 .. PIPESIZE - 1 -> 0 .. sent']
      <3>1. \A x \in 0 .. sent : x \in 0 .. sent'
        BY <1>1, <1>5
      <3>2. sent + 1 \in 0 .. sent'
        BY <1>1, <1>5
      <3>3. data \in [0 .. PIPESIZE - 1 -> 0 .. sent]
        BY <1>0 DEF TypeOK
      <3> QED
        BY <1>5, <2>1, <3>1, <3>2, <3>3
    <2>3. i' \in [Proc -> 0 .. MaxN]
      <3>1. i \in [Proc -> 0 .. MaxN] /\ n[p] \in 0 .. MaxN
        BY <1>0 DEF TypeOK
      <3>2. i[p] + 1 \in 0 .. MaxN
        BY <1>5, <3>1, Bounds
      <3> QED
        BY <1>5, <3>1, <3>2
    <2>4. sent' \in Nat /\ rcvd' \in 0 .. sent'
      BY <1>1, <1>5, <1>6
    <2>5. /\ nread' \in uint /\ n' \in [Proc -> 0 .. MaxN]
          /\ readopen' \in BOOLEAN /\ writeopen' \in BOOLEAN /\ lock' \in Proc \cup {None}
          /\ pc' \in [Proc -> Labels] /\ killed' \in [Proc -> BOOLEAN]
      BY <1>0, <1>5 DEF TypeOK
    <2> QED
      BY <2>1, <2>2, <2>3, <2>4, <2>5 DEF TypeOK, uint
  <1>8. ASSUME NEW k \in 1 .. l + 1
        PROVE  data'[(nread' + k - 1) % PIPESIZE] = rcvd' + k
    <2>1. nwrite % PIPESIZE \in 0 .. PIPESIZE - 1
      <3>1. nwrite \in Nat
        BY <1>1, Bounds
      <3> QED
        BY <3>1, Bounds, ModRange, Zenon
    <2>2. CASE k = l + 1
      <3>1. nread + k - 1 = nread + l
        BY <1>1, <1>2, <2>2, Bounds
      <3>2. data'[nwrite % PIPESIZE] = sent + 1
        BY <1>0, <1>5, <2>1 DEF TypeOK
      <3> QED
        BY <1>4, <1>5, <1>6, <2>2, <3>1, <3>2, Zenon
    <2>3. CASE k \in 1 .. l
      <3>1. nread + k - 1 \in Nat
        BY <1>1, <2>3, Bounds
      <3>2. (nread + k - 1) % PIPESIZE \in 0 .. PIPESIZE - 1
        BY <3>1, Bounds, ModRange, Zenon
      <3>3. \A x \in 0 .. PIPESIZE - 1 : x # nwrite % PIPESIZE => data'[x] = data[x]
        BY <1>0, <1>5 DEF TypeOK
      <3> QED
        BY <1>3, <1>4, <1>5, <2>3, <3>2, <3>3, Zenon
    <2>4. k = l + 1 \/ k \in 1 .. l
      BY <1>2, Bounds
    <2> QED
      BY <2>2, <2>3, <2>4
  <1>9. sent' - rcvd' <= PIPESIZE
    BY <1>6, Bounds
  <1> QED
    BY <1>4, <1>5, <1>6, <1>7, <1>8, <1>9, Zenon DEF InOrder

LEMMA TakeByte ==
    ASSUME InOrder, NEW p \in Proc, ReadByte(p)
    PROVE  InOrder'
  <1>0. TypeOK
    BY DEF InOrder
  <1>1. /\ nread \in 0 .. 2^W - 1 /\ nwrite \in 0 .. 2^W - 1
        /\ sent \in Nat /\ rcvd \in Nat /\ sent - rcvd \in 1 .. PIPESIZE
    BY RingFacts DEF ReadByte
  <1>2. PICK l \in 1 .. PIPESIZE : l = sent - rcvd
    BY <1>1
  <1>3. /\ (nread + l) % 2^W = nwrite
        /\ \A k \in 1 .. l : data[(nread + k - 1) % PIPESIZE] = rcvd + k
    BY <1>2, Zenon DEF InOrder
  <1>4. /\ (((nread + 1) % 2^W) + (l - 1)) % 2^W = nwrite
        /\ \A k \in Nat \ {0} :
              (((nread + 1) % 2^W) + k - 1) % PIPESIZE = (nread + (k + 1) - 1) % PIPESIZE
    BY <1>1, <1>3, RingTake, Zenon
  <1>5. /\ nread' = (nread + 1) % 2^W /\ rcvd' = rcvd + 1
        /\ i' = [i EXCEPT ![p] = i[p] + 1] /\ i[p] < n[p]
        /\ <<data, nwrite, readopen, writeopen, lock, pc, n, killed, sent>>'
             = <<data, nwrite, readopen, writeopen, lock, pc, n, killed, sent>>
    BY DEF ReadByte
  <1>6. sent' - rcvd' = l - 1 /\ l - 1 <= PIPESIZE /\ rcvd' \in 0 .. sent'
    BY <1>1, <1>2, <1>5, Bounds
  <1>7. TypeOK'
    <2>1. nread' \in 0 .. 2^W - 1
      <3>1. nread + 1 \in Nat
        BY <1>1, Bounds
      <3> QED
        BY <1>5, <3>1, Bounds, ModRange, Zenon
    <2>2. i' \in [Proc -> 0 .. MaxN]
      <3>1. i \in [Proc -> 0 .. MaxN] /\ n[p] \in 0 .. MaxN
        BY <1>0 DEF TypeOK
      <3>2. i[p] + 1 \in 0 .. MaxN
        BY <1>5, <3>1, Bounds
      <3> QED
        BY <1>5, <3>1, <3>2
    <2>3. /\ data' \in [0 .. PIPESIZE - 1 -> 0 .. sent'] /\ sent' \in Nat
          /\ nwrite' \in uint /\ n' \in [Proc -> 0 .. MaxN]
          /\ readopen' \in BOOLEAN /\ writeopen' \in BOOLEAN /\ lock' \in Proc \cup {None}
          /\ pc' \in [Proc -> Labels] /\ killed' \in [Proc -> BOOLEAN]
      BY <1>0, <1>5 DEF TypeOK
    <2> QED
      BY <1>6, <2>1, <2>2, <2>3 DEF TypeOK, uint
  <1>8. ASSUME NEW k \in 1 .. l - 1
        PROVE  data'[(nread' + k - 1) % PIPESIZE] = rcvd' + k
    <2>1. k \in Nat \ {0} /\ k + 1 \in 1 .. l /\ rcvd + (k + 1) = (rcvd + 1) + k
      BY <1>1, <1>2, Bounds
    <2> QED
      BY <1>3, <1>4, <1>5, <2>1, Zenon
  <1> QED
    BY <1>4, <1>5, <1>6, <1>7, <1>8, Zenon DEF InOrder


(* The other steps leave the ring alone. *)
LEMMA RingKept ==
    ASSUME InOrder, <<data, nread, nwrite, sent, rcvd>>' = <<data, nread, nwrite, sent, rcvd>>,
           readopen' \in BOOLEAN, writeopen' \in BOOLEAN, lock' \in Proc \cup {None},
           pc' \in [Proc -> Labels], killed' \in [Proc -> BOOLEAN],
           i' \in [Proc -> 0 .. MaxN], n' \in [Proc -> 0 .. MaxN]
    PROVE  InOrder'
  <1>1. TypeOK'
    BY DEF InOrder, TypeOK
  <1> QED
    BY <1>1 DEF InOrder

LEMMA CallTypes ==
    ASSUME InOrder
    PROVE  /\ readopen \in BOOLEAN /\ writeopen \in BOOLEAN /\ lock \in Proc \cup {None}
           /\ pc \in [Proc -> Labels] /\ killed \in [Proc -> BOOLEAN]
           /\ i \in [Proc -> 0 .. MaxN] /\ n \in [Proc -> 0 .. MaxN]
  BY DEF InOrder, TypeOK

LEMMA GotoTypes ==
    ASSUME pc \in [Proc -> Labels], NEW p \in Proc, NEW l \in Labels,
           Goto(p, l) \/ \E S \in SUBSET Proc : WakeGoto(S, p, l)
    PROVE  pc' \in [Proc -> Labels]
  <1>1. CASE Goto(p, l)
    BY <1>1 DEF Goto
  <1>2. ASSUME NEW S \in SUBSET Proc, WakeGoto(S, p, l)
        PROVE  pc' \in [Proc -> Labels]
    <2>1. "enter" \in Labels
      BY DEF Labels
    <2> QED
      BY <1>2, <2>1 DEF WakeGoto
  <1> QED
    BY <1>1, <1>2

LEMMA LeaveTypes ==
    ASSUME InOrder, NEW p \in Proc, Leave(p)
    PROVE  /\ lock' \in Proc \cup {None}
           /\ i' \in [Proc -> 0 .. MaxN] /\ n' \in [Proc -> 0 .. MaxN]
  <1>1. 0 \in 0 .. MaxN
    BY Bounds
  <1> QED
    BY <1>1, CallTypes DEF Leave

LEMMA InOrderCall ==
    ASSUME InOrder, NEW p \in Proc,
           (\E k \in 1 .. MaxN : Call(p, k)) \/ Enter(p) \/ Doze(p) \/ Close(p) \/ Kill(p)
    PROVE  InOrder'
  <1>1. ASSUME NEW k \in 1 .. MaxN, Call(p, k) PROVE InOrder'
    <2>1. k \in 0 .. MaxN /\ 0 \in 0 .. MaxN /\ "enter" \in Labels
      BY Bounds DEF Labels
    <2>2. pc' \in [Proc -> Labels]
      BY <1>1, <2>1, CallTypes, GotoTypes DEF Call
    <2>3. i' \in [Proc -> 0 .. MaxN] /\ n' \in [Proc -> 0 .. MaxN]
      BY <1>1, <2>1, CallTypes DEF Call
    <2> QED
      BY <1>1, <2>2, <2>3, CallTypes, RingKept DEF Call, pipeVars
  <1>2. ASSUME Enter(p) PROVE InOrder'
    <2>1. pc' \in [Proc -> Labels]
      BY <1>2, CallTypes, GotoTypes DEF Enter, Labels
    <2> QED
      BY <1>2, <2>1, CallTypes, RingKept DEF Enter, pipeVars
  <1>3. ASSUME Doze(p) PROVE InOrder'
    <2>1. pc' \in [Proc -> Labels]
      BY <1>3, CallTypes, GotoTypes DEF Doze, Labels
    <2> QED
      BY <1>3, <2>1, CallTypes, RingKept DEF Doze, pipeVars
  <1>4. ASSUME Close(p) PROVE InOrder'
    <2>1. \E S \in SUBSET Proc : WakeGoto(S, p, "closed")
      BY <1>4 DEF Close, Proc
    <2>2. pc' \in [Proc -> Labels]
      BY <2>1, CallTypes, GotoTypes DEF Labels
    <2>3. /\ readopen' \in BOOLEAN /\ writeopen' \in BOOLEAN
          /\ <<data, nread, nwrite, sent, rcvd, lock, i, n, killed>>'
               = <<data, nread, nwrite, sent, rcvd, lock, i, n, killed>>
      BY <1>4 DEF Close
    <2> QED
      BY <2>2, <2>3, CallTypes, RingKept
  <1>5. ASSUME Kill(p) PROVE InOrder'
    <2>1. (IF pc[p] = "asleep" THEN "enter" ELSE pc[p]) \in Labels
      BY CallTypes DEF Labels
    <2>2. pc' \in [Proc -> Labels]
      BY <1>5, <2>1, CallTypes, GotoTypes DEF Kill
    <2>3. killed' \in [Proc -> BOOLEAN]
      BY <1>5, CallTypes DEF Kill
    <2> QED
      BY <1>5, <2>2, <2>3, CallTypes, RingKept DEF Kill, pipeVars
  <1> QED
    BY <1>1, <1>2, <1>3, <1>4, <1>5

LEMMA InOrderWrite ==
    ASSUME InOrder, NEW p \in Proc,
           WriteFails(p) \/ WriteFull(p) \/ WriteDone(p)
    PROVE  InOrder'
  <1>0. "user" \in Labels /\ "dozing" \in Labels /\ Reader \in SUBSET Proc
    BY DEF Labels, Proc
  <1>1. pc' \in [Proc -> Labels]
    BY <1>0, CallTypes, GotoTypes DEF WriteFails, WriteFull, WriteDone
  <1>2. /\ lock' \in Proc \cup {None}
        /\ i' \in [Proc -> 0 .. MaxN] /\ n' \in [Proc -> 0 .. MaxN]
    BY CallTypes, LeaveTypes DEF WriteFails, WriteFull, WriteDone
  <1>3. <<data, nread, nwrite, readopen, writeopen, killed, sent, rcvd>>'
          = <<data, nread, nwrite, readopen, writeopen, killed, sent, rcvd>>
    BY DEF WriteFails, WriteFull, WriteDone, pipeVars
  <1> QED
    BY <1>1, <1>2, <1>3, CallTypes, RingKept

LEMMA InOrderRead ==
    ASSUME InOrder, NEW p \in Proc,
           ReadFails(p) \/ ReadEmpty(p) \/ ReadStart(p) \/ ReadDone(p)
    PROVE  InOrder'
  <1>0. "user" \in Labels /\ "dozing" \in Labels /\ "copy" \in Labels /\ Writer \in SUBSET Proc
    BY DEF Labels, Proc
  <1>1. pc' \in [Proc -> Labels]
    BY <1>0, CallTypes, GotoTypes DEF ReadFails, ReadEmpty, ReadStart, ReadDone
  <1>2. /\ lock' \in Proc \cup {None}
        /\ i' \in [Proc -> 0 .. MaxN] /\ n' \in [Proc -> 0 .. MaxN]
    BY CallTypes, LeaveTypes DEF ReadFails, ReadEmpty, ReadStart, ReadDone
  <1>3. <<data, nread, nwrite, readopen, writeopen, killed, sent, rcvd>>'
          = <<data, nread, nwrite, readopen, writeopen, killed, sent, rcvd>>
    BY DEF ReadFails, ReadEmpty, ReadStart, ReadDone, pipeVars
  <1> QED
    BY <1>1, <1>2, <1>3, CallTypes, RingKept

LEMMA InOrderInit == Init => InOrder
  <1> SUFFICES ASSUME Init PROVE InOrder
    OBVIOUS
  <1>1. TypeOK
    <2>1. 0 \in 0 .. 2^W - 1 /\ 0 \in 0 .. MaxN /\ 0 \in 0 .. 0 /\ "user" \in Labels
      BY Bounds DEF Labels
    <2> QED
      BY <2>1 DEF Init, TypeOK, uint
  <1>2. sent = 0 /\ rcvd = 0 /\ nread = 0 /\ nwrite = 0
    BY DEF Init
  <1>3. sent - rcvd = 0 /\ (nread + 0) % 2^W = 0
    BY <1>2, Bounds
  <1>4. 0 <= PIPESIZE /\ 1 .. 0 = {}
    BY Bounds
  <1> QED
    BY <1>1, <1>2, <1>3, <1>4 DEF InOrder

LEMMA InOrderNext == InOrder /\ [Next]_vars => InOrder'
  <1> SUFFICES ASSUME InOrder, [Next]_vars PROVE InOrder'
    OBVIOUS
  <1>1. CASE UNCHANGED vars
    BY <1>1, CallTypes, RingKept DEF vars, pipeVars
  <1>2. CASE Next
    BY <1>2, InOrderCall, InOrderWrite, InOrderRead, PutByte, TakeByte, Zenon DEF Next, InCall
  <1> QED
    BY <1>1, <1>2

LEMMA InOrderHolds == Spec => []InOrder
  BY InOrderInit, InOrderNext, PTL DEF Spec


-----------------------------------------------------------------------------
(* Sleeping *)

LEMMA GotoFacts ==
    ASSUME pc \in [Proc -> Labels], NEW p \in Proc, NEW l, Goto(p, l)
    PROVE  pc'[p] = l /\ \A q \in Proc : q # p => pc'[q] = pc[q]
  BY DEF Goto

LEMMA WakeFacts ==
    ASSUME NEW S, NEW p \in Proc, NEW l, WakeGoto(S, p, l)
    PROVE  /\ pc'[p] = l
           /\ \A q \in Proc : q # p /\ q \in S /\ pc[q] = "asleep" => pc'[q] = "enter"
           /\ \A q \in Proc : q # p /\ ~(q \in S /\ pc[q] = "asleep") => pc'[q] = pc[q]
  BY DEF WakeGoto

(* A step of p, which may take pi->lock if it is free, or give it up. *)
LEMMA HolderKept ==
    ASSUME Holder, NEW p \in Proc,
           \A q \in Proc : q # p => pc'[q] \in {pc[q], "enter"},
           lock' = lock \/ lock = p \/ lock = None,
           pc'[p] \in {"loop", "copy", "dozing"} => lock' = p,
           pc'[p] = "copy" => p \in Reader
    PROVE  Holder'
  <1> SUFFICES ASSUME NEW q \in Proc
               PROVE  /\ pc'[q] \in {"loop", "copy", "dozing"} => lock' = q
                      /\ pc'[q] = "copy" => q \in Reader
    BY DEF Holder
  <1>1. CASE q = p
    BY <1>1
  <1>2. CASE q # p /\ pc'[q] \in {"loop", "copy", "dozing"}
    <2>1. pc[q] = pc'[q]
      BY <1>2
    <2>2. lock = q /\ (pc[q] = "copy" => q \in Reader)
      BY <1>2, <2>1 DEF Holder
    <2>3. lock # None
      BY <2>2, Bounds
    <2> QED
      BY <1>2, <2>1, <2>2, <2>3
  <1> QED
    BY <1>1, <1>2

LEMMA GoneKept ==
    ASSUME ReadersGone, readopen' = readopen,
           \A q \in Reader : pc[q] = "closed" => pc'[q] = "closed"
    PROVE  ReadersGone'
  BY DEF ReadersGone

LEMMA WritersKept ==
    ASSUME WritersSleep, nread' = nread, nwrite' = nwrite,
           \A q \in Writer : pc'[q] \in {"dozing", "asleep"} => pc[q] \in {"dozing", "asleep"},
           \A r \in Reader : pc[r] = "copy" => pc'[r] = "copy"
    PROVE  WritersSleep'
  <1>1. Full' <=> Full
    BY DEF Full
  <1> QED
    BY <1>1 DEF WritersSleep

LEMMA ReadersKept ==
    ASSUME ReadersSleep, nread' = nread, nwrite' = nwrite,
           \A q \in Reader : pc'[q] \in {"dozing", "asleep"} => pc[q] \in {"dozing", "asleep"},
           \A q \in Writer : pc[q] = "loop" => pc'[q] = "loop",
           \A q \in Writer : killed[q] => killed'[q]
    PROVE  ReadersSleep'
  <1>1. Empty' <=> Empty
    BY DEF Empty
  <1> QED
    BY <1>1 DEF ReadersSleep

(* A step of p that neither ends its turn in the ring nor wakes anybody. *)
LEMMA SleepQuiet ==
    ASSUME InOrder, SleepInv, NEW p \in Proc,
           NEW l \in {"enter", "loop", "asleep", "copy"}, Goto(p, l),
           pc[p] \in {"user", "enter", "dozing"} \/ (pc[p] = "loop" /\ p \in Reader),
           l = "asleep" => pc[p] = "dozing",
           l = "loop" => lock = None /\ lock' = p,
           l = "copy" => pc[p] = "loop",
           pc[p] = "dozing" \/ l = "loop" \/ lock' = lock,
           <<nread, nwrite, readopen, killed>>' = <<nread, nwrite, readopen, killed>>
    PROVE  SleepInv'
  <1>0. /\ Holder /\ ReadersGone /\ WritersSleep /\ ReadersSleep
        /\ pc \in [Proc -> Labels] /\ \A q \in Reader \cup Writer : q \in Proc
    BY CallTypes DEF SleepInv, Proc
  <1>1. pc'[p] = l /\ \A q \in Proc : q # p => pc'[q] = pc[q]
    BY <1>0, GotoFacts
  <1>2. pc[p] \in {"loop", "dozing"} => lock = p
    BY <1>0 DEF Holder
  <1>3. Holder'
    <2>1. /\ lock' = lock \/ lock = p \/ lock = None
          /\ pc'[p] \in {"loop", "copy", "dozing"} => lock' = p
          /\ pc'[p] = "copy" => p \in Reader
      BY <1>1, <1>2
    <2> QED
      BY <1>0, <1>1, <2>1, HolderKept
  <1>4. ReadersGone'
    BY <1>0, <1>1, GoneKept
  <1>5. WritersSleep'
    BY <1>0, <1>1, WritersKept
  <1>6. ReadersSleep'
    BY <1>0, <1>1, ReadersKept, Bounds
  <1> QED
    BY <1>3, <1>4, <1>5, <1>6 DEF SleepInv

LEMMA SleepQuietSteps ==
    ASSUME InOrder, SleepInv, NEW p \in Proc,
           (\E k \in 1 .. MaxN : Call(p, k)) \/ Enter(p) \/ Doze(p) \/ ReadStart(p)
    PROVE  SleepInv'
  <1>1. ASSUME NEW k \in 1 .. MaxN, Call(p, k) PROVE SleepInv'
    BY <1>1, SleepQuiet DEF Call, pipeVars
  <1>2. ASSUME Enter(p) PROVE SleepInv'
    BY <1>2, SleepQuiet DEF Enter, pipeVars
  <1>3. ASSUME Doze(p) PROVE SleepInv'
    BY <1>3, SleepQuiet DEF Doze, pipeVars
  <1>4. ASSUME ReadStart(p) PROVE SleepInv'
    BY <1>4, SleepQuiet DEF ReadStart, pipeVars
  <1> QED
    BY <1>1, <1>2, <1>3, <1>4

LEMMA SleepEmpty ==
    ASSUME InOrder, SleepInv, NEW p \in Proc, ReadEmpty(p)
    PROVE  SleepInv'
  <1>0. /\ Holder /\ ReadersGone /\ WritersSleep /\ ReadersSleep
        /\ pc \in [Proc -> Labels] /\ \A q \in Reader \cup Writer : q \in Proc
    BY CallTypes DEF SleepInv, Proc
  <1>1. /\ p \in Reader /\ pc[p] = "loop" /\ Empty
        /\ <<nread, nwrite, readopen, killed, lock>>' = <<nread, nwrite, readopen, killed, lock>>
    BY DEF ReadEmpty, pipeVars
  <1>2. pc'[p] = "dozing" /\ \A q \in Proc : q # p => pc'[q] = pc[q]
    BY <1>0, GotoFacts DEF ReadEmpty
  <1>3. Holder'
    <2>1. lock = p /\ lock' = p
      BY <1>0, <1>1 DEF Holder
    <2> QED
      BY <1>0, <1>2, <2>1, HolderKept
  <1>4. ReadersGone'
    BY <1>0, <1>1, <1>2, GoneKept
  <1>5. WritersSleep'
    BY <1>0, <1>1, <1>2, WritersKept, Bounds
  <1>6. ReadersSleep'
    BY <1>1 DEF ReadersSleep, Empty
  <1> QED
    BY <1>3, <1>4, <1>5, <1>6 DEF SleepInv

LEMMA SleepFull ==
    ASSUME InOrder, SleepInv, NEW p \in Proc, WriteFull(p)
    PROVE  SleepInv'
  <1>0. /\ Holder /\ ReadersGone /\ WritersSleep /\ ReadersSleep
        /\ \A q \in Reader \cup Writer : q \in Proc
    BY DEF SleepInv, Proc
  <1>1. /\ p \in Writer /\ pc[p] = "loop" /\ Full
        /\ <<nread, nwrite, readopen, killed, lock>>' = <<nread, nwrite, readopen, killed, lock>>
    BY DEF WriteFull, pipeVars
  <1>2. /\ pc'[p] = "dozing"
        /\ \A q \in Proc : q # p /\ q \in Reader /\ pc[q] = "asleep" => pc'[q] = "enter"
        /\ \A q \in Proc : q # p /\ ~(q \in Reader /\ pc[q] = "asleep") => pc'[q] = pc[q]
    BY WakeFacts DEF WriteFull
  <1>3. lock = p
    BY <1>0, <1>1 DEF Holder
  <1>4. Holder'
    BY <1>0, <1>1, <1>2, <1>3, HolderKept
  <1>5. ReadersGone'
    BY <1>0, <1>1, <1>2, GoneKept, Bounds
  <1>6. WritersSleep'
    BY <1>1 DEF WritersSleep, Full
  <1>7. ReadersSleep'
    <2>1. \A q \in Reader : q # p /\ pc[q] # "dozing"
      BY <1>0, <1>1, <1>3, Bounds DEF Holder
    <2>2. \A q \in Reader : pc'[q] \notin {"dozing", "asleep"}
      BY <1>0, <1>2, <2>1
    <2> QED
      BY <2>2 DEF ReadersSleep
  <1> QED
    BY <1>4, <1>5, <1>6, <1>7 DEF SleepInv


LEMMA SleepWriteByte ==
    ASSUME InOrder, SleepInv, NEW p \in Proc, WriteByte(p)
    PROVE  SleepInv'
  <1>0. /\ Holder /\ ReadersGone /\ WritersSleep /\ ReadersSleep
        /\ \A q \in Reader \cup Writer : q \in Proc
    BY DEF SleepInv, Proc
  <1>1. /\ p \in Writer /\ pc[p] = "loop" /\ ~Full
        /\ <<readopen, killed, lock, pc>>' = <<readopen, killed, lock, pc>>
    BY DEF WriteByte
  <1>2. lock = p
    BY <1>0, <1>1 DEF Holder
  <1>3. Holder' /\ ReadersGone'
    BY <1>0, <1>1 DEF Holder, ReadersGone
  <1>4. WritersSleep'
    <2>1. \A r \in Reader : pc[r] # "copy"
      BY <1>0, <1>1, <1>2, Bounds DEF Holder
    <2>2. \A q \in Writer : pc[q] \notin {"dozing", "asleep"}
      BY <1>0, <1>1, <2>1 DEF WritersSleep
    <2> QED
      BY <1>1, <2>2 DEF WritersSleep
  <1>5. ReadersSleep'
    BY <1>1 DEF ReadersSleep
  <1> QED
    BY <1>3, <1>4, <1>5 DEF SleepInv

LEMMA SleepReadByte ==
    ASSUME InOrder, SleepInv, NEW p \in Proc, ReadByte(p)
    PROVE  SleepInv'
  <1>0. /\ Holder /\ ReadersGone /\ WritersSleep /\ ReadersSleep
        /\ \A q \in Reader \cup Writer : q \in Proc
    BY DEF SleepInv, Proc
  <1>1. /\ pc[p] = "copy" /\ ~Empty
        /\ <<readopen, killed, lock, pc>>' = <<readopen, killed, lock, pc>>
    BY DEF ReadByte
  <1>2. lock = p /\ p \in Reader
    BY <1>0, <1>1 DEF Holder
  <1>3. Holder' /\ ReadersGone'
    BY <1>0, <1>1 DEF Holder, ReadersGone
  <1>4. WritersSleep'
    BY <1>1, <1>2 DEF WritersSleep
  <1>5. ReadersSleep'
    <2>1. \A q \in Writer : pc[q] # "loop"
      BY <1>0, <1>1, <1>2, Bounds DEF Holder
    <2>2. \A q \in Reader : pc[q] \in {"dozing", "asleep"} => \E r \in Writer : killed[r]
      BY <1>0, <1>1, <2>1 DEF ReadersSleep
    <2> QED
      BY <1>1, <2>2 DEF ReadersSleep
  <1> QED
    BY <1>3, <1>4, <1>5 DEF SleepInv

(* The ends of pipewrite() and piperead(): the process gives up pi->lock. *)
LEMMA SleepFails ==
    ASSUME InOrder, SleepInv, NEW p \in Proc, WriteFails(p) \/ ReadFails(p)
    PROVE  SleepInv'
  <1>0. /\ Holder /\ ReadersGone /\ WritersSleep /\ ReadersSleep
        /\ pc \in [Proc -> Labels] /\ \A q \in Reader \cup Writer : q \in Proc
    BY CallTypes DEF SleepInv, Proc
  <1>1. /\ pc[p] = "loop" /\ Goto(p, "user") /\ lock' = None
        /\ <<nread, nwrite, readopen, killed>>' = <<nread, nwrite, readopen, killed>>
        /\ p \in Writer => ~readopen \/ killed[p]
    BY Bounds DEF WriteFails, ReadFails, Leave, pipeVars
  <1>2. pc'[p] = "user" /\ \A q \in Proc : q # p => pc'[q] = pc[q]
    BY <1>0, <1>1, GotoFacts
  <1>3. lock = p
    BY <1>0, <1>1 DEF Holder
  <1>4. Holder'
    BY <1>0, <1>2, <1>3, HolderKept
  <1>5. ReadersGone'
    BY <1>0, <1>1, <1>2, GoneKept
  <1>6. WritersSleep'
    BY <1>0, <1>1, <1>2, WritersKept
  <1>7. ReadersSleep'
    <2>1. CASE p \in Reader
      BY <1>0, <1>1, <1>2, <2>1, ReadersKept, Bounds
    <2>2. CASE p \in Writer /\ ~readopen
      <3>1. \A q \in Reader : pc[q] = "closed" /\ q # p
        BY <1>0, <2>2, Bounds DEF ReadersGone
      <3>2. \A q \in Reader : pc'[q] = "closed"
        BY <1>0, <1>2, <3>1
      <3> QED
        BY <3>2 DEF ReadersSleep
    <2>3. CASE p \in Writer /\ killed[p]
      <3>1. killed'[p]
        BY <1>1, <2>3
      <3> QED
        BY <2>3, <3>1 DEF ReadersSleep
    <2> QED
      BY <1>1, <2>1, <2>2, <2>3 DEF Proc
  <1> QED
    BY <1>4, <1>5, <1>6, <1>7 DEF SleepInv

LEMMA SleepWriteDone ==
    ASSUME InOrder, SleepInv, NEW p \in Proc, WriteDone(p)
    PROVE  SleepInv'
  <1>0. /\ Holder /\ ReadersGone /\ WritersSleep /\ ReadersSleep
        /\ \A q \in Reader \cup Writer : q \in Proc
    BY DEF SleepInv, Proc
  <1>1. /\ p \in Writer /\ pc[p] = "loop" /\ lock' = None
        /\ <<nread, nwrite, readopen>>' = <<nread, nwrite, readopen>>
    BY DEF WriteDone, Leave, pipeVars
  <1>2. /\ pc'[p] = "user"
        /\ \A q \in Proc : q # p /\ q \in Reader /\ pc[q] = "asleep" => pc'[q] = "enter"
        /\ \A q \in Proc : q # p /\ ~(q \in Reader /\ pc[q] = "asleep") => pc'[q] = pc[q]
    BY WakeFacts DEF WriteDone
  <1>3. lock = p
    BY <1>0, <1>1 DEF Holder
  <1>4. Holder'
    BY <1>0, <1>2, <1>3, HolderKept
  <1>5. ReadersGone'
    BY <1>0, <1>1, <1>2, GoneKept, Bounds
  <1>6. WritersSleep'
    BY <1>0, <1>1, <1>2, WritersKept, Bounds
  <1>7. ReadersSleep'
    <2>1. \A q \in Reader : q # p /\ pc[q] # "dozing"
      BY <1>0, <1>1, <1>3, Bounds DEF Holder
    <2>2. \A q \in Reader : pc'[q] \notin {"dozing", "asleep"}
      BY <1>0, <1>2, <2>1
    <2> QED
      BY <2>2 DEF ReadersSleep
  <1> QED
    BY <1>4, <1>5, <1>6, <1>7 DEF SleepInv

LEMMA SleepReadDone ==
    ASSUME InOrder, SleepInv, NEW p \in Proc, ReadDone(p)
    PROVE  SleepInv'
  <1>0. /\ Holder /\ ReadersGone /\ WritersSleep /\ ReadersSleep
        /\ \A q \in Reader \cup Writer : q \in Proc
    BY DEF SleepInv, Proc
  <1>1. /\ pc[p] = "copy" /\ lock' = None
        /\ <<nread, nwrite, readopen, killed>>' = <<nread, nwrite, readopen, killed>>
    BY DEF ReadDone, Leave, pipeVars
  <1>2. /\ pc'[p] = "user"
        /\ \A q \in Proc : q # p /\ q \in Writer /\ pc[q] = "asleep" => pc'[q] = "enter"
        /\ \A q \in Proc : q # p /\ ~(q \in Writer /\ pc[q] = "asleep") => pc'[q] = pc[q]
    BY WakeFacts DEF ReadDone
  <1>3. lock = p /\ p \in Reader
    BY <1>0, <1>1 DEF Holder
  <1>4. Holder'
    BY <1>0, <1>2, <1>3, HolderKept
  <1>5. ReadersGone'
    BY <1>0, <1>1, <1>2, GoneKept, Bounds
  <1>6. WritersSleep'
    <2>1. \A q \in Writer : q # p /\ pc[q] # "dozing"
      BY <1>0, <1>3, Bounds DEF Holder
    <2>2. \A q \in Writer : pc'[q] \notin {"dozing", "asleep"}
      BY <1>0, <1>2, <2>1
    <2> QED
      BY <2>2 DEF WritersSleep
  <1>7. ReadersSleep'
    BY <1>0, <1>1, <1>2, <1>3, ReadersKept, Bounds
  <1> QED
    BY <1>4, <1>5, <1>6, <1>7 DEF SleepInv

LEMMA SleepClose ==
    ASSUME InOrder, SleepInv, NEW p \in Proc, Close(p)
    PROVE  SleepInv'
  <1>0. /\ Holder /\ ReadersGone /\ WritersSleep /\ ReadersSleep
        /\ \A q \in Reader \cup Writer : q \in Proc
    BY DEF SleepInv, Proc
  <1>1. /\ pc[p] = "user"
        /\ <<nread, nwrite, killed, lock>>' = <<nread, nwrite, killed, lock>>
    BY DEF Close
  <1>2. /\ pc'[p] = "closed"
        /\ \A q \in Proc : q # p => \/ pc'[q] = pc[q]
                                    \/ pc[q] = "asleep" /\ pc'[q] = "enter"
    BY DEF Close, WakeGoto
  <1>3. Holder'
    BY <1>0, <1>1, <1>2, HolderKept
  <1>4. ReadersGone'
    <2>1. \A q \in Reader : pc[q] = "closed" => pc'[q] = "closed"
      BY <1>0, <1>2
    <2>2. CASE readopen' = readopen
      BY <1>0, <2>1, <2>2, GoneKept
    <2>3. CASE readopen' # readopen
      <3>1. readopen \in BOOLEAN
        BY CallTypes
      <3>2. p \in Reader /\ \A q \in Reader \ {p} : pc[q] = "closed"
        BY <2>3, <3>1 DEF Close
      <3> QED
        BY <1>2, <2>1, <3>2 DEF ReadersGone
    <2> QED
      BY <2>2, <2>3
  <1>5. WritersSleep'
    BY <1>0, <1>1, <1>2, WritersKept
  <1>6. ReadersSleep'
    BY <1>0, <1>1, <1>2, ReadersKept
  <1> QED
    BY <1>3, <1>4, <1>5, <1>6 DEF SleepInv

LEMMA SleepKill ==
    ASSUME InOrder, SleepInv, NEW p \in Proc, Kill(p)
    PROVE  SleepInv'
  <1>0. /\ Holder /\ ReadersGone /\ WritersSleep /\ ReadersSleep
        /\ pc \in [Proc -> Labels] /\ killed \in [Proc -> BOOLEAN]
        /\ \A q \in Reader \cup Writer : q \in Proc
    BY CallTypes DEF SleepInv, Proc
  <1>1. /\ <<nread, nwrite, readopen, lock>>' = <<nread, nwrite, readopen, lock>>
        /\ \A q \in Proc : killed[q] => killed'[q]
    BY <1>0 DEF Kill, pipeVars
  <1>2. \A q \in Proc : \/ pc'[q] = pc[q]
                        \/ pc[q] = "asleep" /\ pc'[q] = "enter"
    BY <1>0, GotoFacts DEF Kill
  <1>3. Holder'
    BY <1>0, <1>1, <1>2 DEF Holder
  <1>4. ReadersGone'
    BY <1>0, <1>1, <1>2, GoneKept
  <1>5. WritersSleep'
    BY <1>0, <1>1, <1>2, WritersKept
  <1>6. ReadersSleep'
    BY <1>0, <1>1, <1>2, ReadersKept
  <1> QED
    BY <1>3, <1>4, <1>5, <1>6 DEF SleepInv

LEMMA SleepNext == InOrder /\ SleepInv /\ [Next]_vars => SleepInv'
  <1> SUFFICES ASSUME InOrder, SleepInv, [Next]_vars PROVE SleepInv'
    OBVIOUS
  <1>1. CASE UNCHANGED vars
    <2>1. <<nread, nwrite, readopen, lock, pc, killed>>'
            = <<nread, nwrite, readopen, lock, pc, killed>>
      BY <1>1 DEF vars, pipeVars
    <2> QED
      BY <2>1, GoneKept, WritersKept, ReadersKept DEF SleepInv, Holder
  <1>2. CASE Next
    BY <1>2, SleepQuietSteps, SleepEmpty, SleepFull, SleepWriteByte, SleepReadByte, SleepFails,
       SleepWriteDone, SleepReadDone, SleepClose, SleepKill, Zenon DEF Next, InCall
  <1> QED
    BY <1>1, <1>2

-----------------------------------------------------------------------------
(* Results *)

(* pipewrite() and piperead() keep the ring right for every PIPESIZE that  *)
(* divides 2^W, through every wrap of nread and nwrite: it holds the bytes *)
(* written and not yet read, in order, and no more than PIPESIZE of them.  *)
THEOREM PipeInOrder == Spec => []InOrder
  BY InOrderHolds, PTL

(* Whenever pi->lock is free, no writer sleeps at a pipe with room and no  *)
(* reader at one with data, for any number of readers and writers: the     *)
(* wakeup() calls of pipewrite() and piperead() suffice, but for the       *)
(* return of a killed writer, which makes none.                            *)
THEOREM NobodySleepsInVain == Spec => []SleepersWait
  <1>1. Init => SleepInv
    BY DEF Init, SleepInv, Holder, ReadersGone, WritersSleep, ReadersSleep, Proc
  <1>2. SleepInv => SleepersWait
    <2> SUFFICES ASSUME SleepInv, lock = None
                 PROVE  /\ \A p \in Writer : pc[p] = "asleep" => Full
                        /\ \A p \in Reader : pc[p] = "asleep" =>
                              Empty \/ \E q \in Writer : killed[q]
      BY DEF SleepersWait
    <2>1. \A q \in Reader \cup Writer : pc[q] \notin {"loop", "copy"}
      BY Bounds DEF SleepInv, Holder, Proc
    <2> QED
      BY <2>1 DEF SleepInv, WritersSleep, ReadersSleep
  <1> QED
    BY <1>1, <1>2, InOrderHolds, SleepNext, PTL DEF Spec
=============================================================================
