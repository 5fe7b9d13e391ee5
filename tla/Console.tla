------------------------------ MODULE Console ------------------------------
(***************************************************************************)
(* The console: line editing and the input ring of kernel/console.c, the   *)
(* UART driver of kernel/uart.c, printf()'s lock, and the UART and the     *)
(* interrupt controller they talk to.                                      *)
(*                                                                         *)
(* Readers and writers are processes in consoleread() and consolewrite(),  *)
(* printers are other CPUs in printf().  The UART interrupt is served by   *)
(* one CPU at a time, between plic_claim() and plic_complete(): intr.      *)
(*                                                                         *)
(* A stretch of uartwrite() under tx_lock up to a sleep is one step.       *)
(* cons.lock is held over steps by the interrupt handler and pr.lock by    *)
(* both, while they poll the UART and, in a step of its own, write THR.    *)
(***************************************************************************)
EXTENDS Integers, Sequences, FiniteSets, SequencesExt

CONSTANTS
    Readers, Writers, Printers,
    Intr,               \* the CPU that serves the UART interrupt
    Free,               \* no holder
    Sizes,              \* the values of INPUT_BUF_SIZE to check
    BatchSize,          \* sizeof(buf) of consolewrite()
    Fifo,               \* bytes the UART's transmit FIFO holds
    RxFifo,             \* and characters its receive FIFO holds
    Keyboard,
    Loads,              \* calls, printfs and keystrokes of a run, and the keys
    MaxRead, MaxWrite

ASSUME ConsoleAssumption ==
    /\ Sizes \subseteq Nat \ {0} /\ BatchSize \in Nat \ {0} /\ Fifo \in Nat
    /\ Intr \notin Printers
    /\ \A l \in Loads : l.calls \in [Readers \cup Writers \cup Printers \cup {Keyboard} -> Nat]

VARIABLES
    INPUT_BUF_SIZE, keys,   \* never change
    cons,               \* the input ring
    pr,                 \* the holder of pr.lock
    tx_busy,
    uart,               \* transmit FIFO, receive FIFO, transmit-empty interrupt
    intr,               \* uartintr(): where it is, the character in hand
    sync,               \* bytes a CPU still sends with uartputc_sync(), and
                        \* whether it has seen TX_IDLE for the next
    proc,               \* the readers and writers
    calls,              \* what is left of the load
    stream, eofs,       \* unread input, and ^D's no read has reported
    owed                \* bytes of each writer given to the UART and not sent

config == <<INPUT_BUF_SIZE, keys>>
devVars == <<pr, tx_busy, uart, sync, owed>>
inVars == <<cons, intr, stream, eofs>>
vars == <<config, devVars, inVars, proc, calls>>

(* What the console tells apart: a plain character, the codes consoleintr  *)
(* acts on, and the zero byte.                                             *)
Key == {"a", "\n", "\r", "^D", "^H", "^U", "^P", "nul"}

(* uint indices wrap at a multiple of the ring's size. *)
UINT == 2 * INPUT_BUF_SIZE

Diff(a, b) == (a - b) % UINT

Slot(i) == i % INPUT_BUF_SIZE

Idle == [pc |-> "idle", n |-> 0, target |-> 0, i |-> 0, killed |-> FALSE]

Init ==
    /\ INPUT_BUF_SIZE \in Sizes
    /\ \E l \in Loads : calls = l.calls /\ keys = l.keys
    /\ cons = [buf |-> [i \in 0 .. INPUT_BUF_SIZE - 1 |-> "nul"],
               r |-> 0, w |-> 0, e |-> 0]
    /\ pr = Free /\ tx_busy = FALSE
    /\ uart = [thr |-> <<>>, rx |-> <<>>, thri |-> TRUE]
    /\ intr = [pc |-> "off", c |-> "nul"]
    /\ sync = [a \in Printers \cup {Intr} |-> [left |-> 0, idle |-> FALSE]]
    /\ proc = [p \in Readers \cup Writers |-> Idle]
    /\ stream = <<>> /\ eofs = 0 /\ owed = [p \in Writers |-> 0]

Call(p) == /\ calls[p] > 0
           /\ calls' = [calls EXCEPT ![p] = @ - 1]

Wake(pc, then) ==
    [p \in DOMAIN proc |-> IF proc[p].pc = pc THEN [proc[p] EXCEPT !.pc = then] ELSE proc[p]]

-----------------------------------------------------------------------------
(* The device.  A write of THR withdraws the transmit-empty interrupt; a   *)
(* byte written to a full FIFO is lost.                                    *)

Thr(b) == [uart EXCEPT !.thri = FALSE,
                       !.thr = IF Len(@) < Fifo THEN Append(@, b) ELSE @]

TX_IDLE == uart.thr = <<>>

Transmit ==
    /\ ~TX_IDLE
    /\ uart' = [uart EXCEPT !.thr = Tail(@), !.thri = Len(uart.thr) = 1]
    /\ owed' = [p \in Writers |-> IF Head(uart.thr) = p THEN owed[p] - 1 ELSE owed[p]]
    /\ UNCHANGED <<config, pr, tx_busy, sync, inVars, proc, calls>>

Type(c) ==
    /\ Call(Keyboard) /\ Len(uart.rx) < RxFifo
    /\ uart' = [uart EXCEPT !.rx = Append(@, c)]
    /\ UNCHANGED <<config, pr, tx_busy, sync, owed, inVars, proc>>

-----------------------------------------------------------------------------
(* uartputc_sync(), by the interrupt handler and by printf() *)

uartputc_sync(a) ==
    /\ sync[a].left > 0
    /\ \/ /\ ~sync[a].idle /\ TX_IDLE
          /\ sync' = [sync EXCEPT ![a].idle = TRUE]
          /\ UNCHANGED uart
       \/ /\ sync[a].idle
          /\ uart' = Thr(a)
          /\ sync' = [sync EXCEPT ![a] = [left |-> @.left - 1, idle |-> FALSE]]
    /\ UNCHANGED <<config, pr, tx_busy, owed, inVars, proc, calls>>

printf(k) ==
    /\ Call(k) /\ pr = Free
    /\ pr' = k
    /\ sync' = [sync EXCEPT ![k].left = 1]
    /\ UNCHANGED <<config, tx_busy, uart, owed, inVars, proc>>

PrintfDone(k) ==
    /\ pr = k /\ sync[k].left = 0
    /\ pr' = Free
    /\ UNCHANGED <<config, tx_busy, uart, sync, owed, inVars, proc, calls>>

-----------------------------------------------------------------------------
(* Writing *)

consolewrite(p) == \E n \in 1 .. MaxWrite :
    /\ proc[p].pc = "idle" /\ Call(p)
    /\ proc' = [proc EXCEPT ![p] = [Idle EXCEPT !.pc = "copyin", !.target = n]]
    /\ UNCHANGED <<config, devVars, inVars>>

(* Take the next batch, or return: all is written, or either_copyin() fails. *)
Copyin(p) ==
    LET left == proc[p].target - proc[p].i IN
    /\ proc[p].pc = "copyin"
    /\ \/ /\ left > 0
          /\ proc' = [proc EXCEPT ![p].pc = "uartwrite",
                                  ![p].n = IF BatchSize > left THEN left ELSE BatchSize]
       \/ proc' = [proc EXCEPT ![p] = Idle]
    /\ UNCHANGED <<config, devVars, inVars, calls>>

(* From the acquire, or from a wakeup, to the next sleep or the release.   *)
(* tx_busy is set under the lock, so a second byte always sleeps first.    *)
uartwrite(p) ==
    /\ proc[p].pc = "uartwrite"
    /\ \/ /\ tx_busy
          /\ proc' = [proc EXCEPT ![p].pc = "wsleep"]
          /\ UNCHANGED <<uart, tx_busy, owed>>
       \/ /\ ~tx_busy
          /\ uart' = Thr(p) /\ tx_busy' = TRUE
          /\ owed' = [owed EXCEPT ![p] = @ + 1]
          /\ proc' = [proc EXCEPT ![p].n = @ - 1, ![p].i = @ + 1,
                                  ![p].pc = IF proc[p].n = 1 THEN "copyin" ELSE "wsleep"]
    /\ UNCHANGED <<config, pr, sync, inVars, calls>>

-----------------------------------------------------------------------------
(* Reading: consoleread() is one step from its acquire of cons.lock, or    *)
(* from a wakeup, to a sleep or the release.                               *)

consoleread(p) == \E n \in 0 .. MaxRead :
    /\ proc[p].pc = "idle" /\ Call(p)
    /\ proc' = [proc EXCEPT ![p] = [Idle EXCEPT !.pc = "read", !.n = n, !.target = n]]
    /\ UNCHANGED <<config, devVars, inVars>>

Avail == Diff(cons.w, cons.r)

At(i) == cons.buf[Slot(cons.r + i)]

(* The loop gets through k bytes, and stops after the last of them. *)
Passes(p, k) ==
    /\ k <= proc[p].n /\ k <= Avail
    /\ \A i \in 0 .. k - 1 : At(i) # "^D" /\ (At(i) = "\n" => i = k - 1)

AtEnd(p, k) == k = proc[p].n \/ (k > 0 /\ At(k - 1) = "\n")

(* k bytes are consumed. *)
Consume(k) ==
    /\ cons' = [cons EXCEPT !.r = (@ + k) % UINT]
    /\ stream' = SubSeq(stream, k + 1, Len(stream))

Returns(p) == proc' = [proc EXCEPT ![p] = Idle]

(* n bytes, or a line; or either_copyout() fails, and the last byte is gone *)
ReadEnds(p, k) ==
    /\ AtEnd(p, k) \/ k > 0
    /\ Consume(k) /\ Returns(p) /\ UNCHANGED eofs

(* A plausible slip: a ^D behind a part of a line is consumed with it. *)
ReadEofTakes(p, k) ==
    /\ ~AtEnd(p, k) /\ k < Avail /\ At(k) = "^D"
    /\ Returns(p) /\ Consume(k + 1)
    /\ eofs' = IF k = 0 /\ proc[p].n = proc[p].target THEN eofs - 1 ELSE eofs

(* A ^D, which a read that has bytes already leaves for the next read *)
ReadEof(p, k) ==
    /\ ~AtEnd(p, k) /\ k < Avail /\ At(k) = "^D"
    /\ Returns(p)
    /\ IF k = 0 /\ proc[p].n = proc[p].target
       THEN Consume(1) /\ eofs' = eofs - 1
       ELSE Consume(k) /\ UNCHANGED eofs

(* The ring is empty: sleep, or return -1 when killed. *)
ReadWaits(p, k) ==
    /\ ~AtEnd(p, k) /\ k = Avail
    /\ Consume(k) /\ UNCHANGED eofs
    /\ IF proc[p].killed THEN Returns(p)
       ELSE proc' = [proc EXCEPT ![p].n = @ - k, ![p].pc = "rsleep"]

(* cons.lock is held while the interrupt handler echoes. *)
ConsLocked == intr.pc \in {"procdump", "echo"}

Read(p) ==
    /\ proc[p].pc = "read" /\ ~ConsLocked
    /\ \E k \in 0 .. INPUT_BUF_SIZE :
          Passes(p, k) /\ (ReadEnds(p, k) \/ ReadEof(p, k) \/ ReadWaits(p, k))
    /\ UNCHANGED <<config, devVars, intr, calls>>

(* kkill(), as a reader sees it *)
Kill(p) ==
    /\ proc[p].pc # "idle" /\ ~proc[p].killed
    /\ proc' = [proc EXCEPT ![p].killed = TRUE,
                            ![p].pc = IF @ = "rsleep" THEN "read" ELSE @]
    /\ UNCHANGED <<config, devVars, inVars, calls>>

-----------------------------------------------------------------------------
(* The UART interrupt *)

(* devintr(): plic_claim() keeps the UART from interrupting again.  Then   *)
(* uartintr() reads ISR, which acknowledges the transmit interrupt, unless *)
(* received input is the cause that it reports.                            *)
Claim ==
    /\ intr.pc = "off" /\ (uart.thri \/ uart.rx # <<>>)
    /\ intr' = [intr EXCEPT !.pc = "tx"]
    /\ uart' = [uart EXCEPT !.thri = @ /\ uart.rx # <<>>]
    /\ UNCHANGED <<config, pr, tx_busy, sync, owed, cons, stream, eofs, proc, calls>>

(* A plausible slip: the line status is not looked at. *)
TxDoneUnread ==
    /\ intr.pc = "tx"
    /\ intr' = [intr EXCEPT !.pc = "rx"]
    /\ tx_busy' = FALSE /\ proc' = Wake("wsleep", "uartwrite")
    /\ UNCHANGED <<config, pr, uart, sync, owed, cons, stream, eofs, calls>>

(* The part of uartintr() under tx_lock *)
TxDone ==
    /\ intr.pc = "tx"
    /\ intr' = [intr EXCEPT !.pc = "rx"]
    /\ IF TX_IDLE THEN tx_busy' = FALSE /\ proc' = Wake("wsleep", "uartwrite")
       ELSE UNCHANGED <<tx_busy, proc>>
    /\ UNCHANGED <<config, pr, uart, sync, owed, cons, stream, eofs, calls>>

Stored(c) == IF c = "\r" THEN "\n" ELSE c

Room == Diff(cons.e, cons.r) < INPUT_BUF_SIZE

Keeps(c) == c \notin {"^P", "^U", "^H", "nul"} /\ Room

(* Edited characters that a backspace or a kill takes back *)
Erased(c) == LET n == Diff(cons.e, cons.w)
             IN  IF c = "^U" THEN n ELSE IF c = "^H" /\ n > 0 THEN 1 ELSE 0

(* Calls of consputc(); the bytes of a BACKSPACE are counted as one. *)
Echo(c) == IF Keeps(c) THEN 1 ELSE Erased(c)

(* A plausible slip: the interrupt is never completed at the PLIC. *)
StaysClaimed == [pc |-> "claimed", c |-> "nul"]

(* The UART may interrupt again. *)
plic_complete == [pc |-> "off", c |-> "nul"]

(* uartgetc(), and plic_complete() when nothing is left; or consoleintr(), *)
(* which takes cons.lock and echoes.                                       *)
Getc ==
    /\ intr.pc = "rx"
    /\ IF uart.rx = <<>> THEN intr' = plic_complete /\ UNCHANGED <<uart, sync>>
       ELSE \E c \in {Head(uart.rx)} :
            /\ intr' = [pc |-> IF c = "^P" THEN "procdump" ELSE "echo", c |-> c]
            /\ uart' = [uart EXCEPT !.rx = Tail(@)]
            /\ sync' = [sync EXCEPT ![Intr].left = Echo(c)]
    /\ UNCHANGED <<config, pr, tx_busy, owed, cons, stream, eofs, proc, calls>>

(* ^P prints under pr.lock. *)
procdump ==
    /\ intr.pc = "procdump" /\ pr = Free
    /\ pr' = Intr
    /\ intr' = [intr EXCEPT !.pc = "echo"]
    /\ sync' = [sync EXCEPT ![Intr].left = 1]
    /\ UNCHANGED <<config, tx_busy, uart, owed, cons, stream, eofs, proc, calls>>

(* After the echo: the ring, the wakeup, the releases. *)
Edit(c) ==
    LET e == (cons.e + 1) % UINT
        ends == Stored(c) \in {"\n", "^D"} \/ Diff(e, cons.r) = INPUT_BUF_SIZE
    IN  IF Keeps(c)
        THEN /\ cons' = [cons EXCEPT !.buf[Slot(cons.e)] = Stored(c), !.e = e,
                                         !.w = IF ends THEN e ELSE @]
             /\ proc' = IF ends THEN Wake("rsleep", "read") ELSE proc
             /\ stream' = Append(stream, Stored(c))
             /\ eofs' = IF c = "^D" THEN eofs + 1 ELSE eofs
        ELSE /\ cons' = [cons EXCEPT !.e = (@ - Erased(c)) % UINT]
             /\ stream' = SubSeq(stream, 1, Len(stream) - Erased(c))
             /\ UNCHANGED <<proc, eofs>>

consoleintr ==
    /\ intr.pc = "echo" /\ sync[Intr].left = 0
    /\ Edit(intr.c)
    /\ intr' = [pc |-> "rx", c |-> "nul"]
    /\ pr' = IF pr = Intr THEN Free ELSE pr
    /\ UNCHANGED <<config, tx_busy, uart, sync, owed, calls>>

-----------------------------------------------------------------------------
WriterStep(p) == Copyin(p) \/ uartwrite(p)
IntrStep == Claim \/ TxDone \/ Getc \/ procdump \/ consoleintr

Next ==
    \/ Transmit
    \/ \E c \in keys : Type(c)
    \/ \E a \in Printers \cup {Intr} : uartputc_sync(a)
    \/ \E k \in Printers : printf(k) \/ PrintfDone(k)
    \/ \E p \in Writers : consolewrite(p) \/ WriterStep(p)
    \/ \E p \in Readers : consoleread(p) \/ Read(p) \/ Kill(p)
    \/ IntrStep

(* The UART sends what it holds, a CPU in the kernel goes on, and an       *)
(* interrupt that is pending is taken.                                     *)
Fairness ==
    /\ WF_vars(Transmit) /\ WF_vars(IntrStep)
    /\ \A a \in Printers \cup {Intr} : WF_vars(uartputc_sync(a))
    /\ \A k \in Printers : WF_vars(PrintfDone(k))
    /\ \A p \in Writers : WF_vars(WriterStep(p))
    /\ \A p \in Readers : WF_vars(Read(p))

Spec == Init /\ [][Next]_vars /\ Fairness

-----------------------------------------------------------------------------
Count(s, x) == Cardinality({i \in DOMAIN s : s[i] = x})

(* From cons.r on, the ring holds the input that is typed, not erased and  *)
(* not read, in order and nothing overwritten, whatever the wrapped        *)
(* indices; nothing that ended a line is still being edited; every ^D is   *)
(* there until exactly one read has returned 0 for it; and no reader       *)
(* sleeps on a line that has arrived.                                      *)
LinesKept ==
    LET n == Diff(cons.e, cons.r)
        ring == [i \in 1 .. n |-> cons.buf[Slot(cons.r + i - 1)]]
    IN  /\ n <= INPUT_BUF_SIZE /\ Diff(cons.w, cons.r) <= n
        /\ ring = stream
        /\ \A i \in Diff(cons.w, cons.r) + 1 .. n : ring[i] \notin {"\n", "^D"}
        /\ Count(ring, "^D") = eofs
        /\ \A p \in Readers : proc[p].pc = "rsleep" => cons.r = cons.w

(* No byte of write() is lost, although echo and printf() fill the same    *)
(* FIFO without tx_lock and uartwrite() never looks at the line status;    *)
(* while tx_busy is set the transmit-complete interrupt that clears it is  *)
(* still to come; and only then does a writer sleep.                       *)
OutputKept ==
    /\ \A p \in Writers : owed[p] = Count(uart.thr, p)
    /\ tx_busy => ~TX_IDLE \/ uart.thri \/ intr.pc = "tx"
    /\ ~tx_busy => \A p \in Writers : owed[p] = 0 /\ proc[p].pc # "wsleep"

(* Every write() to the console returns, whoever else writes, prints or    *)
(* has input echoed.                                                       *)
WritersReturn == \A p \in Writers : proc[p].pc # "idle" ~> proc[p].pc = "idle"
=============================================================================
