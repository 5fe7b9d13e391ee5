-------------------------------- MODULE Pipe --------------------------------
(***************************************************************************)
(* A pipe, kernel/pipe.c, shared by processes that read and processes that *)
(* write, any of which may be killed or close its end at any time.         *)
(*                                                                         *)
(* pi->lock is held through the loops of pipewrite() and piperead() and    *)
(* given up in sleep(), so a step is one round of a loop; kill() needs     *)
(* only p->lock and comes between any two of them.  nread and nwrite are   *)
(* uints of W bits.  A byte is the number of bytes written before it,      *)
(* plus one.                                                               *)
(***************************************************************************)
EXTENDS Naturals, FiniteSets

CONSTANTS
    Reader, Writer,     \* the processes with the read, the write end open
    None,               \* no process
    PIPESIZE, W,
    MaxN,               \* bound: bytes asked for by one read() or write()
    MaxBytes            \* bound: no write() beyond this many bytes

ASSUME PipeAssumption ==
    /\ Reader \cap Writer = {} /\ None \notin Reader \cup Writer
    /\ {PIPESIZE, MaxN} \subseteq Nat \ {0} /\ {W, MaxBytes} \subseteq Nat
    /\ 2^W \in Nat /\ 2^W % PIPESIZE = 0 /\ 2^W > PIPESIZE

Proc == Reader \cup Writer
uint == 0 .. 2^W - 1

VARIABLES
    data, nread, nwrite, readopen, writeopen,       \* struct pipe
    lock,                   \* pi->lock: the process that holds it, or None
    pc, i, n,               \* each process: where it is, i and n
    killed,
    sent, rcvd              \* history: bytes put into, taken out of the pipe

pipeVars == <<data, nread, nwrite, readopen, writeopen>>
vars == <<pipeVars, lock, pc, i, n, killed, sent, rcvd>>

(* user: not in a system call; enter: at acquire(&pi->lock); loop: in the  *)
(* while loop; copy: in the for loop of piperead(); dozing: at sleep();    *)
(* asleep; closed: has closed its end.                                     *)
Labels == {"user", "enter", "loop", "copy", "dozing", "asleep", "closed"}

TypeOK ==
    /\ data \in [0 .. PIPESIZE - 1 -> 0 .. sent]
    /\ nread \in uint /\ nwrite \in uint
    /\ readopen \in BOOLEAN /\ writeopen \in BOOLEAN
    /\ lock \in Proc \cup {None}
    /\ pc \in [Proc -> Labels] /\ killed \in [Proc -> BOOLEAN]
    /\ i \in [Proc -> 0 .. MaxN] /\ n \in [Proc -> 0 .. MaxN]
    /\ rcvd \in 0 .. sent /\ sent \in Nat

(* After pipealloc() and the forks that share the pipe. *)
Init ==
    /\ data = [k \in 0 .. PIPESIZE - 1 |-> 0]
    /\ nread = 0 /\ nwrite = 0
    /\ readopen = TRUE /\ writeopen = TRUE
    /\ lock = None
    /\ pc = [p \in Proc |-> "user"]
    /\ i = [p \in Proc |-> 0] /\ n = [p \in Proc |-> 0]
    /\ killed = [p \in Proc |-> FALSE]
    /\ sent = 0 /\ rcvd = 0

Full == nwrite = (nread + PIPESIZE) % 2^W
Empty == nread = nwrite

-----------------------------------------------------------------------------

Goto(p, l) == pc' = [pc EXCEPT ![p] = l]

(* wakeup() of the processes asleep in S, while p goes to l. *)
WakeGoto(S, p, l) ==
    pc' = [q \in Proc |-> IF q = p THEN l
                          ELSE IF q \in S /\ pc[q] = "asleep" THEN "enter" ELSE pc[q]]

(* read() or write() of k bytes. *)
Call(p, k) ==
    /\ pc[p] = "user" /\ ~killed[p]
    /\ p \in Writer => sent < MaxBytes
    /\ Goto(p, "enter")
    /\ n' = [n EXCEPT ![p] = k] /\ i' = [i EXCEPT ![p] = 0]
    /\ UNCHANGED <<pipeVars, lock, killed, sent, rcvd>>

(* acquire(&pi->lock), at the start or at the end of sleep(). *)
Enter(p) ==
    /\ pc[p] = "enter" /\ lock = None
    /\ lock' = p
    /\ Goto(p, "loop")
    /\ UNCHANGED <<pipeVars, i, n, killed, sent, rcvd>>

(* sleep(): the process is SLEEPING before it lets go of pi->lock. *)
Doze(p) ==
    /\ pc[p] = "dozing"
    /\ lock' = None
    /\ Goto(p, "asleep")
    /\ UNCHANGED <<pipeVars, i, n, killed, sent, rcvd>>

(* The system call is over. *)
Leave(p) ==
    /\ lock' = None
    /\ i' = [i EXCEPT ![p] = 0] /\ n' = [n EXCEPT ![p] = 0]

-----------------------------------------------------------------------------
(* pipewrite() *)

WriteFails(p) ==
    /\ p \in Writer /\ pc[p] = "loop" /\ i[p] < n[p]
    /\ ~readopen \/ killed[p]
    /\ Leave(p) /\ Goto(p, "user")
    /\ UNCHANGED <<pipeVars, killed, sent, rcvd>>

WriteFull(p) ==
    /\ p \in Writer /\ pc[p] = "loop" /\ i[p] < n[p]
    /\ readopen /\ ~killed[p]
    /\ Full
    /\ WakeGoto(Reader, p, "dozing")
    /\ UNCHANGED <<pipeVars, lock, i, n, killed, sent, rcvd>>

WriteByte(p) ==
    /\ p \in Writer /\ pc[p] = "loop" /\ i[p] < n[p]
    /\ readopen /\ ~killed[p]
    /\ ~Full
    /\ data' = [data EXCEPT ![nwrite % PIPESIZE] = sent + 1]
    /\ nwrite' = (nwrite + 1) % 2^W
    /\ sent' = sent + 1
    /\ i' = [i EXCEPT ![p] = @ + 1]
    /\ UNCHANGED <<nread, readopen, writeopen, lock, pc, n, killed, rcvd>>

(* All written, or copyin() fails. *)
WriteDone(p) ==
    /\ p \in Writer /\ pc[p] = "loop"
    /\ i[p] < n[p] => readopen /\ ~killed[p] /\ ~Full
    /\ Leave(p) /\ WakeGoto(Reader, p, "user")
    /\ UNCHANGED <<pipeVars, killed, sent, rcvd>>

-----------------------------------------------------------------------------
(* piperead() *)

ReadFails(p) ==
    /\ p \in Reader /\ pc[p] = "loop"
    /\ Empty /\ writeopen /\ killed[p]
    /\ Leave(p) /\ Goto(p, "user")
    /\ UNCHANGED <<pipeVars, killed, sent, rcvd>>

ReadEmpty(p) ==
    /\ p \in Reader /\ pc[p] = "loop"
    /\ Empty /\ writeopen /\ ~killed[p]
    /\ Goto(p, "dozing")
    /\ UNCHANGED <<pipeVars, lock, i, n, killed, sent, rcvd>>

ReadStart(p) ==
    /\ p \in Reader /\ pc[p] = "loop"
    /\ ~(Empty /\ writeopen)
    /\ Goto(p, "copy")
    /\ UNCHANGED <<pipeVars, lock, i, n, killed, sent, rcvd>>

(* Mutation: nread stays below PIPESIZE, nwrite does not. *)
ReadByteWrapped(p) ==
    /\ pc[p] = "copy" /\ i[p] < n[p] /\ ~Empty
    /\ nread' = (nread + 1) % PIPESIZE
    /\ rcvd' = rcvd + 1
    /\ i' = [i EXCEPT ![p] = @ + 1]
    /\ UNCHANGED <<data, nwrite, readopen, writeopen, lock, pc, n, killed, sent>>

ReadByte(p) ==
    /\ pc[p] = "copy" /\ i[p] < n[p] /\ ~Empty
    /\ nread' = (nread + 1) % 2^W
    /\ rcvd' = rcvd + 1
    /\ i' = [i EXCEPT ![p] = @ + 1]
    /\ UNCHANGED <<data, nwrite, readopen, writeopen, lock, pc, n, killed, sent>>

(* Mutation: the writers are woken only if all was read. *)
ReadDoneSome(p) ==
    /\ pc[p] = "copy"
    /\ Leave(p) /\ WakeGoto(IF i[p] = n[p] THEN Writer ELSE {}, p, "user")
    /\ UNCHANGED <<pipeVars, killed, sent, rcvd>>

(* All read, or nothing left, or copyout() fails. *)
ReadDone(p) ==
    /\ pc[p] = "copy"
    /\ Leave(p) /\ WakeGoto(Writer, p, "user")
    /\ UNCHANGED <<pipeVars, killed, sent, rcvd>>

-----------------------------------------------------------------------------

(* Mutation: pipeclose() wakes its own side. *)
CloseOwn(p) ==
    LET side == IF p \in Reader THEN Reader ELSE Writer
        last == \A q \in side \ {p} : pc[q] = "closed" IN
    /\ pc[p] = "user"
    /\ last => lock = None
    /\ readopen' = (readopen /\ ~(last /\ p \in Reader))
    /\ writeopen' = (writeopen /\ ~(last /\ p \in Writer))
    /\ WakeGoto(IF last THEN side ELSE {}, p, "closed")
    /\ UNCHANGED <<data, nread, nwrite, lock, i, n, killed, sent, rcvd>>

(* close(), or kexit(): the last process to close an end calls             *)
(* pipeclose() (fileclose() counts the references).                        *)
Close(p) ==
    LET side == IF p \in Reader THEN Reader ELSE Writer
        other == IF p \in Reader THEN Writer ELSE Reader
        last == \A q \in side \ {p} : pc[q] = "closed" IN
    /\ pc[p] = "user"
    /\ last => lock = None
    /\ readopen' = (readopen /\ ~(last /\ p \in Reader))
    /\ writeopen' = (writeopen /\ ~(last /\ p \in Writer))
    /\ WakeGoto(IF last THEN other ELSE {}, p, "closed")
    /\ UNCHANGED <<data, nread, nwrite, lock, i, n, killed, sent, rcvd>>

(* kkill(): sets killed, and wakes a process that is SLEEPING. *)
Kill(p) ==
    /\ pc[p] # "closed" /\ ~killed[p]
    /\ killed' = [killed EXCEPT ![p] = TRUE]
    /\ Goto(p, IF pc[p] = "asleep" THEN "enter" ELSE pc[p])
    /\ UNCHANGED <<pipeVars, lock, i, n, sent, rcvd>>

InCall(p) ==
    \/ Enter(p) \/ Doze(p)
    \/ WriteFails(p) \/ WriteFull(p) \/ WriteByte(p) \/ WriteDone(p)
    \/ ReadFails(p) \/ ReadEmpty(p) \/ ReadStart(p) \/ ReadByte(p) \/ ReadDone(p)

Next ==
    \E p \in Proc : \/ \E k \in 1 .. MaxN : Call(p, k)
                    \/ InCall(p) \/ Close(p) \/ Kill(p)

Spec == Init /\ [][Next]_vars

(* A process in the kernel keeps running, and gets pi->lock if it is free  *)
(* again and again; one that is killed does not return to user space but   *)
(* exits (usertrap()).  Other calls are up to the programs.                *)
FairSpec ==
    Spec /\ \A p \in Proc : SF_vars(InCall(p)) /\ WF_vars(killed[p] /\ Close(p))
-----------------------------------------------------------------------------
(* Properties *)

(* The bytes in the ring are those written and not yet read, in order, and *)
(* never more than PIPESIZE, also after nread and nwrite have wrapped:     *)
(* nothing is lost, doubled or overwritten between the processes.          *)
InOrder ==
    /\ TypeOK
    /\ sent - rcvd <= PIPESIZE
    /\ (nread + (sent - rcvd)) % 2^W = nwrite
    /\ \A k \in 1 .. sent - rcvd : data[(nread + k - 1) % PIPESIZE] = rcvd + k

(* Whenever pi->lock is free, a writer sleeps only at a full pipe, and a   *)
(* reader only at an empty one - unless a writer was killed, which returns *)
(* from pipewrite() without a wakeup for the bytes it has written.         *)
SleepersWait ==
    lock = None =>
        /\ \A p \in Writer : pc[p] = "asleep" => Full
        /\ \A p \in Reader : pc[p] = "asleep" =>
              Empty \/ \E q \in Writer : killed[q]

(* Nobody waits for an end that is closed: pipeclose() wakes the other     *)
(* side, and their calls return.                                           *)
CloseWakes ==
    /\ \A p \in Writer : (pc[p] \in {"dozing", "asleep"} /\ ~readopen) ~> pc[p] = "user"
    /\ \A p \in Reader : (pc[p] \in {"dozing", "asleep"} /\ ~writeopen) ~> pc[p] = "user"
=============================================================================
