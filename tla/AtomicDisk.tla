----------------------------- MODULE AtomicDisk -----------------------------
(***************************************************************************)
(* What the log of kernel/log.c promises the file system: the blocks the   *)
(* operations between begin_op() and end_op() write reach the disk all at  *)
(* once, and only when no operation is half done; a crash takes the disk   *)
(* back to the last such moment.                                           *)
(***************************************************************************)
CONSTANTS Proc, Block, Data, Data0

VARIABLES
    active,     \* the processes inside an operation
    current,    \* what operations read and write
    stable      \* what is there after a crash

vars == <<active, current, stable>>

Init ==
    /\ active = {}
    /\ current = [b \in Block |-> Data0]
    /\ stable = current

Begin(p) ==
    /\ p \notin active
    /\ active' = active \cup {p}
    /\ UNCHANGED <<current, stable>>

Write(p, b, v) ==
    /\ p \in active
    /\ current' = [current EXCEPT ![b] = v]
    /\ UNCHANGED <<active, stable>>

End(p) ==
    /\ p \in active
    /\ active' = active \ {p}
    /\ UNCHANGED <<current, stable>>

Commit ==
    /\ active = {}
    /\ stable' = current
    /\ UNCHANGED <<active, current>>

Crash ==
    /\ active' = {}
    /\ current' = stable
    /\ UNCHANGED stable

Next ==
    \/ \E p \in Proc : Begin(p) \/ End(p)
    \/ \E p \in Proc, b \in Block, v \in Data : Write(p, b, v)
    \/ Commit \/ Crash

Spec == Init /\ [][Next]_vars
=============================================================================
