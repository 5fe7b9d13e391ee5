-------------------------------- MODULE MCVm --------------------------------
EXTENDS Vm

Seg(vaddr, memsz, filesz, perm, complete) ==
    [vaddr |-> vaddr, memsz |-> memsz, filesz |-> filesz, perm |-> perm, complete |-> complete]
Text == Seg(0, 2, 2, {"X"}, TRUE)

(* One good program and one with a bss; then files that are truncated,     *)
(* have a bad header, or want more than there is.                          *)
MCInitcode == <<Text>>
MCImage == { <<Text>>,
             <<Text, Seg(2, 3, 1, {"W"}, TRUE)>>,
             <<Text, Seg(0, 2, 1, {"W"}, TRUE)>>,
             <<Text, Seg(2, 2, 2, {"W"}, FALSE)>>,
             <<Text, Seg(3, 2, 2, {"W"}, TRUE)>>,
             <<Text, Seg(2, Wrap - 1, 0, {"W"}, TRUE)>>,
             <<Text, Seg(TRAPFRAME, 2, 0, {"W"}, TRUE)>> }
=============================================================================
