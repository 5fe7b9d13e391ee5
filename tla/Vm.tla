---------------------------------- MODULE Vm ----------------------------------
(***************************************************************************)
(* Physical pages and user address spaces: kalloc.c, vm.c, exec.c and the  *)
(* parts of proc.c, sysproc.c and sysfile.c that allocate, map and free.   *)
(*                                                                         *)
(* A function of the code that changes memory is an operator from memory   *)
(* to memory and a result; what follows a call in it is an operator of     *)
(* that call's result.  A step is a whole system call or fault: two        *)
(* of them on different CPUs share only the free list, and running out in  *)
(* the middle of one because of another is the same as running out because *)
(* the other took its pages before (OtherAlloc).  kalloc() picks any free  *)
(* page: the lowest stands for all.                                        *)
(*                                                                         *)
(* Addresses count bytes, PGSIZE a page.  As in the machine, there are     *)
(* more virtual pages below TRAPFRAME than physical ones.                  *)
(***************************************************************************)
EXTENDS Integers, Sequences, FiniteSets, FiniteSetsExt, Functions

CONSTANTS
    NPROC, NPAGE,
    PGSIZE, NPTE,       \* bytes in a page, PTEs in a page-table page (512)
    USERSTACK,
    Image, Initcode,    \* the files to exec: sequences of segments; /init
    MaxArg,             \* arguments of exec()
    Grow, Shrink,       \* the amounts of sbrk()
    Touch,              \* the addresses programs use
    MaxCalls            \* bound: steps in all

Page == 1 .. NPAGE
Trampoline == NPAGE + 1     \* in the kernel's text
MAXVA == NPTE * NPTE * NPTE * PGSIZE
TRAMPOLINE == MAXVA - PGSIZE
TRAPFRAME == TRAMPOLINE - PGSIZE
Wrap == 4 * MAXVA           \* addresses are unsigned: 2^64

ASSUME VmAssumption == NPAGE * PGSIZE < TRAPFRAME

VARIABLES
    mem,        \* free list, page tables, data, and the panic that stopped the kernel
    proc,       \* each slot: trapframe page, page table, sz
    other,      \* pages the rest of the kernel has (pipes, rings)
    calls       \* steps so far

vars == <<mem, proc, other, calls>>

Slot == 1 .. NPROC
Unused == [trapframe |-> 0, pagetable |-> 0, sz |-> 0]
Used(p) == proc[p] # Unused

PGROUNDUP(a) == ((a + PGSIZE - 1) \div PGSIZE) * PGSIZE
PGROUNDDOWN(a) == (a \div PGSIZE) * PGSIZE
PX(level, va) == (va \div (PGSIZE * NPTE ^ level)) % NPTE

NoPte == [pa |-> 0, f |-> {}]
Table(pte) == [i \in 0 .. NPTE - 1 |-> pte]

(* memset(pa, 0) and memset(pa, 5): junk read as a PTE has PTE_V set. *)
Zeroed(m, pa) == [m EXCEPT !.pt[pa] = Table(NoPte), !.data[pa] = "zero"]
Junk(m, pa) == [m EXCEPT !.pt[pa] = Table([pa |-> 0, f |-> {"V", "W"}]), !.data[pa] = "junk"]
Panic(m, why) == [m EXCEPT !.panic = why]

-----------------------------------------------------------------------------
(* kalloc.c.  The list is a set: a page freed twice, which would be on the *)
(* list twice, stops the model like a page kfree() refuses.                *)
kfree(m, pa) ==
    IF pa \in Page /\ pa \notin m.free THEN [Junk(m, pa) EXCEPT !.free = @ \cup {pa}]
    ELSE Panic(m, "kfree")

Take(m, pa) == [m |-> [Junk(m, pa) EXCEPT !.free = @ \ {pa}], pa |-> pa]
kalloc(m) == IF m.free = {} THEN [m |-> m, pa |-> 0] ELSE Take(m, Min(m.free))

Kinit == LET m0 == [free |-> {}, pt |-> [pa \in Page |-> Table(NoPte)],
                    data |-> [pa \in Page |-> "junk"], panic |-> ""]
         IN FoldSet(LAMBDA pa, m : kfree(m, pa), m0, Page)

(* walk() with alloc = 0: the leaf table of va, 0 if there is none. *)
Down(m, t, level, va) ==
    IF t # 0 /\ "V" \in m.pt[t][PX(level, va)].f THEN m.pt[t][PX(level, va)].pa ELSE 0
Leaf(m, pagetable, va) == Down(m, Down(m, pagetable, 2, va), 1, va)

(* walk() with alloc = 1 makes the tables that are missing on the way. *)
NewTable(k, t, level, va) ==
    IF k.pa = 0 THEN [m |-> k.m, t |-> 0]
    ELSE [m |-> [Zeroed(k.m, k.pa) EXCEPT !.pt[t][PX(level, va)] = [pa |-> k.pa, f |-> {"V"}]], t |-> k.pa]
Table1(w, level, va) ==
    IF w.t = 0 THEN w
    ELSE IF Down(w.m, w.t, level, va) # 0 THEN [w EXCEPT !.t = Down(w.m, w.t, level, va)]
    ELSE NewTable(kalloc(w.m), w.t, level, va)
walk(m, pagetable, va) == Table1(Table1([m |-> m, t |-> pagetable], 2, va), 1, va)

Pte(m, pagetable, va) == LET t == Leaf(m, pagetable, va) IN IF t = 0 THEN NoPte ELSE m.pt[t][PX(0, va)]
SetPte(m, pagetable, va, e) == [m EXCEPT !.pt[Leaf(m, pagetable, va)][PX(0, va)] = e]

ismapped(m, pagetable, va) == "V" \in Pte(m, pagetable, va).f
walkaddr(m, pagetable, va) ==
    IF va < MAXVA /\ {"V", "U"} \subseteq Pte(m, pagetable, va).f THEN Pte(m, pagetable, va).pa ELSE 0

(* mappages() of one page. *)
Mapped(w, pagetable, va, pte) ==
    IF w.t = 0 THEN [m |-> w.m, ok |-> FALSE]
    ELSE IF ismapped(w.m, pagetable, va) THEN [m |-> Panic(w.m, "remap"), ok |-> FALSE]
    ELSE [m |-> SetPte(w.m, pagetable, va, pte), ok |-> TRUE]
mappages(m, pagetable, va, pa, perm) ==
    IF va >= MAXVA THEN [m |-> Panic(m, "walk"), ok |-> FALSE]
    ELSE Mapped(walk(m, pagetable, va), pagetable, va, [pa |-> pa, f |-> perm \cup {"V"}])

uvmunmap(m0, pagetable, va, npages, do_free) ==
    FoldSet(LAMBDA a, m :
              SetPte(IF do_free THEN kfree(m, Pte(m, pagetable, a).pa) ELSE m, pagetable, a, NoPte),
            m0, {a \in {va + i * PGSIZE : i \in 0 .. npages - 1} : ismapped(m0, pagetable, a)})

uvmdealloc(m, pagetable, oldsz, newsz) ==
    [m |-> IF newsz >= oldsz THEN m
           ELSE uvmunmap(m, pagetable, PGROUNDUP(newsz),
                         (PGROUNDUP(oldsz) - PGROUNDUP(newsz)) \div PGSIZE, TRUE),
     sz |-> IF newsz >= oldsz THEN oldsz ELSE newsz]

(* A fresh zeroed page at a: uvmalloc(), vmfault() and, with a copy, uvmcopy(). *)
Fill(m, pa, data) == [Zeroed(m, pa) EXCEPT !.data[pa] = data]

(* Mutation: the page is not freed when it cannot be mapped. *)
OrFreeLeaks(map, pa) == map
OrFree(map, pa) == IF map.ok THEN map ELSE [m |-> kfree(map.m, pa), ok |-> FALSE]

MapNew(k, pagetable, a, data, perm) ==
    IF k.pa = 0 THEN [m |-> k.m, ok |-> FALSE]
    ELSE OrFree(mappages(Fill(k.m, k.pa, data), pagetable, a, k.pa, perm), k.pa)
NewPage(m, pagetable, a, data, perm) == MapNew(kalloc(m), pagetable, a, data, perm)

UvmallocErr(m, pagetable, a, oldsz) == [m |-> uvmdealloc(m, pagetable, a, oldsz).m, sz |-> 0]

RECURSIVE UvmallocFrom(_, _, _, _, _, _), UvmallocNext(_, _, _, _, _, _)
UvmallocFrom(m, pagetable, a, oldsz, newsz, xperm) ==
    IF a >= newsz THEN [m |-> m, sz |-> newsz]
    ELSE UvmallocNext(NewPage(m, pagetable, a, "zero", {"R", "U"} \cup xperm), pagetable, a, oldsz, newsz, xperm)
UvmallocNext(new, pagetable, a, oldsz, newsz, xperm) ==
    IF new.ok THEN UvmallocFrom(new.m, pagetable, a + PGSIZE, oldsz, newsz, xperm)
    ELSE UvmallocErr(new.m, pagetable, a, oldsz)

uvmalloc(m, pagetable, oldsz, newsz, xperm) ==
    IF newsz < oldsz THEN [m |-> m, sz |-> oldsz]
    ELSE UvmallocFrom(m, pagetable, PGROUNDUP(oldsz), PGROUNDUP(oldsz), newsz, xperm)

RECURSIVE freewalk(_, _)
freewalk(m0, pagetable) ==
    kfree(FoldSet(LAMBDA i, m :
                    LET e == m.pt[pagetable][i]
                    IN IF "V" \notin e.f THEN m
                       ELSE IF e.f \cap {"R", "W", "X"} # {} THEN Panic(m, "freewalk: leaf")
                       ELSE [freewalk(m, e.pa) EXCEPT !.pt[pagetable][i] = NoPte],
                  m0, 0 .. NPTE - 1), pagetable)

uvmfree(m, pagetable, sz) == freewalk(uvmunmap(m, pagetable, 0, PGROUNDUP(sz) \div PGSIZE, TRUE), pagetable)

UvmcopyErr(m, new, i) == uvmunmap(m, new, 0, i \div PGSIZE, TRUE)

CopyPage(m, e, new, i) == NewPage(m, new, i, m.data[e.pa], e.f)

RECURSIVE UvmcopyFrom(_, _, _, _, _), UvmcopyNext(_, _, _, _, _)
(* Mutation: a page that is not mapped ends the copy. *)
UvmcopyFromStops(m, old, new, i, sz) ==
    IF i >= sz \/ ~ismapped(m, old, i) THEN [m |-> m, ok |-> TRUE]
    ELSE UvmcopyNext(CopyPage(m, Pte(m, old, i), new, i), old, new, i, sz)
UvmcopyFrom(m, old, new, i, sz) ==
    IF i >= sz THEN [m |-> m, ok |-> TRUE]
    ELSE UvmcopyNext(IF ismapped(m, old, i) THEN CopyPage(m, Pte(m, old, i), new, i) ELSE [m |-> m, ok |-> TRUE],
                     old, new, i, sz)
UvmcopyNext(copy, old, new, i, sz) ==
    IF copy.ok THEN UvmcopyFrom(copy.m, old, new, i + PGSIZE, sz)
    ELSE [m |-> UvmcopyErr(copy.m, new, i), ok |-> FALSE]

uvmcopy(m, old, new, sz) == UvmcopyFrom(m, old, new, 0, sz)

uvmclear(m, pagetable, va) ==
    IF Leaf(m, pagetable, va) = 0 THEN Panic(m, "uvmclear")
    ELSE SetPte(m, pagetable, va, [Pte(m, pagetable, va) EXCEPT !.f = @ \ {"U"}])

MayFault(pr, va) == va < pr.sz

(* vmfault(): whatever the page table, the new page goes to p->pagetable. *)
vmfault(m, pr, pagetable, va) ==
    IF ~MayFault(pr, va) \/ ismapped(m, pagetable, PGROUNDDOWN(va)) THEN [m |-> m, ok |-> FALSE]
    ELSE NewPage(m, pr.pagetable, PGROUNDDOWN(va), "zero", {"W", "U", "R"})

(* copyout() and copyin(): page by page, what is not mapped is faulted in; *)
(* copyinstr() of a string that ends within len does not do that.          *)
Resident(m, pr, pagetable, va, how) ==
    IF walkaddr(m, pagetable, va) # 0 THEN [m |-> m, ok |-> TRUE]
    ELSE IF va >= MAXVA \/ how = "instr" THEN [m |-> m, ok |-> FALSE]
    ELSE vmfault(m, pr, pagetable, va)
Stored(m, pa) == [m EXCEPT !.data[pa] = "stored"]

RECURSIVE Copy(_, _, _, _, _, _), CopyPiece(_, _, _, _, _, _)
Copy(m, pr, pagetable, va, len, how) ==
    IF len <= 0 THEN [m |-> m, ok |-> TRUE]
    ELSE CopyPiece(Resident(m, pr, pagetable, PGROUNDDOWN(va), how), pr, pagetable, va, len, how)
CopyPiece(f, pr, pagetable, va, len, how) ==
    IF ~f.ok \/ (how = "out" /\ "W" \notin Pte(f.m, pagetable, va).f) THEN [m |-> f.m, ok |-> FALSE]
    ELSE Copy(IF how = "out" THEN Stored(f.m, Pte(f.m, pagetable, va).pa) ELSE f.m,
              pr, pagetable, PGROUNDDOWN(va) + PGSIZE, len - (PGSIZE - (va % PGSIZE)), how)

-----------------------------------------------------------------------------
(* proc.c *)
MapFrame(frame, root) ==
    IF frame.ok THEN [m |-> frame.m, pagetable |-> root]
    ELSE [m |-> uvmfree(uvmunmap(frame.m, root, TRAMPOLINE, 1, FALSE), root, 0), pagetable |-> 0]
MapTramp(tramp, root, trapframe) ==
    IF tramp.ok THEN MapFrame(mappages(tramp.m, root, TRAPFRAME, trapframe, {"R", "W"}), root)
    ELSE [m |-> uvmfree(tramp.m, root, 0), pagetable |-> 0]
MapRoot(k, trapframe) ==
    IF k.pa = 0 THEN [m |-> k.m, pagetable |-> 0]
    ELSE MapTramp(mappages(Zeroed(k.m, k.pa), k.pa, TRAMPOLINE, Trampoline, {"R", "X"}), k.pa, trapframe)
proc_pagetable(m, trapframe) == MapRoot(kalloc(m), trapframe)

proc_freepagetable(m, pagetable, sz) ==
    uvmfree(uvmunmap(uvmunmap(m, pagetable, TRAMPOLINE, 1, FALSE), pagetable, TRAPFRAME, 1, FALSE),
            pagetable, sz)

(* freeproc(), and allocproc() with the slot it makes. *)
freeproc(m, pr) ==
    IF pr.pagetable = 0 THEN kfree(m, pr.trapframe)
    ELSE proc_freepagetable(kfree(m, pr.trapframe), pr.pagetable, pr.sz)

WithTable(pt, trapframe) ==
    LET pr == [trapframe |-> trapframe, pagetable |-> pt.pagetable, sz |-> 0]
    IN IF pt.pagetable # 0 THEN [m |-> pt.m, proc |-> pr] ELSE [m |-> freeproc(pt.m, pr), proc |-> Unused]
WithFrame(k) == IF k.pa = 0 THEN [m |-> k.m, proc |-> Unused] ELSE WithTable(proc_pagetable(k.m, k.pa), k.pa)
allocproc(m) == WithFrame(kalloc(m))

-----------------------------------------------------------------------------
(* exec.c: loadseg(), and the loop over the program headers. *)
loadseg(m0, pagetable, seg) ==
    FoldSet(LAMBDA va, m : LET pa == walkaddr(m, pagetable, va)
                           IN IF pa = 0 THEN Panic(m, "loadseg") ELSE [m EXCEPT !.data[pa] = "file"],
            m0, {seg.vaddr + i : i \in {j \in 0 .. seg.filesz - 1 : j % PGSIZE = 0}})

RECURSIVE LoadSegs(_, _, _, _), LoadNext(_, _, _, _)
LoadSegs(m, pagetable, segs, sz) ==
    LET seg == Head(segs)
        end == (seg.vaddr + seg.memsz) % Wrap
    IN IF segs = <<>> THEN [m |-> m, sz |-> sz, ok |-> TRUE]
       ELSE IF seg.memsz < seg.filesz \/ end < seg.vaddr \/ seg.vaddr % PGSIZE # 0
       THEN [m |-> m, sz |-> sz, ok |-> FALSE]
       ELSE LoadNext(uvmalloc(m, pagetable, sz, end, seg.perm), pagetable, segs, sz)
LoadNext(new, pagetable, segs, sz) ==
    IF new.sz = 0 THEN [m |-> new.m, sz |-> sz, ok |-> FALSE]
    ELSE IF ~Head(segs).complete THEN [m |-> loadseg(new.m, pagetable, Head(segs)), sz |-> new.sz, ok |-> FALSE]
    ELSE LoadSegs(loadseg(new.m, pagetable, Head(segs)), pagetable, Tail(segs), new.sz)

(* kexec(): the new memory and slot; an argument and its pointer take two  *)
(* bytes of the stack, the null pointer after them none.  From its end:    *)
(* the switch to the new image, the arguments, the stack, the segments.    *)
ExecBad(m, pt, sz, pr) == [m |-> proc_freepagetable(m, pt, sz), proc |-> pr]
ExecDone(push, pt, sz, pr) ==
    IF ~push.ok THEN ExecBad(push.m, pt, sz, pr)
    ELSE [m |-> proc_freepagetable(push.m, pr.pagetable, pr.sz), proc |-> [pr EXCEPT !.pagetable = pt, !.sz = sz]]
ExecArgs(m, pt, sz, pr, bytes) ==
    IF bytes > USERSTACK * PGSIZE THEN ExecBad(m, pt, sz, pr)
    ELSE ExecDone(Copy(m, pr, pt, sz - bytes, bytes, "out"), pt, sz, pr)
ExecStack(stack, base, pt, pr, argc) ==
    IF stack.sz = 0 THEN ExecBad(stack.m, pt, base, pr)
    ELSE ExecArgs(uvmclear(stack.m, pt, base), pt, stack.sz, pr, 2 * argc)
ExecLoaded(load, pt, pr, argc) ==
    IF ~load.ok THEN ExecBad(load.m, pt, load.sz, pr)
    ELSE ExecStack(uvmalloc(load.m, pt, PGROUNDUP(load.sz), PGROUNDUP(load.sz) + (USERSTACK + 1) * PGSIZE, {"W"}),
                   PGROUNDUP(load.sz), pt, pr, argc)
ExecTable(new, pr, segs, argc) ==
    IF new.pagetable = 0 THEN [m |-> new.m, proc |-> pr]
    ELSE ExecLoaded(LoadSegs(new.m, new.pagetable, segs, 0), new.pagetable, pr, argc)
kexec(m, pr, segs, argc) == ExecTable(proc_pagetable(m, pr.trapframe), pr, segs, argc)

(* sys_exec(): a page for every argument, all freed again. *)
RECURSIVE ArgPages(_, _, _)
ArgPages(k, pages, n) ==
    IF n = 0 THEN [m |-> k.m, pages |-> pages, ok |-> TRUE]
    ELSE IF k.m.free = {} THEN [m |-> k.m, pages |-> pages, ok |-> FALSE]
    ELSE ArgPages(kalloc(k.m), pages \cup {Min(k.m.free)}, n - 1)

-----------------------------------------------------------------------------
(* userinit(), and forkret()'s exec of /init. *)
Boot(first) == kexec(first.m, first.proc, Initcode, 1)
Init ==
    /\ \E x \in {Boot(allocproc(Kinit))} :
          mem = x.m /\ proc = [p \in Slot |-> IF p = 1 THEN x.proc ELSE Unused]
    /\ other = {} /\ calls = 0

Running == mem.panic = ""
Step == Running /\ calls < MaxCalls /\ calls' = calls + 1

kfork(p, q) ==
    /\ Step /\ Used(p) /\ ~Used(q)
    /\ \E new \in {allocproc(mem)} :
         IF new.proc = Unused THEN mem' = new.m /\ UNCHANGED proc
         ELSE \E copy \in {uvmcopy(new.m, proc[p].pagetable, new.proc.pagetable, proc[p].sz)} :
                IF ~copy.ok THEN mem' = freeproc(copy.m, new.proc) /\ UNCHANGED proc
                ELSE mem' = copy.m /\ proc' = [proc EXCEPT ![q] = [new.proc EXCEPT !.sz = proc[p].sz]]
    /\ UNCHANGED other

(* kexit() and kwait(): not of init. *)
Exit(p) ==
    /\ Step /\ Used(p) /\ p # 1
    /\ mem' = freeproc(mem, proc[p]) /\ proc' = [proc EXCEPT ![p] = Unused]
    /\ UNCHANGED other

sys_exec(p, segs, argc) ==
    /\ Step /\ Used(p)
    /\ \E args \in {ArgPages([m |-> mem], {}, argc)} :
       \E x \in {IF args.ok THEN kexec(args.m, proc[p], segs, argc) ELSE [m |-> args.m, proc |-> proc[p]]} :
         /\ mem' = FoldSet(LAMBDA pa, m : kfree(m, pa), x.m, args.pages)
         /\ proc' = [proc EXCEPT ![p] = x.proc]
    /\ UNCHANGED other

NewSize(sz, n) == (sz + n) % Wrap

(* sys_sbrk() with growproc(). *)
SbrkEager(p, n) ==
    /\ Step /\ Used(p)
    /\ LET sz == proc[p].sz
           to == NewSize(sz, n)
       IN IF n > 0 /\ to > TRAPFRAME THEN UNCHANGED <<mem, proc>>
          ELSE \E r \in {IF n > 0 THEN uvmalloc(mem, proc[p].pagetable, sz, to, {"W"})
                         ELSE uvmdealloc(mem, proc[p].pagetable, sz, to)} :
                 mem' = r.m /\ proc' = IF n > 0 /\ r.sz = 0 THEN proc ELSE [proc EXCEPT ![p].sz = r.sz]
    /\ UNCHANGED other

(* Mutation: a lazy sbrk() may reach the trapframe. *)
MayGrowFar(sz, n) == (sz + n) % Wrap >= sz
MayGrow(sz, n) == (sz + n) % Wrap >= sz /\ (sz + n) % Wrap <= TRAPFRAME

SbrkLazy(p, n) ==
    /\ Step /\ Used(p) /\ MayGrow(proc[p].sz, n)
    /\ proc' = [proc EXCEPT ![p].sz = @ + n]
    /\ UNCHANGED <<mem, other>>

(* A store by the program: done, or a page fault that usertrap() serves    *)
(* (or the process is killed, and exits).                                  *)
UserStore(p, va) ==
    /\ Step /\ Used(p)
    /\ LET e == Pte(mem, proc[p].pagetable, va)
       IN mem' = IF {"V", "U", "W"} \subseteq e.f THEN Stored(mem, e.pa)
                 ELSE vmfault(mem, proc[p], proc[p].pagetable, va).m
    /\ UNCHANGED <<proc, other>>

(* A system call that copies to or from the program. *)
CopyCall(p, va, len, how) ==
    /\ Step /\ Used(p)
    /\ mem' = Copy(mem, proc[p], proc[p].pagetable, va, len, how).m
    /\ UNCHANGED <<proc, other>>

(* The rest of the kernel (pipealloc() and pipeclose(), for example) takes *)
(* all but n of the free pages, and gives them back.                       *)
OtherAlloc(n) ==
    /\ Step /\ other = {} /\ n < Cardinality(mem.free)
    /\ \E take \in {ArgPages([m |-> mem], {}, Cardinality(mem.free) - n)} : mem' = take.m /\ other' = take.pages
    /\ UNCHANGED proc
OtherFree ==
    /\ Step /\ other # {}
    /\ mem' = FoldSet(LAMBDA pa, m : kfree(m, pa), mem, other) /\ other' = {}
    /\ UNCHANGED proc

Next ==
    \/ \E p, q \in Slot : kfork(p, q)
    \/ \E p \in Slot : Exit(p)
    \/ \E p \in Slot, segs \in Image, argc \in 0 .. MaxArg : sys_exec(p, segs, argc)
    \/ \E p \in Slot, n \in Grow \cup {-k : k \in Shrink} : SbrkEager(p, n)
    \/ \E p \in Slot, n \in Grow : SbrkLazy(p, n)
    \/ \E p \in Slot, va \in Touch : UserStore(p, va)
    \/ \E p \in Slot, va \in Touch \cup {MAXVA}, how \in {"in", "out", "instr"} : CopyCall(p, va + 1, PGSIZE, how)
    \/ \E n \in 0 .. NPAGE : OtherAlloc(n)
    \/ OtherFree

Spec == Init /\ [][Next]_vars

-----------------------------------------------------------------------------
(* Page-table pages, and user pages, of a page table. *)
Ptes(tables) == {<<t, i>> \in tables \X (0 .. NPTE - 1) : "V" \in mem.pt[t][i].f}
Children(tables) == {mem.pt[e[1]][e[2]].pa : e \in Ptes(tables)}
Inner(p) == LET root == {proc[p].pagetable} IN root \cup Children(root)
Leaves(p) == Ptes(Children(Children({proc[p].pagetable})))
UserPtes(p) == {e \in Leaves(p) : mem.pt[e[1]][e[2]].pa \notin {Trampoline, proc[p].trapframe}}

Live == {p \in Slot : Used(p)}

(* What the program of p reads at each of its pages. *)
View(p) == [i \in 0 .. PGROUNDUP(proc[p].sz) \div PGSIZE - 1 |->
              LET e == Pte(mem, proc[p].pagetable, i * PGSIZE)
              IN IF "V" \notin e.f THEN "zero" ELSE IF "U" \notin e.f THEN "guard" ELSE mem.data[e.pa]]

(* Memory, page tables and sizes have their types. *)
TypeOK ==
    /\ mem.free \subseteq Page /\ other \subseteq Page
    /\ mem.data \in [Page -> {"junk", "zero", "file", "stored"}]
    /\ \A p \in Slot : proc[p].sz \in 0 .. Wrap - 1 /\ {proc[p].trapframe, proc[p].pagetable} \subseteq 0 .. NPAGE

(* Every physical page has exactly one owner: the free list, the rest of   *)
(* the kernel, a trapframe, one entry of one page table.  So no path of    *)
(* fork, exec, sbrk or a fault, failing halfway or not, leaks a page or    *)
(* frees one that is in use, and none of the panics of kalloc.c, vm.c and  *)
(* loadseg() (a remap, a leaf left to freewalk()) is reached.              *)
PagesOwned ==
    /\ TypeOK /\ Running
    /\ NPAGE = Cardinality(mem.free) + Cardinality(other)
               + MapThenSumSet(LAMBDA p : 2 + Cardinality(Ptes(Inner(p))) + Cardinality(UserPtes(p)), Live)
    /\ Page = mem.free \cup other \cup
              UNION {{proc[p].trapframe} \cup Inner(p) \cup Children(Inner(p))
                     \cup {mem.pt[e[1]][e[2]].pa : e \in UserPtes(p)} : p \in Live}

(* A program reaches its own pages below sz, which sbrk() keeps below the  *)
(* trapframe, and nothing else: no trapframe or trampoline, and no page    *)
(* that a smaller sbrk() gave up.  Nor does it see what an earlier owner,  *)
(* or the allocator, left in a page.                                       *)
UserReach ==
    Running => \A p \in Live :
      /\ proc[p].sz <= TRAPFRAME /\ "junk" \notin Range(View(p))
      /\ \A i \in 0 .. MAXVA \div PGSIZE - 1 :
           LET va == i * PGSIZE
               e == Pte(mem, proc[p].pagetable, va)
           IN /\ "U" \in e.f => va < proc[p].sz
              /\ va = TRAPFRAME => e.f = {"V", "R", "W"}
              /\ va = TRAMPOLINE => e.f = {"V", "R", "X"}

(* What a program reads changes only by stores, sbrk() and a successful    *)
(* exec: a page fault on lazily allocated memory is invisible, a call that *)
(* fails leaves the image as it was, and no step of one process changes    *)
(* the image of another.  The child of fork() reads what its parent reads, *)
(* lazily allocated pages and the guard page included.                     *)
ImageKept ==
    [][mem' # mem => \A p \in Slot :
         LET old == View(p)
             new == View(p)'
         IN /\ Used(p) /\ proc[p]' = proc[p] =>
                 /\ \A i \in DOMAIN old : new[i] \in {old[i], "stored"}
                 /\ new # old => proc' = proc
            /\ ~Used(p) /\ Used(p)' => \E q \in Live : new = View(q)]_vars
=============================================================================
