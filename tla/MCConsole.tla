----------------------------- MODULE MCConsole -----------------------------
(* A reader of edited lines; two readers; two writers, a printf() and echo. *)
EXTENDS Console, TLC

CONSTANTS r1, r2, w1, w2, k1

MCReaders == {r1, r2}
MCWriters == {w1, w2}
Load(nr1, nr2, nw1, nw2, nk1, typed, k) ==
    [calls |-> r1 :> nr1 @@ r2 :> nr2 @@ w1 :> nw1 @@ w2 :> nw2 @@ k1 :> nk1 @@ Keyboard :> typed,
     keys |-> k]
MCLoads == {Load(2, 0, 0, 0, 0, 4, {"a", "\r", "^D", "^H"}),
            Load(1, 1, 0, 0, 0, 2, {"a", "\n", "^U"}),
            Load(0, 0, 1, 1, 1, 1, {"^P", "nul"})}
=============================================================================
