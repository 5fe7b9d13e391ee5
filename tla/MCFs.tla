---------------------------------- MODULE MCFs ----------------------------------
(* Two disks with a directory and a file, or a directory in a directory. *)
EXTENDS Fs

D(type, nlink, size, b0) == [NoInode EXCEPT !.type = type, !.nlink = nlink, !.size = size, !.addrs[0] = b0]
Pair(a, b) == [i \in 0 .. BSIZE - 1 |-> IF i = 0 THEN a ELSE IF i = 1 THEN b ELSE Zero]

(* /a (a directory) and /f; the second process is in / *)
Flat == [din |-> [n \in Inum |-> CASE n = 1 -> [D("DIR", 2, 4, 1) EXCEPT !.addrs[1] = 2]
                                   [] n = 2 -> D("DIR", 1, 2, 4)
                                   [] n = 3 -> D("FILE", 1, 1, 5)
                                   [] OTHER -> NoInode],
         used |-> 1 .. 5,
         blk |-> [b \in Block |-> CASE b = 1 -> Pair(<<".", 1>>, <<"..", 1>>)
                                    [] b = 2 -> Pair(<<"", 3>>, Zero)
                                    [] b = 3 -> Pair(<<"a", 2>>, <<"f", 3>>)
                                    [] b = 4 -> Pair(<<".", 2>>, <<"..", 1>>)
                                    [] b = 5 -> Pair(<<"d", 0>>, Zero)
                                    [] OTHER -> Zeros],
         cwd |-> 1]

(* /a and /a/b; the second process is in /a/b *)
Deep == [din |-> [n \in Inum |-> CASE n = 1 -> [D("DIR", 2, 3, 1) EXCEPT !.addrs[1] = 2]
                                   [] n = 2 -> [D("DIR", 2, 3, 4) EXCEPT !.addrs[1] = 5]
                                   [] n = 3 -> D("DIR", 1, 2, 7)
                                   [] OTHER -> NoInode],
         used |-> 1 .. 7,
         blk |-> [b \in Block |-> CASE b = 1 -> Pair(<<".", 1>>, <<"..", 1>>)
                                    [] b = 2 -> Pair(<<"", 3>>, Zero)
                                    [] b = 3 -> Pair(<<"a", 2>>, Zero)
                                    [] b = 4 -> Pair(<<".", 2>>, <<"..", 1>>)
                                    [] b = 5 -> Pair(<<"", 6>>, Zero)
                                    [] b = 6 -> Pair(<<"b", 3>>, Zero)
                                    [] b = 7 -> Pair(<<".", 3>>, <<"..", 2>>)
                                    [] OTHER -> Zeros],
         cwd |-> 3]

C(op, path) == [NoCall EXCEPT !.op = op, !.abs = TRUE, !.path = path]
Rel(c) == [c EXCEPT !.abs = FALSE]
OnFd(op, n, have) == [NoCall EXCEPT !.op = op, !.fd = 1, !.n = n, !.have = have]
Open(path, mode) == [C("open", path) EXCEPT !.mode = mode]

(* Programs that make and remove names, that use files, and that use       *)
(* directories others remove.                                              *)
Names == {C("unlink", <<"f">>), C("unlink", <<"a", "g">>), C("mkdir", <<"a", "g">>), [C("mknod", <<"a", "g">>) EXCEPT !.n = 1],
          [C("link", <<"f">>) EXCEPT !.new = <<"a", "g">>], [C("link", <<"f">>) EXCEPT !.new = <<"f", "g">>]}
Files == {Open(<<"f">>, {"RDWR"}), Open(<<"f">>, {"WRONLY", "CREATE", "TRUNC"}), C("unlink", <<"f">>),
          OnFd("write", 3, 3), OnFd("write", 4, 3), OnFd("read", 1, 1), OnFd("close", 0, 0), OnFd("dup", 0, 0),
          OnFd("pipe", 0, 0), OnFd("fork", 0, 0), OnFd("exit", 0, 0)}
Dirs == {C("unlink", <<"a">>), C("unlink", <<"a", "b">>), C("chdir", <<"a">>), Rel(C("chdir", <<"..">>)), Rel(C("unlink", <<".">>)),
         Open(<<"a">>, {}), Rel(Open(<<"g">>, {"CREATE"})), C("mkdir", <<"a", "g">>)}

With(im, cs) == [x \in DOMAIN im \cup {"calls"} |-> IF x = "calls" THEN cs ELSE im[x]]
MCImage == {With(Flat, Names), With(Flat, Files), With(Deep, Dirs)}
=============================================================================
