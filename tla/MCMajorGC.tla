----------------------------- MODULE MCMajorGC -----------------------------
(* Heaps of two or three blocks and the programs that use them; a gray cache  *)
(* of one or two entries.                                                     *)
EXTENDS MajorGC

Plain == [tag |-> <<"scan", "scan">>, size |-> <<1, 1>>, slots |-> {1, 2}, gray |-> <<1, 2>>,
          ops |-> {"alloc", "load", "modify"}]
Final == [tag |-> <<"scan", "scan">>, size |-> <<1, 1>>, slots |-> {1}, gray |-> <<1, 1>>,
          ops |-> {"alloc", "load", "modify", "finalise"}]
Ephes == [tag |-> <<"noscan", "ephe", "scan">>, size |-> <<1, 2, 1>>, slots |-> {1, 2}, gray |-> <<2, 2>>,
          ops |-> {"alloc", "load", "ephe", "setkey", "setdata", "getkey"}]
Weak  == [tag |-> <<"noscan", "ephe">>, size |-> <<1, 2>>, slots |-> {1, 2}, gray |-> <<1, 2>>,
          ops |-> {"alloc", "ephe", "setkey", "setdata", "getkey", "getdata"}]
Blits == [tag |-> <<"ephe", "ephe">>, size |-> <<2, 2>>, slots |-> {1, 2}, gray |-> <<2, 2>>,
          ops |-> {"alloc", "ephe", "setkey", "setdata", "blit"}]
Lazy  == [tag |-> <<"noscan", "fwd", "scan">>, size |-> <<1, 1, 1>>, slots |-> {1}, gray |-> <<2, 2>>,
          ops |-> {"alloc", "load", "modify"}]
WeakLazy == [tag |-> <<"noscan", "fwd", "ephe">>, size |-> <<1, 1, 2>>, slots |-> {1}, gray |-> <<2, 2>>,
          ops |-> {"alloc", "drop", "load", "ephe", "setkey"}]

MCPrograms == {Plain, Final, Ephes, Weak, Blits, Lazy, WeakLazy}

KeyPrograms == {[Ephes EXCEPT !.ops = {"alloc", "load", "modify", "ephe", "setkey", "setdata"}]}
=============================================================================
