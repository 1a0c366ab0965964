----------------------------- MODULE MCThreads ------------------------------
EXTENDS Threads

Do(op) == [do |-> op]
DoOn(op, x) == [do |-> op, on |-> x]
Ops(main, t1, t2, x) ==
    [t \in Names |-> CASE t = "main" -> main [] t = "t1" -> t1 [] t = "t2" -> t2 [] t = "x" -> x]
P(ops, raises, fails, s, n) == [ops |-> ops, raises |-> raises, fails |-> fails, signals |-> s, ticks |-> n]
Channel == DoOn("channel", "c1")
Foreign == <<Do("register"), Do("register"), Do("callback"), Do("unregister"), Do("unregister")>>

\* Contention for a channel whose calls fail, with a handler that raises.
Contention == P(Ops(<<DoOn("create", "t1"), Channel, DoOn("join", "t1")>>, <<Channel>>, <<>>, <<>>), TRUE, TRUE, 1, 1)
Condition == P(Ops(<<DoOn("lock", "m"), DoOn("create", "t1"), [do |-> "wait", on |-> "cv", with |-> "m"],
                     DoOn("unlock", "m"), DoOn("join", "t1"), Do("cleanup")>>,
                   <<DoOn("lock", "m"), DoOn("signal", "cv"), DoOn("unlock", "m")>>, <<>>, <<>>), FALSE, FALSE, 1, 1)
Yields == P(Ops(<<DoOn("create", "t1"), DoOn("create", "t2"), Do("yield"), DoOn("join", "t1"), DoOn("join", "t2")>>,
                <<Do("yield")>>, <<Do("block")>>, <<>>), FALSE, FALSE, 0, 1)
Fork == P(Ops(<<DoOn("create", "t1"), Do("fork"), DoOn("create", "t2"), Do("yield"), DoOn("join", "t2")>>,
              <<Channel, Do("yield")>>, <<Channel>>, <<>>), FALSE, FALSE, 0, 1)
FromCode == P(Ops(<<DoOn("create", "t1"), Do("exit")>>, <<Do("yield")>>, <<>>, Foreign), FALSE, FALSE, 0, 1)
Masks == P(Ops(<<DoOn("sigmask", {"SIGINT"}), DoOn("create", "t1"), DoOn("sigmask", {}), DoOn("broadcast", "cv")>>,
               <<Do("block")>>, <<>>, <<>>), FALSE, FALSE, 1, 1)
MCPrograms == {Contention, Condition, Yields, Fork, FromCode, Masks}
=============================================================================
