---------------------------- MODULE MCScheduler ----------------------------
\* One thread in init, two in another process, one signaler besides the
\* processes' own.
EXTENDS Scheduler, TLC

CONSTANTS i1, a, b, P1, P2

MCThreads == {i1, a, b}
MCProcess == (i1 :> P1) @@ (a :> P2) @@ (b :> P2)
=============================================================================
