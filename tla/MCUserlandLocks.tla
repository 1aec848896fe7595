-------------------------- MODULE MCUserlandLocks --------------------------
(* Three threads of one process contending for a lock and a condvar.        *)
EXTENDS UserlandLocks

MCThreads == 1..3
MCNWaiters == {0, 1, 3}
=============================================================================
