----------------------------- MODULE MCUnixSock -----------------------------
(***************************************************************************)
(* Instances of UnixSock: two threads, a buffer of three bytes.            *)
(***************************************************************************)
EXTENDS UnixSock, TLC

\* Buffers that hold every datagram; stream reads that stop inside messages.
MCRecvLens == [dgram |-> {MAX_SIZE_BUFFERS}, stream |-> {1, 2}]

ThreadSymmetry == Permutations(Threads)

NoFlags == {{}}
Waitall == {{}, {"waitall"}}
=============================================================================
