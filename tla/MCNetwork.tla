----------------------------- MODULE MCNetwork ------------------------------
\* Model checking of Tcp, Networkd and KernelSockets. `part' says which of them a behaviour is
\* about; the others do not move, so that their state spaces add up instead of multiplying.
EXTENDS Networkd, Tcp, KernelSockets

VARIABLE part

\* C connects to S, and sends two segments of data.
MCISN == "C" :> <<10, 20>> @@ "S" :> <<30, 40>>
MCData == "C" :> 2 @@ "S" :> 0

\* Addresses of three bits. 7/2 is the loopback interface's, 2 a neighbour, 3 the router; the
\* peer of the socket "out", 4, is behind it.
MCAsked ==
  "out" :> [port |-> 1, peer_ip |-> 4, peer_port |-> 9] @@
  "loop" :> [port |-> 9, peer_ip |-> 7, peer_port |-> 1]
MCLoopback == [ip |-> 7, cidr_prefix |-> 2]
MCMacOf == 2 :> "neighbour" @@ 3 :> "router"
MCLeases == {[ip |-> 1, mask |-> 4, router |-> 3], [ip |-> 0, mask |-> NoMask, router |-> NoIp]}

\* Commands to both stores; one block device, "d", and one number per prefix of two characters.
MCCommand(name, arg, rest) == [name |-> name, arg |-> arg, rest |-> rest]
MCCommands == <<
  MCCommand("LIST", <<>>, TRUE), MCCommand("COPY", <<>>, TRUE),
  MCCommand("PSEUDOPAIR", <<>>, TRUE), MCCommand("PSEUDOPAIR", <<>>, FALSE),
  MCCommand("MAC", <<"lo">>, TRUE), MCCommand("RAWSOCK", <<"lo">>, TRUE),
  MCCommand("RAWSOCK", <<"eth", 0>>, TRUE), MCCommand("FD", <<"d">>, TRUE),
  MCCommand("PARTITION", <<"d">>, TRUE), MCCommand("PARTITION", <<"d">>, FALSE),
  MCCommand("PARTITION", <<"d", "p", 0>>, TRUE), MCCommand("OTHER", <<"lo">>, TRUE),
  MCCommand("OTHER", <<"d">>, TRUE)>>
MCDisk == <<"d">>

\* The kernel's sockets are checked in three ways: three threads share a command socket for six
\* calls; one thread makes three calls with any command; two threads make three calls on raw
\* sockets while the card receives four frames, which wraps its index.
KernelParts == {"slots", "commands", "frames"}
KernelThreads ==
  CASE part = "slots" -> Callers [] part = "commands" -> {"t1"} [] OTHER -> {"t1", "t2"}
KernelSocks ==
  CASE part = "slots" -> {1} [] part = "commands" -> DOMAIN objects [] OTHER -> {3, 4, 5}
KernelCommands == IF part = "slots" THEN {0, 1} ELSE 0 .. Len(Commands)
KernelInit ==
  \/ KInit /\ part = "slots" /\ calls = 0 /\ arrivals = MaxFrames
  \/ KInit /\ part = "commands" /\ calls = 3 /\ arrivals = MaxFrames
  \/ KStart(<<Lo, Eth, Eth>>) /\ part = "frames" /\ calls = 3 /\ arrivals = 0

\* What a behaviour may still do. TCP: one connection and a mishap, or a second connection to
\* a listener that takes only one. The rest: two datagrams; or one and a command; or one and
\* trouble; or a command and trouble.
TcpBudget == <<used["C"], used["S"], mishaps>>
NetBudget == <<sent, commands, trouble>>
MCInit ==
  /\ NInit /\ TInit
  /\ \/ /\ part = "tcp" /\ KInit /\ calls = 0 /\ arrivals = 0
        /\ NetBudget = <<0, 0, 0>> /\ TcpBudget \in {<<1, 1, 0>>, <<0, 1, 1>>}
     \/ /\ part = "net" /\ KInit /\ calls = 0 /\ arrivals = 0
        /\ TcpBudget = <<0, 0, 0>>
        /\ NetBudget \in {<<0, 1, 1>>, <<1, 0, 1>>, <<1, 1, 0>>, <<2, 0, 0>>}
     \/ KernelInit /\ NetBudget = <<0, 0, 0>> /\ TcpBudget = <<0, 0, 0>>
MCNext ==
  \/ part = "tcp" /\ TNext /\ UNCHANGED <<nvars, kvars, part>>
  \/ part = "net" /\ NNext /\ UNCHANGED <<tvars, kvars, part>>
  \/ /\ part \in KernelParts
     /\ KSteps(KernelThreads, KernelSocks, KernelCommands) /\ UNCHANGED <<nvars, tvars, part>>
\* NFairness and TFairness, each for its part.
MCFairness ==
  /\ WF_nvars(part = "net" /\ Interfaces) /\ WF_nvars(part = "net" /\ DhClient)
  /\ WF_nvars(part = "net" /\ OtherHosts)
  /\ WF_tvars(part = "tcp" /\ Opening) /\ WF_tvars(part = "tcp" /\ System)
MCSpec == MCInit /\ [][MCNext]_<<nvars, tvars, kvars, part>> /\ MCFairness
=============================================================================
