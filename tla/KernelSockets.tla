--------------------------- MODULE KernelSockets ----------------------------
\* The sockets the kernel serves itself: the command sockets of the interface store and of the
\* block device store (userlandsock, ifstoresock, blockdevstoresock), the raw sockets on a
\* network interface (rawsock, interface) and, below them, the rings of the VirtIO card.
\* The kernel is not preempted: a call runs until it returns or waits in a cv_t.
EXTENDS Integers, Sequences, FiniteSets, Functions, SequencesExt

CONSTANTS
  Callers,     \* the threads of one process
  Commands,    \* a sequence of [name, arg, rest]: arg a name, rest whether the others parse
  Disk,        \* the name of a block device found at boot
  MaxPrefix,   \* characters of a name before its number (6 in the code)
  MaxNumber,    \* numbers a name can end in (10)
  QueueSize,   \* entries in each ring of the card
  Buffers,     \* receive buffers given to the card (20)
  IdxSpace,    \* values of an index the card shares with the driver (2^16)
  MaxCalls, MaxFrames

ASSUME KernelSocketsAssumption ==
  /\ {MaxPrefix, MaxNumber, QueueSize, Buffers, IdxSpace} \subseteq Nat \ {0}
  /\ Buffers <= QueueSize /\ IdxSpace % QueueSize = 0

VARIABLES
  objects,     \* what the process has a descriptor of, in order of creation
  call,        \* where each thread is: [at, sock, cmd, woken]
  blockdevs,   \* names in the block device store, in order
  subscribed,  \* interface -> the raw sockets it has a weak pointer to
  delivered,   \* interface -> frames given to received_frame so far
  card,        \* the rings, see CardInit
  panicked,    \* kernel_panic was called
  stored,      \* frames the card has stored: for this host, and for others
  calls,       \* counts system calls, up to MaxCalls
  arrivals     \* counts frames on the wire, up to MaxFrames

kvars == <<objects, call, blockdevs, subscribed, delivered, card, panicked, stored, calls,
           arrivals>>

-----------------------------------------------------------------------------
\* Names.

\* register_interface, register_blockdev: the first number that makes a free name, if any.
Numbered(prefix) ==
  LET short == SubSeq(prefix, 1, IF Len(prefix) > MaxPrefix THEN MaxPrefix ELSE Len(prefix))
  IN [n \in 0 .. MaxNumber - 1 |-> Append(short, n)]
RegisterName(names, prefix) ==
  LET free == {n \in 0 .. MaxNumber - 1 : Numbered(prefix)[n] \notin Range(names)}
  IN IF free = {} THEN names
     ELSE Append(names, Numbered(prefix)[CHOOSE n \in free : \A m \in free : n <= m])

Lo == <<"lo">>
IfNames == RegisterName(<<Lo>>, <<"eth">>)
Eth == IfNames[2]

-----------------------------------------------------------------------------
\* Objects. A message is a sequence of at most one [answer, fds]. `skipped' records that the
\* last writer woken for a free slot left without filling it; `since' is the number of the next
\* frame the reader of a raw socket has not seen.
Object(type, name) ==
  [type |-> type, name |-> name, open |-> TRUE, status |-> "CONNECTED", message |-> <<>>,
   read_cv |-> <<>>, write_cv |-> <<>>, skipped |-> FALSE, frames |-> <<>>, since |-> 0]
Rawsock(iface) == [Object("raw", iface) EXCEPT !.since = delivered[iface] + 1]

IsStore(i) == objects[i].type \in {"ifstore", "blockdevstore"} /\ objects[i].open
IsRaw(i) == objects[i].type = "raw" /\ objects[i].open

\* handle_command: the objects made, the answer, how many of those objects it passes on, and
\* the name registered.
Outcome(made, answer, passed) == [made |-> made, answer |-> answer, passed |-> passed,
                                  names |-> blockdevs]
Says(answer) == Outcome(<<>>, answer, 0)
Gives(made) == Outcome(made, "OK", Len(made))

IfstoreCommand(c) ==
  CASE c.name = "LIST" -> Says("list")
    [] c.name = "PSEUDOPAIR" ->
         IF c.rest THEN Gives(<<Object("reverse", <<>>), Object("pseudo", <<>>)>>)
         ELSE Outcome(<<Object("reverse", <<>>)>>, "ERROR", 0)
    [] c.name = "COPY" -> Gives(<<Object("ifstore", <<>>)>>)
    [] OTHER ->
         IF c.arg \notin Range(IfNames) THEN Says("NOIFACE")
         ELSE CASE c.name \in {"MAC", "HWTYPE"} -> Says(c.name)
                [] c.name = "RAWSOCK" -> Gives(<<Rawsock(c.arg)>>)
                [] OTHER -> Says("ERROR")

MakePartition(c) ==
  LET names == RegisterName(blockdevs, Append(c.arg, "p"))
  IN IF ~c.rest \/ names = blockdevs THEN Says("ERROR")
     ELSE [Outcome(<<Object("blockdev", Last(names))>>, "name", 1) EXCEPT !.names = names]

BlockdevstoreCommand(c) ==
  CASE c.name = "LIST" -> Says("list")
    [] c.name = "COPY" -> Gives(<<Object("blockdevstore", <<>>)>>)
    [] OTHER ->
         IF c.arg \notin Range(blockdevs) THEN Says("NODEV")
         ELSE CASE c.name = "FD" -> Gives(<<Object("blockdev", c.arg)>>)
                [] c.name = "PARTITION" -> MakePartition(c)
                [] OTHER -> Says("ERROR")

handle_command(i, c) ==
  IF objects[i].type = "ifstore" THEN IfstoreCommand(c) ELSE BlockdevstoreCommand(c)

-----------------------------------------------------------------------------
\* cv_t: wait joins the queue, notify takes its first thread out and lets it run.
NotCalling == [at |-> "idle", sock |-> 0, cmd |-> 0, woken |-> FALSE]
Waits(t, at, i, c) == call' = [call EXCEPT ![t] = [at |-> at, sock |-> i, cmd |-> c, woken |-> FALSE]]
Firsts(queues) == {Head(q) : q \in queues \ {<<>>}}
Rest(q) == IF q = <<>> THEN q ELSE Tail(q)
Woken(c, ts) == [t \in Callers |-> [c[t] EXCEPT !.woken = @ \/ t \in ts]]

\* sock_send from `while(has_message)' on, c being an index into Commands or 0, a command
\* longer than the buffer.
Send(t, i, c) ==
  LET s == objects[i] IN
  IF s.message # <<>>
  THEN /\ Waits(t, "send", i, c)
       /\ objects' = [objects EXCEPT ![i].write_cv = Append(@, t)]
       /\ UNCHANGED <<blockdevs, subscribed>>
  ELSE IF c = 0
  THEN /\ call' = [call EXCEPT ![t] = NotCalling]
       /\ objects' = [objects EXCEPT ![i].skipped = @ \/ call[t].woken]
       /\ UNCHANGED <<blockdevs, subscribed>>
  ELSE \E r \in {handle_command(i, Commands[c])} :
       LET n == Len(objects) + Len(r.made)
           fds == [k \in 1 .. r.passed |-> n - r.passed + k]
       IN /\ objects' = [objects EXCEPT ![i].message = <<[answer |-> r.answer, fds |-> fds]>>,
                                        ![i].read_cv = Rest(@)] \o r.made
          /\ call' = Woken([call EXCEPT ![t] = NotCalling], Firsts({s.read_cv}))
          /\ blockdevs' = r.names
          /\ subscribed' = [f \in DOMAIN subscribed |->
               subscribed[f] \o SelectSeq([k \in 1 .. Len(r.made) |-> Len(objects) + k],
                 LAMBDA o : r.made[o - Len(objects)].type = "raw" /\ r.made[o - Len(objects)].name = f)]

\* clear_response, as the end of thread t's sock_recv.
ClearsQuietly(t, i) ==
  /\ objects' = [objects EXCEPT ![i].message = <<>>]
  /\ call' = [call EXCEPT ![t] = NotCalling]
clear_response(t, i) ==
  /\ objects' = [objects EXCEPT ![i].message = <<>>, ![i].write_cv = Rest(@),
                                ![i].skipped = FALSE]
  /\ call' = Woken([call EXCEPT ![t] = NotCalling], Firsts({objects[i].write_cv}))

\* sock_recv of a command socket, from `while(!has_message)' on.
Recv(t, i) ==
  IF objects[i].message = <<>>
  THEN Waits(t, "recv", i, 0) /\ objects' = [objects EXCEPT ![i].read_cv = Append(@, t)]
  ELSE clear_response(t, i)

\* sock_recv of a raw socket, from `while(messages == nullptr)' on.
RawRecv(t, i) ==
  IF objects[i].frames = <<>>
  THEN Waits(t, "recv", i, 0) /\ objects' = [objects EXCEPT ![i].read_cv = Append(@, t)]
  ELSE /\ objects' = [objects EXCEPT ![i].frames = Tail(@), ![i].since = @ + 1]
       /\ call' = [call EXCEPT ![t] = NotCalling]

frame_received(o, frame) == [o EXCEPT !.frames = Append(@, frame), !.read_cv = Rest(@)]
\* interface::received_frame: expired subscriptions are dropped, the others get the frame.
received_frame(iface, frame) ==
  LET alive == SelectSeq(subscribed[iface], IsRaw) IN
  /\ subscribed' = [subscribed EXCEPT ![iface] = alive]
  /\ objects' = [i \in DOMAIN objects |->
       IF i \in Range(alive) THEN frame_received(objects[i], frame) ELSE objects[i]]
  /\ call' = Woken(call, Firsts({objects[i].read_cv : i \in Range(alive)}))
  /\ delivered' = [delivered EXCEPT ![iface] = @ + 1]

-----------------------------------------------------------------------------
\* The card. avail and used are the receive queue's rings; the indices avail_idx and used_idx
\* are shared and wrap, `last' (last_readq_used_idx) is an int of the driver and does not. seen
\* is how far the card has read the avail ring; written is last_writeq_idx.
add_buffer_to_avail(c, b) ==
  [c EXCEPT !.avail = [@ EXCEPT ![c.avail_idx % QueueSize] = b],
            !.avail_idx = (@ + 1) % IdxSpace]
\* eth_init
CardInit ==
  LET none == [avail |-> [k \in 0 .. QueueSize - 1 |-> 0], avail_idx |-> 0, seen |-> 0,
               used |-> [k \in 0 .. QueueSize - 1 |-> [id |-> 0, frame |-> 0]], used_idx |-> 0,
               last |-> 0, written |-> 0]
  IN FoldLeft(add_buffer_to_avail, none, [k \in 1 .. Buffers |-> k - 1])

\* The card puts a frame into a buffer; frame 0 is one for another host.
CardStores(frame) ==
  /\ card.seen # card.avail_idx
  /\ card' = [card EXCEPT !.seen = (@ + 1) % IdxSpace, !.used_idx = (@ + 1) % IdxSpace,
       !.used = [@ EXCEPT ![card.used_idx % QueueSize] =
                   [id |-> card.avail[card.seen % QueueSize], frame |-> frame]]]

\* Frames for other hosts are dropped.
ethernet_frame_received(frame) ==
  IF frame = 0 THEN UNCHANGED <<objects, call, subscribed, delivered>>
  ELSE received_frame(Eth, frame)

\* check_new_packets: a round of its loop. The interrupt's other rounds are further steps; what
\* other threads do between two of them they could do before the card stored the second frame.
check_new_packets ==
  /\ card.used_idx > card.last
  /\ LET u == card.used[card.last % QueueSize] IN
     /\ card' = add_buffer_to_avail([card EXCEPT !.last = @ + 1], u.id)
     /\ ethernet_frame_received(u.frame)

\* send_ethernet_frame: descriptors of the write queue are never used again.
send_ethernet_frame ==
  /\ card' = [card EXCEPT !.written = @ + 1]
  /\ panicked' = (card.written + 1 >= QueueSize)
  /\ UNCHANGED <<objects, call, subscribed, delivered>>

-----------------------------------------------------------------------------
Calls(t) == call[t].at = "idle" /\ calls < MaxCalls /\ calls' = calls + 1

StoreSend(t, i, c) ==
  /\ Calls(t) /\ IsStore(i) /\ objects[i].status = "CONNECTED"
  /\ Send(t, i, c) /\ UNCHANGED <<delivered, card, panicked, stored, arrivals>>
StoreRecv(t, i) ==
  /\ Calls(t) /\ IsStore(i)
  /\ Recv(t, i) /\ UNCHANGED <<blockdevs, subscribed, delivered, card, panicked, stored, arrivals>>
RawsockRecv(t, i) ==
  /\ Calls(t) /\ IsRaw(i)
  /\ RawRecv(t, i) /\ UNCHANGED <<blockdevs, subscribed, delivered, card, panicked, stored, arrivals>>
RawsockSend(t, i) ==
  /\ Calls(t) /\ IsRaw(i) /\ objects[i].status = "CONNECTED"
  /\ IF objects[i].name = Lo
     THEN received_frame(Lo, delivered[Lo] + 1) /\ UNCHANGED <<card, panicked>>
     ELSE send_ethernet_frame
  /\ UNCHANGED <<blockdevs, stored, arrivals>>
SockShutdown(t, i) ==
  /\ Calls(t) /\ (IsStore(i) \/ IsRaw(i))
  /\ objects' = [objects EXCEPT ![i].status = "SHUTDOWN"]
  /\ UNCHANGED <<call, blockdevs, subscribed, delivered, card, panicked, stored, arrivals>>
\* The last descriptor of a socket nobody is in a call on is closed; an interface keeps its weak
\* pointer to a raw socket.
CloseSocket(t, i) ==
  /\ Calls(t) /\ (IsStore(i) \/ IsRaw(i)) /\ \A u \in Callers : call[u].sock # i
  /\ objects' = [objects EXCEPT ![i].open = FALSE, ![i].message = <<>>, ![i].frames = <<>>]
  /\ UNCHANGED <<call, blockdevs, subscribed, delivered, card, panicked, stored, arrivals>>
\* A woken thread returns from wait() and looks again.
Continues(t) ==
  /\ call[t].woken
  /\ CASE call[t].at = "send" -> Send(t, call[t].sock, call[t].cmd)
       [] IsStore(call[t].sock) -> Recv(t, call[t].sock) /\ UNCHANGED <<blockdevs, subscribed>>
       [] OTHER -> RawRecv(t, call[t].sock) /\ UNCHANGED <<blockdevs, subscribed>>
  /\ UNCHANGED <<delivered, card, panicked, stored, calls, arrivals>>
CardReceives(whose) ==
  /\ arrivals < MaxFrames /\ arrivals' = arrivals + 1
  /\ stored' = [stored EXCEPT ![whose] = @ + 1]
  /\ CardStores(IF whose = "mine" THEN stored.mine + 1 ELSE 0)
  /\ UNCHANGED <<objects, call, blockdevs, subscribed, delivered, panicked, calls>>
HandleIrq == check_new_packets /\ UNCHANGED <<blockdevs, panicked, stored, calls, arrivals>>

\* The process starts with a socket of each store and raw sockets on the given interfaces.
KStart(raws) ==
  /\ objects = <<Object("ifstore", <<>>), Object("blockdevstore", <<>>)>>
                 \o [k \in 1 .. Len(raws) |-> [Object("raw", raws[k]) EXCEPT !.since = 1]]
  /\ call = [t \in Callers |-> NotCalling]
  /\ blockdevs = <<Disk>>
  /\ subscribed = [f \in Range(IfNames) |->
       SelectSeq([k \in 1 .. Len(raws) |-> 2 + k], LAMBDA i : raws[i - 2] = f)]
  /\ delivered = [f \in Range(IfNames) |-> 0]
  /\ card = CardInit
  /\ panicked = FALSE
  /\ stored = [mine |-> 0, other |-> 0]
  /\ calls \in 0 .. MaxCalls /\ arrivals \in 0 .. MaxFrames

KInit == KStart(<<>>)

SystemCall(t, i, cs) ==
  \/ \E c \in cs : StoreSend(t, i, c)
  \/ StoreRecv(t, i) \/ RawsockRecv(t, i) \/ RawsockSend(t, i)
  \/ SockShutdown(t, i) \/ CloseSocket(t, i)
\* The system calls are those of the threads ts on the sockets is, with the commands cs.
KSteps(ts, is, cs) ==
  /\ ~panicked
  /\ \/ \E t \in ts, i \in is : SystemCall(t, i, cs)
     \/ \E t \in Callers : Continues(t)
     \/ CardReceives("mine") \/ CardReceives("other") \/ HandleIrq
KNext == KSteps(Callers, DOMAIN objects, 0 .. Len(Commands))
KSpec == KInit /\ [][KNext]_kvars

-----------------------------------------------------------------------------
WokenIn(i, at) == {t \in Callers : call[t].at = at /\ call[t].sock = i /\ call[t].woken}

\* A message in the slot has a reader on its way if any waits for one; a free slot has a writer
\* on its way, unless the last one woken gave up because its command was too long.
SlotServed(i) ==
  LET s == objects[i] IN
  /\ s.message # <<>> /\ s.read_cv # <<>> => WokenIn(i, "recv") # {}
  /\ s.message = <<>> /\ s.write_cv # <<>> => WokenIn(i, "send") # {} \/ s.skipped

\* A raw socket holds the frames since its subscription that were not read, in order, and
\* nobody sleeps on frames that no woken reader is about to take.
FramesServed(i) ==
  LET s == objects[i] IN
  /\ s.frames = [k \in 1 .. delivered[s.name] - s.since + 1 |-> s.since + k - 1]
  /\ s.read_cv # <<>> => Len(s.frames) <= Cardinality(WokenIn(i, "recv"))

\* The positions in a ring from a up to b.
Between(a, b) == {(a + k) % QueueSize : k \in 0 .. ((b - a) % IdxSpace) - 1}

\* Each buffer is with the card or waits in the used ring, once, and an interrupt sees what the
\* card stored, until the card's index wraps.
CardConsistent ==
  LET waiting == Between(card.last, card.used_idx)
      offered == Between(card.seen, card.avail_idx)
  IN /\ Cardinality(waiting) + Cardinality(offered) = Buffers
     /\ {card.used[k].id : k \in waiting} \union {card.avail[k] : k \in offered}
          = 0 .. Buffers - 1
     /\ delivered[Eth] + Cardinality({k \in waiting : card.used[k].frame # 0}) = stored.mine
     /\ waiting # {} /\ stored.mine + stored.other < IdxSpace => card.used_idx > card.last

\* NothingForgotten: no thread sleeps in sock_recv or sock_send of a kernel socket on what it
\* could have (userlandsock.cpp, rawsock.cpp), no frame is lost, repeated or reordered between
\* the card and the raw sockets (virtio.cpp, interface.cpp), no receive buffer leaves the rings,
\* and two block devices never share a name (blockdev_store.cpp).
NothingForgotten ==
  /\ \A i \in DOMAIN objects : IsStore(i) => SlotServed(i)
  /\ \A i \in DOMAIN objects : IsRaw(i) => FramesServed(i)
  /\ CardConsistent
  /\ IsInjective(blockdevs)
=============================================================================
