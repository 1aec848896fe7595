------------------------------ MODULE UnixSock ------------------------------
(***************************************************************************)
(* A pair of connected unix sockets (fd/unixsock.cpp, made by              *)
(* syscall_fd_create2).  Calls run in the kernel without preemption and    *)
(* are one step each, except sock_recv, which may wait on                  *)
(* recv_messages_cv and then starts over.  Threads are named only where    *)
(* they can wait: in sock_recv, or in a poll subscribed to recv_signaler   *)
(* or send_signaler.  A call that returns an error without changing        *)
(* anything is a stuttering step.                                          *)
(*                                                                         *)
(* A message is its size, the bytes of it already read from a stream, and  *)
(* the number of file descriptors attached to it.  A socket is not closed  *)
(* while a thread is inside sock_recv on it.                               *)
(***************************************************************************)
EXTENDS Naturals, Sequences, FiniteSets, FiniteSetsExt, LinkedList

CONSTANTS Threads,          \* threads that receive and poll
          MAX_SIZE_BUFFERS, \* the bytes a socket buffers
          SIZE_T,           \* size_t counts modulo this
          Senders,          \* the sockets that are written to
          SendLens,         \* the sizes of sent messages
          SendFds,          \* the numbers of descriptors sent with a message
          RecvLens,         \* per type, the sizes of receive buffers
          RecvFlags,        \* the sets of flags given to sock_recv
          MaxMessages       \* bound on the messages in a socket

Types == {"dgram", "stream"}

ASSUME UnixSockAssumption ==
  /\ MAX_SIZE_BUFFERS \in Nat \ {0} /\ SIZE_T \in Nat /\ MAX_SIZE_BUFFERS < SIZE_T
  /\ Senders \subseteq {1, 2} /\ SendLens \subseteq Nat /\ SendFds \subseteq Nat
  /\ RecvLens \in [Types -> SUBSET Nat]
  /\ RecvFlags \subseteq SUBSET {"waitall", "peek"}

Socks == {1, 2}

Directions == (SUBSET {"RD", "WR"}) \ {{}}

VARIABLES
  type,             \* the type of both sockets
  alive,            \* the sockets that were not destroyed
  status,           \* "CONNECTED" or "SHUTDOWN"
  recv_messages,    \* the messages queued in each socket
  num_recv_bytes,   \* the count of their bytes
  recv_messages_cv, \* the threads waiting in sock_recv
  recv_signaler,    \* the threads polling until each socket is readable
  send_signaler,    \* the threads polling until each socket is writeable
  call,             \* the arguments of each thread's sock_recv
  failed            \* assertions that were hit; the kernel then halts

polls == <<recv_signaler, send_signaler>>
vars == <<type, alive, status, recv_messages, num_recv_bytes, recv_messages_cv,
          polls, call, failed>>

Message == [size : Nat, stream_data_recv : Nat, fds : Nat]

NoCall == [sock |-> 0]

Call == {NoCall} \cup
        [sock : Socks, len : UNION {RecvLens[k] : k \in Types}, flags : RecvFlags]

Init ==
  /\ type \in Types
  /\ alive = Socks
  /\ status = [s \in Socks |-> "CONNECTED"]
  /\ recv_messages = [s \in Socks |-> <<>>]
  /\ num_recv_bytes = [s \in Socks |-> 0]
  /\ recv_messages_cv = [s \in Socks |-> <<>>]
  /\ recv_signaler = [s \in Socks |-> {}]
  /\ send_signaler = [s \in Socks |-> {}]
  /\ call = [t \in Threads |-> NoCall]
  /\ failed = {}

othersock(s) == 3 - s

Check(name, ok) == failed' = IF ok THEN failed ELSE failed \cup {name}

polling(t) == \E s \in Socks : t \in recv_signaler[s] \cup send_signaler[s]

idle(t) == call[t] = NoCall /\ ~polling(t)

remaining(m) == m.size - m.stream_data_recv

bytes_in(q) == MapThenSumSet(LAMBDA k : remaining(q[k]), 1..Len(q))

is_shutdown(s) == othersock(s) \notin alive \/ status[othersock(s)] = "SHUTDOWN"

is_readable(s) == recv_messages[s] # <<>> \/ is_shutdown(s)

\* For a connected socket whose othersock exists.
is_writeable(s) == num_recv_bytes[othersock(s)] # MAX_SIZE_BUFFERS

----------------------------------------------------------------------------
(***************************************************************************)
(* sock_recv.  stream_read(q, len) is what a stream read of len bytes      *)
(* takes: it stops before the first message, other than the first of all,  *)
(* that has descriptors; it consumes the messages it reads to their end    *)
(* (empty ones on its way included), and may leave the next one partly     *)
(* read.  Descriptors go with the message that was read.                   *)
(***************************************************************************)
stream_read_PastFds(q, len) ==
  LET before(k) == bytes_in(SubSeq(q, 1, k - 1))
      visited   == {k \in 1..Len(q) : before(k) < len}
      consumed  == {k \in visited : before(k + 1) <= len}
      partly    == visited \ consumed
  IN  [total |-> IF before(Len(q) + 1) < len THEN before(Len(q) + 1) ELSE len,
       rest  |-> [k \in 1..(Len(q) - Cardinality(consumed)) |->
                    LET j == k + Cardinality(consumed)
                    IN  IF j \in partly
                        THEN [q[j] EXCEPT !.stream_data_recv = @ + (len - before(j))]
                        ELSE q[j]]]

stream_read(q, len) ==
  LET before(k) == bytes_in(SubSeq(q, 1, k - 1))
      visited   == {k \in 1..Len(q) : /\ before(k) < len
                                      /\ \A j \in 2..k : q[j].fds = 0}
      consumed  == {k \in visited : before(k + 1) <= len}
      partly    == visited \ consumed
      stop      == before(Cardinality(visited) + 1)
  IN  [total |-> IF stop < len THEN stop ELSE len,
       rest  |-> [k \in 1..(Len(q) - Cardinality(consumed)) |->
                    LET j == k + Cardinality(consumed)
                    IN  IF j \in partly
                        THEN [q[j] EXCEPT !.stream_data_recv = @ + (len - before(j)),
                                          !.fds = 0]
                        ELSE q[j]]]

\* A datagram read takes the first message, and cuts off what does not fit.
dgram_read(q, len) ==
  [total |-> IF q[1].size < len THEN q[1].size ELSE len, rest |-> Tail(q)]

enough(s, len, flags) ==
  IF type = "stream" /\ "waitall" \in flags
  THEN bytes_in(recv_messages[s]) >= len
  ELSE recv_messages[s] # <<>>

\* num_recv_bytes is decreased for a peek as well; the threads that are woken are
\* those that poll to write to this socket, not to the other one.
take(s, len, flags) ==
  LET q == recv_messages[s]
      r == IF type = "dgram" THEN dgram_read(q, len) ELSE stream_read(q, len)
      peek == "peek" \in flags
  IN  /\ recv_messages' = [recv_messages EXCEPT ![s] = IF peek THEN @ ELSE r.rest]
      /\ num_recv_bytes' = [num_recv_bytes EXCEPT ![s] = (@ + SIZE_T - r.total) % SIZE_T]
      /\ send_signaler' = [send_signaler EXCEPT
           ![s] = IF peek \/ (type = "stream" /\ r.total = 0) THEN @ ELSE {}]

recv_done(t) == call' = [call EXCEPT ![t] = NoCall]

\* One turn of sock_recv's loop, and what follows it.
sock_recv(t, s, len, flags) ==
  /\ \/ /\ enough(s, len, flags)
        /\ Check("recv_messages", recv_messages[s] # <<>>)
        /\ IF recv_messages[s] # <<>>
           THEN take(s, len, flags) /\ recv_done(t)
           ELSE UNCHANGED <<recv_messages, num_recv_bytes, send_signaler, call>>
        /\ UNCHANGED recv_messages_cv
     \/ /\ ~enough(s, len, flags)
        /\ is_shutdown(s)
        /\ recv_done(t)
        /\ UNCHANGED <<recv_messages, num_recv_bytes, recv_messages_cv, send_signaler, failed>>
     \/ /\ ~enough(s, len, flags)
        /\ ~is_shutdown(s)
        /\ recv_messages_cv' = [recv_messages_cv EXCEPT ![s] = Append(@, t)]
        /\ call' = [call EXCEPT ![t] = [sock |-> s, len |-> len, flags |-> flags]]
        /\ UNCHANGED <<recv_messages, num_recv_bytes, send_signaler, failed>>
  /\ UNCHANGED <<type, alive, status, recv_signaler>>

Recv(t) ==
  /\ idle(t)
  /\ \E s \in alive, len \in RecvLens[type], flags \in RecvFlags :
       sock_recv(t, s, len, flags)

\* The thread was woken from recv_messages_cv.
RecvAgain(t) ==
  /\ call[t] # NoCall
  /\ t \notin Range(recv_messages_cv[call[t].sock])
  /\ sock_recv(t, call[t].sock, call[t].len, call[t].flags)

----------------------------------------------------------------------------
(***************************************************************************)
(* sock_send.  A message that does not fit is cut to the space that is     *)
(* left.  One thread in sock_recv and all pollers of the other socket are  *)
(* woken.                                                                  *)
(***************************************************************************)
append_message(o, n, k) ==
  LET space == MAX_SIZE_BUFFERS - num_recv_bytes[o]
      size  == IF n > space THEN space ELSE n
  IN  /\ recv_messages' = [recv_messages EXCEPT ![o] =
           Append(@, [size |-> size, stream_data_recv |-> 0, fds |-> k])]
      /\ num_recv_bytes' = [num_recv_bytes EXCEPT ![o] = @ + size]
      /\ Check("num_recv_bytes", num_recv_bytes[o] + size <= MAX_SIZE_BUFFERS)


wake_receiver(o) ==
  recv_messages_cv' = [recv_messages_cv EXCEPT ![o] = IF @ = <<>> THEN @ ELSE Tail(@)]

deliver(o, n, k) ==
  /\ append_message(o, n, k)
  /\ recv_signaler' = [recv_signaler EXCEPT ![o] = {}]
  /\ wake_receiver(o)

sock_send_AfterShutdown(s, n, k) ==
  LET o == othersock(s)
  IN  /\ o \in alive
      /\ is_writeable(s)
      /\ deliver(o, n, k)
      /\ UNCHANGED <<type, alive, status, send_signaler, call>>

sock_send(s, n, k) ==
  LET o == othersock(s)
  IN  /\ status[s] = "CONNECTED"
      /\ IF o \notin alive
         THEN /\ Check("othersock", FALSE)
              /\ UNCHANGED <<recv_messages, num_recv_bytes, recv_messages_cv, recv_signaler>>
         ELSE IF num_recv_bytes[o] > MAX_SIZE_BUFFERS
         THEN /\ Check("num_recv_bytes", FALSE)
              /\ UNCHANGED <<recv_messages, num_recv_bytes, recv_messages_cv, recv_signaler>>
         ELSE /\ is_writeable(s)
              /\ deliver(o, n, k)
      /\ UNCHANGED <<type, alive, status, send_signaler, call>>

Send(s) ==
  /\ s \in alive \cap Senders
  /\ Len(recv_messages[othersock(s)]) < MaxMessages
  /\ \E n \in SendLens, k \in SendFds : sock_send(s, n, k)

----------------------------------------------------------------------------
(***************************************************************************)
(* sock_shutdown and the destructor.  Shutting down the reading side shuts *)
(* down the writing side of the other socket.  Threads in sock_recv on the *)
(* other side of a socket that no longer writes are woken.                 *)
(***************************************************************************)
sock_shutdown_NoBroadcast(s, how) ==
  LET o == othersock(s)
      writers == (IF "WR" \in how THEN {s} ELSE {})
                   \cup (IF "RD" \in how /\ status[o] = "CONNECTED" THEN {o} \cap alive ELSE {})
  IN  IF status[s] # "CONNECTED" THEN UNCHANGED <<status, recv_messages_cv>>
      ELSE /\ status' = [w \in Socks |-> IF w \in writers THEN "SHUTDOWN" ELSE status[w]]
           /\ recv_messages_cv' = [r \in Socks |->
                IF r = o /\ s \in writers THEN <<>> ELSE recv_messages_cv[r]]

sock_shutdown(s, how) ==
  LET o == othersock(s)
      writers == (IF "WR" \in how THEN {s} ELSE {})
                   \cup (IF "RD" \in how /\ status[o] = "CONNECTED" THEN {o} \cap alive ELSE {})
  IN  IF status[s] # "CONNECTED" THEN UNCHANGED <<status, recv_messages_cv>>
      ELSE /\ status' = [w \in Socks |-> IF w \in writers THEN "SHUTDOWN" ELSE status[w]]
           /\ recv_messages_cv' = [r \in Socks |->
                IF othersock(r) \in writers THEN <<>> ELSE recv_messages_cv[r]]

Shutdown(s) ==
  /\ s \in alive
  /\ \E how \in Directions : sock_shutdown(s, how)
  /\ UNCHANGED <<type, alive, recv_messages, num_recv_bytes, polls, call, failed>>

\* The last reference to the socket goes.  Threads polling it are left alone.
Close(s) ==
  /\ s \in alive
  /\ \A t \in Threads : call[t].sock # s
  /\ sock_shutdown(s, {"RD", "WR"})
  /\ alive' = alive \ {s}
  /\ recv_messages' = [recv_messages EXCEPT ![s] = <<>>]
  /\ num_recv_bytes' = [num_recv_bytes EXCEPT ![s] = 0]
  /\ UNCHANGED <<type, polls, call, failed>>

----------------------------------------------------------------------------
(***************************************************************************)
(* syscall_poll with one subscription: it returns at once if the socket is *)
(* readable or writeable already, and subscribes otherwise.                *)
(***************************************************************************)
PollRead(t) ==
  /\ idle(t)
  /\ \E s \in alive :
       /\ ~is_readable(s)
       /\ recv_signaler' = [recv_signaler EXCEPT ![s] = @ \cup {t}]
  /\ UNCHANGED <<type, alive, status, recv_messages, num_recv_bytes, recv_messages_cv,
                 send_signaler, call, failed>>

PollWrite(t) ==
  /\ idle(t)
  /\ \E s \in alive :
       /\ status[s] = "CONNECTED"
       /\ LET o == othersock(s)
              sound == o \in alive /\ num_recv_bytes[o] <= MAX_SIZE_BUFFERS
          IN  /\ Check(IF o \in alive THEN "num_recv_bytes" ELSE "othersock", sound)
              /\ sound => ~is_writeable(s)
              /\ send_signaler' = IF sound THEN [send_signaler EXCEPT ![s] = @ \cup {t}]
                                  ELSE send_signaler
  /\ UNCHANGED <<type, alive, status, recv_messages, num_recv_bytes, recv_messages_cv,
                 recv_signaler, call>>

Next ==
  /\ failed = {}
  /\ \/ \E t \in Threads : Recv(t) \/ RecvAgain(t) \/ PollRead(t) \/ PollWrite(t)
     \/ \E s \in Socks : Send(s) \/ Shutdown(s) \/ Close(s)

Spec == Init /\ [][Next]_vars

----------------------------------------------------------------------------
(***************************************************************************)
(* Properties.                                                             *)
(***************************************************************************)

\* Types; the queued messages never outgrow the buffer (the asserts of is_writeable
\* and sock_send), and a waiting thread waits once, in the call it made.
TypeOK ==
  /\ type \in Types /\ alive \subseteq Socks
  /\ status \in [Socks -> {"CONNECTED", "SHUTDOWN"}]
  /\ recv_messages \in [Socks -> Seq(Message)]
  /\ num_recv_bytes \in [Socks -> 0..(SIZE_T - 1)]
  /\ recv_signaler \in [Socks -> SUBSET Threads]
  /\ send_signaler \in [Socks -> SUBSET Threads]
  /\ call \in [Threads -> Call]
  /\ failed \subseteq {"othersock", "num_recv_bytes", "recv_messages"}
  /\ \A s \in Socks, t \in Threads :
       t \in Range(recv_messages_cv[s]) =>
         call[t].sock = s /\ ~polling(t) /\ AtMostOne(recv_messages_cv[s], t)

\* Without peeks and truncated datagrams, num_recv_bytes counts exactly the unread
\* bytes of the queued messages, however reads split and merge them: sock_recv and
\* sock_send keep the count that decides what is writeable.
BytesAccounted ==
  \A s \in alive : num_recv_bytes[s] = bytes_in(recv_messages[s])

\* Descriptors are a read boundary: a message of which bytes were read has handed
\* over its descriptors, so they can neither be delivered late nor twice.
FdsGoWithTheFirstByte ==
  \A s \in Socks : \A k \in DOMAIN recv_messages[s] :
    LET m == recv_messages[s][k]
    IN  m.stream_data_recv > 0 => k = 1 /\ m.fds = 0

\* The notify of sock_send is not lost: while threads wait in sock_recv on a datagram
\* socket, every queued message has a woken thread on its way to take it.
MessagesHaveAReceiver ==
  \A s \in alive :
    type = "dgram" /\ recv_messages_cv[s] # <<>> =>
      Len(recv_messages[s]) <=
        Cardinality({t \in Threads : call[t].sock = s /\ t \notin Range(recv_messages_cv[s])})

\* Nobody waits in sock_recv for a peer that cannot send: every way in which the other
\* socket is shut down or destroyed wakes the receivers, who then return EOF.
EofReachesReceivers ==
  \A s \in alive : is_shutdown(s) => recv_messages_cv[s] = <<>>

\* Threads that poll to read are woken by the message that makes the socket readable.
DataWakesPollers ==
  \A s \in alive : recv_signaler[s] # {} => recv_messages[s] = <<>>

\* Apart from assert(other), no assertion of the socket code is hit.
OtherAssertsHold == failed \subseteq {"othersock"}

\* The receive queue of a socket stays consistent however sends, partial reads, shutdowns and
\* destruction interleave: the byte count that decides what is writeable is exact, descriptors
\* are handed over with the first byte, and no assertion but assert(other) is hit.
QueueConsistent == TypeOK /\ BytesAccounted /\ FdsGoWithTheFirstByte /\ OtherAssertsHold


\* EOF is final: once a socket has nothing to read and its peer is shut down or gone,
\* no sock_recv on it returns data again.
EofIsFinal ==
  [][\A s \in alive \cap alive' :
       is_shutdown(s) /\ recv_messages[s] = <<>> =>
         is_shutdown(s)' /\ recv_messages'[s] = <<>>]_vars

\* The assert(other) of sock_send and is_writeable (lines 399 and 76): a connected
\* socket that sends or polls to write still has its peer.
OthersockAssertHolds == "othersock" \notin failed
=============================================================================
