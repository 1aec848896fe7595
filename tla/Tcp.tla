-------------------------------- MODULE Tcp ---------------------------------
(***************************************************************************)
(* TCP connections between two machines that both run networkd             *)
(* (userland/networkd/tcp_socket.cpp, tcp.cpp, ip_socket.cpp and the       *)
(* "tcpsock" command of client.cpp), over a link that may lose, duplicate  *)
(* and reorder frames.                                                     *)
(*                                                                         *)
(* There is one connection at a time: one pair of addresses and ports.     *)
(* Each machine runs three kinds of threads: the interface thread that     *)
(* takes frames off the link, the client thread that opens a connection,   *)
(* and the socket's own thread, which serves the application's requests on *)
(* the reverse fd and, between requests, the retransmission timer.  A step *)
(* is what happens under wc_mtx or sockets_mtx; sock_send takes no lock,   *)
(* so that it is two steps.                                                 *)
(*                                                                         *)
(* Data is counted in segments: the n-th segment of data that an           *)
(* application sends is the number n, and takes one sequence number.       *)
(***************************************************************************)
EXTENDS Link

CONSTANTS Hosts,       \* the two machines
          Connectors,  \* those whose applications open a connection
          Listeners,   \* those where somebody listens
          ISN,         \* the initial sequence numbers of a host's sockets
          SeqSpace,    \* 2^32
          MaxData,     \* how many segments of data the application on a host sends
          MaxGot,      \* bound on the data that a socket receives
          MaxMishaps   \* how often something unusual happens

Peer(h) == CHOOSE g \in Hosts : g # h

ASSUME TcpAssumption ==
  /\ Cardinality(Hosts) = 2 /\ Connectors \cup Listeners \subseteq Hosts
  /\ \A h \in Hosts : ISN[h] \in Seq(1 .. SeqSpace - 1)

VARIABLES
  sock,     \* the socket of a host, or None
  opening,  \* where its client thread is with opening a connection
  thread,   \* where the socket's thread is
  rx,       \* a frame the interface thread found a socket for that was closed, or None
  net,      \* the frames on the link, a bag
  used,     \* how many sockets a host has made
  mishaps,  \* how often a frame was lost or duplicated, a timeout was early, there was no
            \* route or no taker, or a frame met a socket that was being closed
  aborted   \* assertions a host's networkd stopped at

tvars == <<sock, opening, thread, rx, net, used, mishaps, aborted>>

----------------------------------------------------------------------------
\* Segments and sockets.

\* A segment of the connection to host `to'; data 0 is no data.
Frame(to, seq, ack, flags, data) ==
  [to |-> to, seq |-> seq, ack |-> ack, flags |-> flags, data |-> data]

\* A segment on outgoing_segments. `due' stands for ack_deadline: "now" when it is not
\* after the current time, else "later".
Outgoing(f, size) == [frame |-> f, size |-> size, due |-> "now"]

\* A new socket. armed: next_ack_deadline is not UINT64_MAX. sent, got and unordered are
\* history: the data the application sent, the data received, and whether data or a FIN was
\* received that did not have the expected number.
tcp_socket(h) ==
  [registered |-> TRUE, status |-> "CONNECTING", seq |-> ISN[h][used[h] + 1], ack |-> 0,
   unread |-> 0, out |-> <<>>, armed |-> FALSE,
   peer |-> 0, sent |-> 0, got |-> <<>>, unordered |-> FALSE]

\* The state of a handler: the socket, and the frames that went out.
Sending(s) == [s |-> s, frames |-> <<>>]

\* Pops the front of the queue while it is acknowledged.
Popped(s, n) == [s EXCEPT !.out = SubSeq(s.out, n + 1, Len(s.out))]
Acked(o, acknum) == (o.frame.seq + o.size) % SeqSpace <= acknum
received_acknum(s, acknum) ==
  Popped(s, Cardinality({i \in 1 .. Len(s.out) : \A j \in 1 .. i : Acked(s.out[j], acknum)}))

\* Sends everything that is due and sets the timer. Without a route, the first segment that
\* is due fails and the timer is cleared.
pump_segment_queue(x, up) ==
  Bind(x, LAMBDA r :
    LET IsDue(o) == o.due = "now"
        due == SelectSeq(r.s.out, IsDue)
    IN  IF ~up /\ \E i \in DOMAIN r.s.out : IsDue(r.s.out[i]) THEN [r EXCEPT !.s.armed = FALSE]
        ELSE [s |-> [r.s EXCEPT !.out = [i \in DOMAIN @ |-> [@[i] EXCEPT !.due = "later"]],
                                !.armed = r.s.out # <<>>],
              frames |-> r.frames \o Bind(due, LAMBDA d : [i \in DOMAIN d |-> d[i].frame])])

\* send_tcp_frame up to its last line. Anything but a bare ACK or RST is queued.
QueueFrame(h, r, flags, data, up) ==
  LET f == Frame(Peer(h), r.s.seq, r.s.ack, flags, data)
      size == IF data = 0 THEN 0 ELSE 1
  IN  IF data # 0 \/ flags \cap {"syn", "fin"} # {}
      THEN [r EXCEPT !.s.out = Append(@, Outgoing(f, size)),
                     !.s.seq = (@ + size) % SeqSpace]
      ELSE [r EXCEPT !.frames = IF up THEN Append(@, f) ELSE @]
send_tcp_frame(h, x, flags, data, up) ==
  pump_segment_queue(Bind(x, LAMBDA r : QueueFrame(h, r, flags, data, up)), up)

NextSeq(r) == [r EXCEPT !.s.seq = (@ + 1) % SeqSpace]
Status(r, st) == [r EXCEPT !.s.status = st]
Reject(h, r, up) == Status(send_tcp_frame(h, r, {"rst"}, 0, up), "RESET")

----------------------------------------------------------------------------
\* tcp_socket::handle_packet.

\* send_ack_num and, for the history, which socket of the peer this is.
Adopt(s, f) == [s EXCEPT !.ack = (f.seq + 1) % SeqSpace, !.peer = f.seq]

\* A mutant of HandleConnecting: the answer does not complete the connection.
HandleConnectingOnly(h, s, f, up) ==
  IF "ack" \in f.flags
  THEN send_tcp_frame(h, Sending(received_acknum(Adopt(s, f), f.ack)), {"ack"}, 0, up)
  ELSE Status(NextSeq(send_tcp_frame(h, Sending(Adopt(s, f)), {"syn", "ack"}, 0, up)), "CONNECTED")
HandleConnecting(h, s, f, up) ==
  LET syn == "syn" \in f.flags
  IN  IF syn /\ "ack" \in f.flags
      THEN IF f.ack # s.seq THEN Reject(h, Sending(s), up)
           ELSE Status(send_tcp_frame(h, Sending(received_acknum(Adopt(s, f), f.ack)),
                                      {"ack"}, 0, up), "CONNECTED")
      ELSE IF syn
      THEN Status(NextSeq(send_tcp_frame(h, Sending(Adopt(s, f)), {"syn", "ack"}, 0, up)),
                  "CONNECTED")
      ELSE IF "rst" \in f.flags THEN Status(Sending(s), "RESET")
      ELSE Reject(h, Sending(s), up)

TakeAck(r, f, up) ==
  IF "ack" \in f.flags THEN pump_segment_queue([r EXCEPT !.s = received_acknum(@, f.ack)], up)
  ELSE r
\* The data is appended whatever its number is.
TakeData(h, r, f, up) ==
  IF f.data = 0 THEN r
  ELSE send_tcp_frame(h, [r EXCEPT !.s.unread = @ + 1, !.s.ack = (@ + 1) % SeqSpace,
                                   !.s.got = Append(@, f.data)], {"ack"}, 0, up)
TakeRst(r, f) == IF "rst" \in f.flags THEN Status(r, "RESET") ELSE r
AfterFin(st) ==
  IF st = "CONNECTED" THEN "THEIRS_SHUTDOWN" ELSE IF st = "SHUTDOWN" THEN "CLOSED" ELSE st
TakeFin(h, r, f, up) ==
  IF "fin" \notin f.flags \/ "rst" \in f.flags THEN r
  ELSE send_tcp_frame(h, [r EXCEPT !.s.status = AfterFin(@), !.s.ack = (@ + 1) % SeqSpace],
                      {"ack"}, 0, up)

\* The frame takes a number, and it is not the one expected; it is only reported.
Unexpected(s, f) == f.seq # s.ack /\ (f.data # 0 \/ "fin" \in f.flags)
HandleConnected(h, s, f, up) ==
  LET r == Sending([s EXCEPT !.unordered = @ \/ Unexpected(s, f)])
  IN  Bind(TakeAck(r, f, up), LAMBDA r1 :
        Bind(TakeData(h, r1, f, up), LAMBDA r2 : TakeFin(h, TakeRst(r2, f), f, up)))

handle_packet(h, s, f, up) ==
  CASE s.status = "CONNECTING" -> HandleConnecting(h, s, f, up)
    [] s.status \in {"RESET", "CLOSED"} -> Sending(s)
    [] OTHER -> HandleConnected(h, s, f, up)

----------------------------------------------------------------------------
\* Steps.

Alive(h) == aborted[h] = {}
Mishap(b) == (b => mishaps < MaxMishaps) /\ mishaps' = IF b THEN mishaps + 1 ELSE mishaps

\* The socket is kept as long as it is in the table or the interface thread has it.
Kept(s, held) == IF s.registered \/ held THEN s ELSE None
Sent(h, result, base, held) ==
  \E r \in {result} :
    /\ sock' = [sock EXCEPT ![h] = Kept(r.s, held)]
    /\ net' = base (+) Several(r.frames)

TInit ==
  /\ sock = [h \in Hosts |-> None] /\ opening = [h \in Hosts |-> "no"]
  /\ thread = [h \in Hosts |-> "none"] /\ rx = [h \in Hosts |-> None]
  /\ net = EmptyBag /\ used \in [Hosts -> UNION {0 .. Len(ISN[h]) : h \in Hosts}]
  /\ \A h \in Hosts : used[h] <= Len(ISN[h])
  /\ mishaps \in 0 .. MaxMishaps
  /\ aborted = [h \in Hosts |-> {}]

\* client.cpp, "tcpsock": make and register a socket. If there is one in the table already, it
\* fails with EADDRINUSE and nothing changes; here, it also waits until the interface thread has
\* let go of a socket that was closed.
Register(h) ==
  /\ Alive(h) /\ h \in Connectors /\ opening[h] \in {"no", "done"} /\ used[h] < Len(ISN[h])
  /\ sock[h] = None
  /\ opening' = [opening EXCEPT ![h] = "registered"]
  /\ sock' = [sock EXCEPT ![h] = tcp_socket(h)]
  /\ used' = [used EXCEPT ![h] = @ + 1]
  /\ UNCHANGED <<thread, rx, net, mishaps, aborted>>

\* tcp_socket::establish until it waits.
Establish(h) ==
  /\ Alive(h) /\ opening[h] = "registered"
  /\ IF sock[h].status # "CONNECTING"
     THEN /\ aborted' = [aborted EXCEPT ![h] = @ \cup {"establish starts"}]
          /\ UNCHANGED <<sock, opening, net, mishaps>>
     ELSE /\ opening' = [opening EXCEPT ![h] = "waiting"]
          /\ \E up \in BOOLEAN :
               /\ Mishap(~up)
               /\ Sent(h, NextSeq(send_tcp_frame(h, Sending(sock[h]), {"syn"}, 0, up)), net, FALSE)
          /\ UNCHANGED aborted
  /\ UNCHANGED <<thread, rx, used>>

\* establish after its wait; the socket's thread starts when the connection was made. A
\* socket that was refused stays in the table.
Established(h) ==
  /\ Alive(h) /\ opening[h] = "waiting" /\ sock[h].status # "CONNECTING"
  /\ IF sock[h].status \notin {"CONNECTED", "RESET"}
     THEN /\ aborted' = [aborted EXCEPT ![h] = @ \cup {"establish ends"}]
          /\ UNCHANGED <<opening, thread>>
     ELSE /\ opening' = [opening EXCEPT ![h] = "done"]
          /\ thread' = [thread EXCEPT ![h] = IF sock[h].status = "CONNECTED" THEN "idle" ELSE @]
          /\ UNCHANGED aborted
  /\ UNCHANGED <<sock, rx, net, used, mishaps>>

----------------------------------------------------------------------------
\* The interface thread: tcp::handle_packet.

Without(f) == Less(net, f)

\* There is a socket.
HandlePacket(h, f) ==
  /\ sock[h] # None
  /\ \E up \in BOOLEAN :
       Mishap(~up) /\ Sent(h, handle_packet(h, sock[h], f, up), Without(f), FALSE)
  /\ UNCHANGED <<opening, thread, rx, used, aborted>>

send_rst(h, f) == Frame(Peer(h), 0, (f.seq + 1) % SeqSpace, {"ack", "rst"}, 0)

\* There is no socket and this is not somebody who wants to connect to a listener.
Refuse(h, f) ==
  /\ sock[h] = None
  /\ ~(f.flags = {"syn"} /\ h \in Listeners)
  /\ \E up \in BOOLEAN :
       /\ Mishap(~up)
       /\ net' = Without(f) (+) Several(IF "rst" \in f.flags \/ ~up THEN <<>> ELSE <<send_rst(h, f)>>)
  /\ UNCHANGED <<sock, opening, thread, rx, used, aborted>>

\* A connection for a listener: the socket handles the frame and starts; then it is handed to
\* the listener. If that fails the other side is told, and the descriptor is closed under the
\* thread, but the socket stays in the table.
Accept(h, f) ==
  /\ sock[h] = None /\ f.flags = {"syn"} /\ h \in Listeners /\ used[h] < Len(ISN[h])
  /\ used' = [used EXCEPT ![h] = @ + 1]
  /\ \E up, taken \in BOOLEAN :
       /\ Mishap(~up \/ ~taken)
       /\ thread' = [thread EXCEPT ![h] = IF taken THEN "idle" ELSE "ended"]
       /\ Sent(h, handle_packet(h, tcp_socket(h), f, up),
               Without(f) (+) Several(IF taken \/ ~up THEN <<>> ELSE <<send_rst(h, f)>>), FALSE)
  /\ UNCHANGED <<opening, rx, aborted>>

Receive(h, f) ==
  /\ Alive(h) /\ rx[h] = None /\ f.to = h
  /\ HandlePacket(h, f) \/ Refuse(h, f) \/ Accept(h, f)

\* The socket was found under sockets_mtx, and then closed before it got the frame.
HandleLate(h) ==
  /\ Alive(h) /\ rx[h] # None
  /\ rx' = [rx EXCEPT ![h] = None]
  /\ \E up \in BOOLEAN :
       Mishap(~up) /\ Sent(h, handle_packet(h, sock[h], rx[h], up), net, FALSE)
  /\ UNCHANGED <<opening, thread, used, aborted>>

----------------------------------------------------------------------------
\* The socket's thread: ip_socket::run.

Idle(h) == Alive(h) /\ thread[h] = "idle"
ToThread(h, p) == thread' = [thread EXCEPT ![h] = p]

\* sock_send: the status is checked, then the data is queued and sent, without wc_mtx.
SockSend(h) ==
  /\ Idle(h) /\ sock[h].status \in {"CONNECTED", "THEIRS_SHUTDOWN"} /\ sock[h].sent < MaxData[h]
  /\ ToThread(h, "sending") /\ UNCHANGED <<sock, opening, rx, net, used, mishaps, aborted>>
SendData(h) ==
  /\ Alive(h) /\ thread[h] = "sending" /\ ToThread(h, "idle")
  /\ \E up \in BOOLEAN, s \in {[sock[h] EXCEPT !.sent = @ + 1]} :
       Mishap(~up) /\ Sent(h, send_tcp_frame(h, Sending(s), {"ack"}, s.sent, up), net, FALSE)
  /\ UNCHANGED <<opening, rx, used, aborted>>

\* sock_recv: data that is there, or the end, or a wait in the socket's thread. It fails on a
\* socket that was reset.
SockRecv(h) ==
  /\ Idle(h) /\ sock[h].status # "RESET"
  /\ IF sock[h].unread > 0
     THEN /\ \E n \in 1 .. sock[h].unread : sock' = [sock EXCEPT ![h].unread = @ - n]
          /\ UNCHANGED thread
     ELSE /\ sock[h].status \in {"CONNECTED", "SHUTDOWN"}
          /\ ToThread(h, "reading") /\ UNCHANGED sock
  /\ UNCHANGED <<opening, rx, net, used, mishaps, aborted>>
ReaderWakes(h) ==
  /\ Alive(h) /\ thread[h] = "reading" /\ ToThread(h, "idle")
  /\ \/ sock[h].unread > 0 /\ \E n \in 1 .. sock[h].unread : sock' = [sock EXCEPT ![h].unread = @ - n]
     \/ /\ sock[h].unread = 0 /\ sock[h].status \notin {"CONNECTED", "SHUTDOWN"}
        /\ UNCHANGED sock
  /\ UNCHANGED <<opening, rx, net, used, mishaps, aborted>>

\* timed_out, when next_ack_deadline has passed.
TimedOut(h) ==
  /\ Idle(h) /\ sock[h].armed /\ \E i \in DOMAIN sock[h].out : sock[h].out[i].due = "now"
  /\ \E up \in BOOLEAN :
       /\ Mishap(~up)
       /\ Sent(h, pump_segment_queue(Sending(sock[h]), up), net, FALSE)
  /\ UNCHANGED <<opening, thread, rx, used, aborted>>

\* tcp_socket::close. Whatever was queued or not read is dropped first.
Closed(h, s, up) ==
  LET pending == s.unread > 0 \/ s.out # <<>>
      r == Sending([s EXCEPT !.unread = 0, !.out = <<>>])
  IN  IF s.status \in {"RESET", "CLOSED", "SHUTDOWN"} THEN r
      ELSE IF pending THEN Status(send_tcp_frame(h, r, {"fin"}, 0, up), "SHUTDOWN")
      ELSE Reject(h, r, up)
Unregistered(r) == [r EXCEPT !.s.registered = FALSE]
\* The interface thread may have found the socket for a frame just before.
Close(h) ==
  /\ Idle(h) /\ ToThread(h, "ended")
  /\ \E up \in BOOLEAN, late \in {None} \cup {f \in BagToSet(net) : f.to = h} :
       /\ Mishap(~up \/ late # None)
       /\ rx' = [rx EXCEPT ![h] = late]
       /\ Sent(h, Unregistered(Closed(h, sock[h], up)),
               IF late = None THEN net ELSE Without(late), late # None)
  /\ UNCHANGED <<opening, used, aborted>>

----------------------------------------------------------------------------
\* The link and the clock.

Lose(f) ==
  /\ Mishap(TRUE) /\ net' = Without(f)
  /\ UNCHANGED <<sock, opening, thread, rx, used, aborted>>
Duplicate(f) ==
  /\ Mishap(TRUE) /\ net' = net (+) SetToBag({f})
  /\ UNCHANGED <<sock, opening, thread, rx, used, aborted>>

\* An acknowledgement deadline passes. It takes 5 seconds, so that normally nothing is on its
\* way any more; it is a mishap when the answer is only late.
Quiet == net = EmptyBag /\ \A h \in Hosts : rx[h] = None
Expire(h, i) ==
  /\ sock[h] # None /\ i \in DOMAIN sock[h].out /\ sock[h].out[i].due = "later"
  /\ Mishap(~Quiet)
  /\ sock[h].out[i].size > 0 /\ sock[Peer(h)] # None => Len(sock[Peer(h)].got) < MaxGot
  /\ sock' = [sock EXCEPT ![h].out[i].due = "now"]
  /\ UNCHANGED <<opening, thread, rx, net, used, aborted>>

Link == \E f \in BagToSet(net) : Lose(f) \/ Duplicate(f)
Clock == \E h \in Hosts : \E i \in 1 .. (IF sock[h] = None THEN 0 ELSE Len(sock[h].out)) : Expire(h, i)
ReceiveAny(h) == \E f \in BagToSet(net) : Receive(h, f)

\* What networkd's threads and the clock do by themselves; the rest is up to the applications
\* and to chance.
Opening == \E h \in Hosts : Establish(h) \/ Established(h)
System ==
  \/ \E h \in Hosts :
       \/ ReceiveAny(h) \/ HandleLate(h)
       \/ SendData(h) \/ ReaderWakes(h) \/ TimedOut(h)
  \/ Clock
Application == \E h \in Hosts : Register(h) \/ SockSend(h) \/ SockRecv(h) \/ Close(h)

TNext == Opening \/ System \/ Application \/ Link

\* A client thread that can run does, and the rest of the system does not stand still as long
\* as a thread can run, a frame can arrive or a deadline can pass.
TFairness == WF_tvars(Opening) /\ WF_tvars(System)

TSpec == TInit /\ [][TNext]_tvars /\ TFairness

----------------------------------------------------------------------------
\* Properties.

Has(h) == sock[h] # None /\ sock[h].status # "CONNECTING"
\* The numbers of the data that h still has to get through to its peer.
Queued(h) == {sock[h].out[i].frame.data : i \in DOMAIN sock[h].out} \ {0}
MyISN(h) == ISN[h][used[h]]
\* The two sockets are ends of the same connection.
Paired(h) == Has(h) /\ Has(Peer(h)) /\ sock[Peer(h)].peer = MyISN(h) /\ sock[h].peer = MyISN(Peer(h))


\* Something ends the service of h's queue: an end is closed, reset or gone, the socket's own
\* thread sits in a blocking read or is not there, or a failed send cleared the timer.
Unserved(h) ==
  \/ \E g \in Hosts : ~Alive(g) \/ sock[g] = None \/ ~sock[g].registered
                     \/ sock[g].status \notin {"CONNECTED", "THEIRS_SHUTDOWN"}
  \/ thread[h] # "idle" \/ ~sock[h].armed


\* When nothing goes wrong on the link, opening a connection comes to an end: establish, which
\* waits without a timeout, sees the SYN|ACK or the RST of the other end.
EstablishReturns ==
  \A h \in Connectors : opening[h] = "waiting" ~> (opening[h] = "done" \/ ~Alive(h) \/ mishaps > 0)
=============================================================================
