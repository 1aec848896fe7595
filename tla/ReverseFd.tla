----------------------------- MODULE ReverseFd -----------------------------
(***************************************************************************)
(* A reverse fd and the pseudo fds on it (fd/reverse_fd.cpp, the requests  *)
(* of fd/pseudo_fd.cpp), with a server that handles the requests in        *)
(* userland (userland/libpseudofd/reversefd.cpp) and another thread of the *)
(* server that reports that a pseudo fd became readable                    *)
(* (userland/networkd/ip_socket.cpp).                                      *)
(*                                                                         *)
(* In the kernel, send_request runs without preemption between its waits   *)
(* on request_done_cv and response_arrived_cv.  The server's writes are    *)
(* separate steps: a response is a header and perhaps a body, and every    *)
(* write makes the kernel run have_bytes_received.  A response does not    *)
(* say which request it answers; the field "to" of a header records it for *)
(* the properties only.                                                    *)
(***************************************************************************)
EXTENDS Naturals, Sequences, FiniteSets, LinkedList

CONSTANTS Threads,  \* threads that call the pseudo fds
          Pseudos,  \* the pseudo fds of the reverse fd
          None,     \* no thread, no value
          Failures, \* what may fail: "close" (the server), "kill" (a caller)
          MaxQueue  \* bound on the gratituous messages behind a response

ASSUME ReverseFdAssumption ==
  /\ None \notin Threads \cup Pseudos \cup BOOLEAN
  /\ Failures \subseteq {"close", "kill"} /\ MaxQueue \in Nat

\* is_readable is what poll asks first; pread stands for the requests whose response
\* has a body.
Requests == [op : {"is_readable", "pread"}, pseudo : Pseudos]

VARIABLES
  pc,                  \* where each calling thread is
  request,             \* its request
  response,            \* the last response it got
  sending_request,     \* the lock on the reverse fd
  request_done_cv,     \* the threads waiting for that lock
  recv_signaler,       \* for each pseudo fd, the threads polling it
  sent,                \* requests the server has not read
  received,            \* pieces of messages the kernel has not read
  bytes_read,          \* "none", "header" or "all" of the current message
  message,             \* its header
  server,              \* where the server is
  current,             \* the caller of the request it handles
  result,              \* what it computed
  readable,            \* the pseudo fds with data to read
  notifying,           \* pseudo fds that became readable and were not reported
  reverse_mtx,         \* the server's lock on writing
  failed               \* assertions that were hit; the kernel then halts

kernel_vars == <<pc, request, response, sending_request, request_done_cv>>
receive_vars == <<recv_signaler, received, bytes_read, message>>
server_vars == <<server, current, result, reverse_mtx>>
vars == <<kernel_vars, receive_vars, sent, server_vars, readable, notifying, failed>>

Header(kind, to, val, body) == [kind |-> kind, to |-> to, val |-> val, body |-> body]
Body == Header("body", None, None, FALSE)

Init ==
  /\ pc = [t \in Threads |-> "idle"]
  /\ request = [t \in Threads |-> None]
  /\ response = [t \in Threads |-> None]
  /\ sending_request = FALSE
  /\ request_done_cv = <<>>
  /\ recv_signaler = [p \in Pseudos |-> {}]
  /\ sent = <<>> /\ received = <<>>
  /\ bytes_read = "none" /\ message = Body
  /\ server = "idle" /\ current = None /\ result = None
  /\ readable = {} /\ notifying = {}
  /\ reverse_mtx = "free"
  /\ failed = {}

----------------------------------------------------------------------------
(***************************************************************************)
(* have_bytes_received, with q the pieces that can be read.  It handles    *)
(* gratituous messages and stops at a complete response.                   *)
(***************************************************************************)
gratituous(q) ==
  {k \in DOMAIN q : \A j \in 1..k : q[j].kind = "gratituous"}

receive(q, read, msg) ==
  LET n == Cardinality(gratituous(q))
      rest == SubSeq(q, n + 1, Len(q))
      complete == rest # <<>> /\ (rest[1].body => Len(rest) > 1)
      woken == {q[k].to : k \in 1..n}
  IN  CASE read = "all" -> [read |-> read, msg |-> msg, rest |-> q, woken |-> {}]
        [] read = "header" /\ q # <<>> ->
             [read |-> "all", msg |-> msg, rest |-> Tail(q), woken |-> {}]
        [] read = "header" /\ q = <<>> ->
             [read |-> read, msg |-> msg, rest |-> q, woken |-> {}]
        [] read = "none" /\ rest = <<>> ->
             [read |-> read, msg |-> Body, rest |-> rest, woken |-> woken]
        [] read = "none" /\ rest # <<>> ->
             [read |-> IF complete THEN "all" ELSE "header", msg |-> rest[1],
              rest |-> SubSeq(rest, IF complete /\ rest[1].body THEN 3 ELSE 2, Len(rest)),
              woken |-> woken]

\* The pollers of the pseudo fds that became readable return from poll.  A thread that
\* goes to poll in newpc subscribes after that.
became_readable(ps, newpc) ==
  /\ recv_signaler' = [p \in Pseudos |->
       (IF p \in ps THEN {} ELSE recv_signaler[p])
         \cup {t \in Threads : newpc[t] = "poll" /\ pc[t] # "poll" /\ request[t].pseudo = p}]
  /\ pc' = [t \in Threads |->
       IF newpc[t] = "poll" /\ (\E p \in ps : t \in recv_signaler[p]) THEN "idle" ELSE newpc[t]]

\* The framing is wrong if a header is read where a body was sent, or the other way
\* round.
framed(q, read) ==
  /\ read = "header" /\ q # <<>> => q[1].kind = "body"
  /\ read = "none" /\ q # <<>> => q[1].kind # "body"

have_bytes_received(q, read, msg, sending, newpc, sound) ==
  LET r == receive(q, read, msg)
      notify == q # <<>> /\ r.read = "all"
  IN  /\ bytes_read' = r.read /\ message' = r.msg /\ received' = r.rest
      /\ became_readable(r.woken,
           [t \in Threads |-> IF notify /\ newpc[t] = "response" THEN "woken" ELSE newpc[t]])
      /\ failed' = failed \cup (IF notify /\ ~sending THEN {"sending_request"} ELSE {})
                          \cup (IF framed(q, read) THEN {} ELSE {"framing"})
                          \cup (IF sound THEN {} ELSE {"bytes_read"})

----------------------------------------------------------------------------
(***************************************************************************)
(* send_request.                                                           *)
(***************************************************************************)
\* The lock is taken and the request written.  When the server is gone the write
\* fails, and send_request returns with the lock still held and the response as the
\* caller initialised it.
SendLocked(t, r) ==
  /\ sending_request' = TRUE
  /\ IF server = "closed"
     THEN /\ pc' = [pc EXCEPT ![t] = "idle"]
          /\ request' = [request EXCEPT ![t] = None]
          /\ UNCHANGED sent
     ELSE /\ pc' = [pc EXCEPT ![t] = "response"]
          /\ request' = [request EXCEPT ![t] = r]
          /\ sent' = Append(sent, [from |-> t, req |-> r])

SendOrWait(t, r) ==
  IF sending_request
  THEN /\ pc' = [pc EXCEPT ![t] = "lock"]
       /\ request' = [request EXCEPT ![t] = r]
       /\ request_done_cv' = Append(request_done_cv, t)
       /\ UNCHANGED <<sending_request, sent>>
  ELSE SendLocked(t, r) /\ UNCHANGED request_done_cv

Call(t) ==
  /\ pc[t] = "idle"
  /\ \E r \in Requests : SendOrWait(t, r)
  /\ UNCHANGED <<response, receive_vars, server_vars, readable, notifying, failed>>

\* The thread was woken from request_done_cv, and tests sending_request again.
LockAgain_NoTest(t) ==
  /\ pc[t] = "lock" /\ t \notin Range(request_done_cv)
  /\ SendLocked(t, request[t])
  /\ UNCHANGED <<request_done_cv, response, receive_vars, server_vars, readable, notifying, failed>>

LockAgain(t) ==
  /\ pc[t] = "lock" /\ t \notin Range(request_done_cv)
  /\ SendOrWait(t, request[t])
  /\ UNCHANGED <<response, receive_vars, server_vars, readable, notifying, failed>>

\* What the caller does with the response: poll subscribes if the answer was no.
after_response(t) ==
  IF request[t].op = "is_readable" /\ message.val = FALSE THEN "poll" ELSE "idle"

request_done_NoNotify == UNCHANGED request_done_cv

request_done ==
  request_done_cv' = IF request_done_cv = <<>> THEN <<>> ELSE Tail(request_done_cv)

\* The thread was woken from response_arrived_cv: it takes the response, releases the
\* lock, handles the messages behind the response, and returns to its caller.
TakeResponse(t) ==
  /\ pc[t] = "woken"
  /\ request' = [request EXCEPT ![t] = None]
  /\ response' = [response EXCEPT ![t] = message.val]
  /\ sending_request' = FALSE
  /\ request_done
  /\ have_bytes_received(received, "none", message, FALSE,
                         [pc EXCEPT ![t] = after_response(t)], bytes_read = "all")
  /\ UNCHANGED <<sent, server_vars, readable, notifying>>

\* The process of a waiting thread exits: the thread never runs again, and stays in
\* the lists it is in.
Kill(t) ==
  /\ "kill" \in Failures
  /\ pc[t] \in {"lock", "response", "woken", "poll"}
  /\ pc' = [pc EXCEPT ![t] = "dead"]
  /\ UNCHANGED <<request, response, sending_request, request_done_cv, receive_vars, sent,
                 server_vars, readable, notifying, failed>>

----------------------------------------------------------------------------
(***************************************************************************)
(* The server.  reverse_mtx is held from the first to the last write of a  *)
(* message; reading a whole request under it is one step, because the      *)
(* kernel writes a request at once.                                        *)
(***************************************************************************)
write(piece) ==
  have_bytes_received(Append(received, piece), bytes_read, message, sending_request, pc, TRUE)

read_request ==
  /\ server = "idle" /\ sent # <<>> /\ reverse_mtx = "free"
  /\ current' = Head(sent) /\ sent' = Tail(sent)
  /\ server' = "handle"
  /\ UNCHANGED <<kernel_vars, receive_vars, result, readable, notifying, reverse_mtx, failed>>

handle_request ==
  LET p == current.req.pseudo
  IN  /\ server = "handle"
      /\ result' = (p \in readable)
      /\ readable' = IF current.req.op = "pread" THEN readable \ {p} ELSE readable
      /\ server' = "respond"
      /\ UNCHANGED <<kernel_vars, receive_vars, sent, current, notifying, reverse_mtx, failed>>


write_response ==
  LET body == current.req.op = "pread" /\ result
  IN  /\ server = "respond" /\ reverse_mtx = "free"
      /\ write(Header("response", current.from, result, body))
      /\ server' = IF body THEN "body" ELSE "idle"
      /\ reverse_mtx' = IF body THEN "server" ELSE "free"
      /\ current' = IF body THEN current ELSE None
      /\ result' = IF body THEN result ELSE None
      /\ UNCHANGED <<request, response, sending_request, request_done_cv, sent,
                     readable, notifying>>

write_response_body ==
  /\ server = "body"
  /\ write(Body)
  /\ server' = "idle" /\ reverse_mtx' = "free"
  /\ current' = None /\ result' = None
  /\ UNCHANGED <<request, response, sending_request, request_done_cv, sent,
                 readable, notifying>>

\* Data arrives for a pseudo fd; then becomes_readable is called.
DataArrives(p) ==
  /\ server # "closed" /\ p \notin notifying
  /\ readable' = readable \cup {p} /\ notifying' = notifying \cup {p}
  /\ UNCHANGED <<kernel_vars, receive_vars, sent, server_vars, failed>>

becomes_readable_NoLock(p) ==
  /\ server # "closed" /\ p \in notifying
  /\ Len(received) < MaxQueue
  /\ write(Header("gratituous", p, None, FALSE))
  /\ notifying' = notifying \ {p}
  /\ UNCHANGED <<request, response, sending_request, request_done_cv, sent, server_vars, readable>>

becomes_readable(p) ==
  /\ server # "closed" /\ p \in notifying
  /\ reverse_mtx = "free"
  /\ Len(received) < MaxQueue
  /\ write(Header("gratituous", p, None, FALSE))
  /\ notifying' = notifying \ {p}
  /\ UNCHANGED <<request, response, sending_request, request_done_cv, sent, server_vars, readable>>

\* The server exits: its end of the socket pair is destroyed.
Close ==
  /\ "close" \in Failures /\ server # "closed"
  /\ server' = "closed" /\ sent' = <<>>
  /\ UNCHANGED <<kernel_vars, receive_vars, current, result, reverse_mtx, readable, notifying, failed>>

Next ==
  /\ failed = {}
  /\ \/ \E t \in Threads : Call(t) \/ LockAgain(t) \/ TakeResponse(t) \/ Kill(t)
     \/ read_request \/ handle_request \/ write_response \/ write_response_body
     \/ \E p \in Pseudos : DataArrives(p) \/ becomes_readable(p)
     \/ Close

Spec == Init /\ [][Next]_vars

\* The server runs, and so do threads that were woken.
FairSpec ==
  /\ Spec
  /\ WF_vars(read_request) /\ WF_vars(handle_request)
  /\ WF_vars(write_response) /\ WF_vars(write_response_body)
  /\ \A t \in Threads : WF_vars(TakeResponse(t)) /\ WF_vars(LockAgain(t))
  /\ \A p \in Pseudos : WF_vars(becomes_readable(p))

----------------------------------------------------------------------------
(***************************************************************************)
(* Properties.                                                             *)
(***************************************************************************)
outstanding(t) == pc[t] \in {"response", "woken"}

\* Types, and the lists agree with where the threads are: a thread polls one pseudo fd
\* and waits for the lock once.
TypeOK ==
  /\ pc \in [Threads -> {"idle", "lock", "response", "woken", "poll", "dead"}]
  /\ request \in [Threads -> Requests \cup {None}]
  /\ response \in [Threads -> BOOLEAN \cup {None}]
  /\ sending_request \in BOOLEAN
  /\ bytes_read \in {"none", "header", "all"}
  /\ server \in {"idle", "handle", "respond", "body", "closed"}
  /\ readable \subseteq Pseudos /\ notifying \subseteq Pseudos
  /\ \A t \in Range(request_done_cv) :
       pc[t] \in {"lock", "dead"} /\ AtMostOne(request_done_cv, t)
  /\ \A t \in Threads : pc[t] = "poll" <=>
       pc[t] # "dead" /\ \E p \in Pseudos : t \in recv_signaler[p]

\* No assertion of have_bytes_received and send_request is hit and the kernel never
\* takes a body for a header or a header for a body, although responses and gratituous
\* messages come from two threads of the server.
AssertsHold == failed = {}

\* There is one request at a time, and whatever is being received as a response is the
\* response to it: responses carry no request number.
ResponseIsOurs ==
  \A t, u \in Threads :
    /\ outstanding(t) /\ outstanding(u) => t = u
    /\ outstanding(t) /\ bytes_read # "none" => message.to = t

NobodyDied == server # "closed" /\ \A t \in Threads : pc[t] # "dead"

\* The lock is not lost: when sending_request is clear while threads wait for it, one
\* of them was woken and will test it again (unless callers were killed).
LockIsPassedOn ==
  ~sending_request /\ request_done_cv # <<>> /\ NobodyDied =>
    \E t \in Threads : pc[t] = "lock" /\ t \notin Range(request_done_cv)

\* A caller that waits for the lock waits for the request of another caller, as the
\* comment in send_request says, as long as the server runs and no caller was killed.
LockedByARequest == sending_request /\ NobodyDied => \E t \in Threads : outstanding(t)

\* Kernel and server stay in step: whatever comes in while a request is outstanding is taken
\* for what it is, and a response goes to the thread whose request it answers.
ProtocolInStep == TypeOK /\ AssertsHold /\ ResponseIsOurs

\* The lock on the reverse fd is neither lost nor held by nobody, as long as the server runs
\* and no caller was killed.
LockNotLost == LockIsPassedOn /\ LockedByARequest


\* A thread blocked in poll on a pseudo fd that has data will be told: the server is
\* about to report it, or the report is queued.
PollersAreTold ==
  \A p \in Pseudos :
    p \in readable /\ (\E t \in Threads : pc[t] = "poll" /\ t \in recv_signaler[p]) =>
      p \in notifying \/ \E k \in DOMAIN received : received[k].to = p

\* The reverse fd implements remote procedure calls: a call is handled once and gets
\* the value that was computed for it.
on_its_way(t) ==
  {m \in Range(received) \cup (IF bytes_read = "none" THEN {} ELSE {message}) :
     m.kind = "response" /\ m.to = t}

computed == [t \in Threads |->
               IF result # None /\ current.from = t THEN result
               ELSE IF on_its_way(t) # {} THEN (CHOOSE m \in on_its_way(t) : TRUE).val
               ELSE None]

RpcSpec == INSTANCE Rpc WITH asked <- request, answer <- response, Results <- BOOLEAN

\* See above: every behaviour of the reverse fd is one of Rpc.
ImplementsRpc == RpcSpec!Spec
=============================================================================
