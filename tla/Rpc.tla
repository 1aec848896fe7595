-------------------------------- MODULE Rpc --------------------------------
(***************************************************************************)
(* What a reverse fd promises to the callers of send_request: every call   *)
(* is handled at most once, and returns what was computed for it.          *)
(***************************************************************************)
CONSTANTS Threads,  \* the callers
          Requests, \* what they ask
          Results,  \* what they may get
          None      \* no request, or no result yet

VARIABLES
  asked,    \* the request each thread waits for, or None
  computed, \* what the server computed for it, or None
  answer    \* what each thread's last call returned

vars == <<asked, computed, answer>>

Init ==
  /\ asked = [t \in Threads |-> None]
  /\ computed = [t \in Threads |-> None]
  /\ answer = [t \in Threads |-> None]

Ask(t, r) ==
  /\ asked[t] = None
  /\ asked' = [asked EXCEPT ![t] = r]
  /\ UNCHANGED <<computed, answer>>

Compute(t, v) ==
  /\ asked[t] # None /\ computed[t] = None
  /\ computed' = [computed EXCEPT ![t] = v]
  /\ UNCHANGED <<asked, answer>>

Answer(t) ==
  /\ asked[t] # None /\ computed[t] # None
  /\ answer' = [answer EXCEPT ![t] = computed[t]]
  /\ asked' = [asked EXCEPT ![t] = None]
  /\ computed' = [computed EXCEPT ![t] = None]

\* The call returns without having been handled.
Fail(t) ==
  /\ asked[t] # None /\ computed[t] = None
  /\ asked' = [asked EXCEPT ![t] = None]
  /\ UNCHANGED <<computed, answer>>

Next ==
  \E t \in Threads :
    \/ \E r \in Requests : Ask(t, r)
    \/ \E v \in Results : Compute(t, v)
    \/ Answer(t)
    \/ Fail(t)

Spec == Init /\ [][Next]_vars
=============================================================================
