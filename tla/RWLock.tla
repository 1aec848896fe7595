------------------------------- MODULE RWLock -------------------------------
(***************************************************************************)
(* What a userland lock promises, without words, queues or wake-ups: who   *)
(* owns it, and the ways in which ownership may change.                    *)
(***************************************************************************)
EXTENDS Naturals

CONSTANT Threads

VARIABLE owner   \* what each thread owns: "no", "read" or "write"

Init == owner = [t \in Threads |-> "no"]

Free == \A t \in Threads : owner[t] = "no"

NoWriter == \A t \in Threads : owner[t] # "write"

Acquire(t, type) ==
  /\ owner[t] = "no"
  /\ IF type = "write" THEN Free ELSE NoWriter
  /\ owner' = [owner EXCEPT ![t] = type]

Release(t) ==
  /\ owner[t] # "no"
  /\ owner' = [owner EXCEPT ![t] = "no"]

\* The writer hands the lock to another writer, or to a group of readers.
PassToWriter(t, u) ==
  /\ owner[t] = "write" /\ t # u
  /\ owner' = [owner EXCEPT ![t] = "no", ![u] = "write"]

PassToReaders(t, us) ==
  /\ owner[t] = "write" /\ t \notin us
  /\ owner' = [v \in Threads |-> IF v \in us THEN "read" ELSE "no"]

\* The only reader becomes the writer.
Upgrade(t) ==
  /\ owner[t] = "read"
  /\ \A u \in Threads \ {t} : owner[u] = "no"
  /\ owner' = [owner EXCEPT ![t] = "write"]

Next ==
  \E t \in Threads :
    \/ \E type \in {"read", "write"} : Acquire(t, type)
    \/ Release(t)
    \/ \E u \in Threads : PassToWriter(t, u)
    \/ \E us \in SUBSET Threads : PassToReaders(t, us)
    \/ Upgrade(t)

Spec == Init /\ [][Next]_owner

\* The point of the lock: a writer excludes everybody else.
Exclusion ==
  \A t, u \in Threads : owner[t] = "write" /\ t # u => owner[u] = "no"
=============================================================================
