------------------------------ MODULE MCFiles -------------------------------
\* Model checking of Vfs and ExtFs. `part' says which of the two a behaviour is about; the other
\* does not move, so that their state spaces add up instead of multiplying.
EXTENDS MCVfs, ExtFs

VARIABLE part

MCNameSize == "" :> 0 @@ "." :> 1 @@ ".." :> 1 @@ "d" :> 1 @@ "f" :> 1 @@ "n" :> 2
MCOthersTake == {{}, {7}, {6, 7}}

mcvars == <<vvars, xvars, part>>
MCInit ==
  \/ part = "calls" /\ VInit /\ XInit /\ others = {} /\ held = NotHeld
  \/ part = "disk" /\ VInit /\ XInit /\ fs.nodes = InitialNodes(<<"b">>)
MCNext ==
  \/ part = "calls" /\ VNext /\ UNCHANGED <<xvars, part>>
  \/ part = "disk" /\ XNext /\ UNCHANGED <<vvars, part>>
MCSpec == MCInit /\ [][MCNext]_mcvars
=============================================================================
