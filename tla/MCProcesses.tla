---------------------------- MODULE MCProcesses ----------------------------
\* Model checking of Processes and AddressSpace. `part' says which of the two a behaviour is
\* about; the other does not move, so that their state spaces add up instead of multiplying.
EXTENDS Processes, AddressSpace

VARIABLE part

MCKeeps == {<<1>>, <<1, 0>>}
MCMasks == {{"read"}}
MCProtections == {{"r"}, {"r", "w"}}
MCMapProtections == {{"r", "w"}}

mcvars == <<pvars, asvars, part>>
MCInit == PInit /\ ASInit /\ part \in {"processes", "memory"}
MCNext ==
  \/ part = "processes" /\ PNext /\ UNCHANGED <<asvars, part>>
  \/ part = "memory" /\ ASNext /\ UNCHANGED <<pvars, part>>
MCSpec == MCInit /\ [][MCNext]_mcvars /\ PFairness
=============================================================================
