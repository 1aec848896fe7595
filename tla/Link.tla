-------------------------------- MODULE Link --------------------------------
\* What Tcp and Networkd share: the frames on a link are a bag.
EXTENDS Integers, Sequences, FiniteSets, Bags

None == [none |-> TRUE]

\* Bind(v, F) is F(v). TLC evaluates v once, however often F uses it.
Bind(v, F(_)) == CHOOSE y \in {F(x) : x \in {v}} : TRUE

\* The bag of the frames in a sequence, and what is left of a bag without one frame.
Several(frames) == [f \in {frames[i] : i \in DOMAIN frames} |->
                     Cardinality({i \in DOMAIN frames : frames[i] = f})]
Less(bag, f) == bag (-) SetToBag({f})
=============================================================================
