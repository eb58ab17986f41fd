--------------------------- MODULE MCHop6Delivery ---------------------------
EXTENDS Hop6Delivery
CONSTANTS alice, bob
MCSymmetry == Permutations({alice, bob})
\* Nothing is lost by not following a task that is stuck: all it ever does is
\* lose its stream, as one that is up does.
NoneStuck == running /\ \A p \in PeerId : tasks[p].pc # "stuck"
=============================================================================
