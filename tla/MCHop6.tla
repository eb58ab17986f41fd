------------------------------- MODULE MCHop6 -------------------------------
EXTENDS View
CONSTANTS alice, bob
MCSymmetry == Permutations({alice, bob})
WhileRunning == running
\* Nothing is lost by not following a task that is stuck: all it ever does is
\* lose its stream, as one that is up does.
NoneStuck == running /\ \A p \in PeerId : tasks[p].pc # "stuck"
\* Any service, in the spelling that hop6 itself sends or in the other one; or
\* no identity at all.
OwnOnionClaim == {WithSuffix(o) : o \in Onion} \cup {NoOnion}
BareClaim == [id : Onion, suffixed : {FALSE}] \cup {NoOnion}
=============================================================================
