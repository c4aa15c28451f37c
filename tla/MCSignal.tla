------------------------------- MODULE MCSignal -------------------------------
\* One device behind a symmetric NAT, one behind a full cone NAT, and one that
\* was built without p2ptest; the relay sees each at an address of its own.
EXTENDS Signal

CONSTANTS a, b, c

MCSeen == [d \in Devices |-> <<d, "seen">>]
MCTested ==
    [d \in Devices |-> IF d = a THEN <<a, "tested">> ELSE IF d = b THEN <<b, "seen">> ELSE NoAddr]
ChainReqs == {<<a, b>>, <<b, c>>}
==============================================================================
