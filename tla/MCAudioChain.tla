---------------------------- MODULE MCAudioChain ----------------------------
EXTENDS AudioChain
CONSTANTS d1, c1

\* A decoder on one reception, two listeners on one, one listener on two.
MCScene == {[listeners |-> {}, receptions |-> 1],
            [listeners |-> {d1, c1}, receptions |-> 1],
            [listeners |-> {d1}, receptions |-> 2]}
=============================================================================
