-------------------------- MODULE MCPassScheduler --------------------------
(***************************************************************************)
(* PassScheduler for TLC: one pass and a test pass with two web threads,   *)
(* or two passes back to back and a new search with one.                   *)
(***************************************************************************)
EXTENDS PassScheduler, TLC

CONSTANTS w1, w2, h1, h2, h3, h4

MCInitPasses == {[id |-> "A", start |-> 1, end |-> 2]}
MCTwoPasses == MCInitPasses \cup {[id |-> "B", start |-> 2, end |-> 3]}
\* A search in the middle of the pass, which it then sees to last a tick longer.
MCSearches == {[at |-> 1, later |-> 1]}
MCTestIds == {"T"}

Symmetry == Permutations({w1, w2}) \cup Permutations({h1, h2})
=============================================================================
