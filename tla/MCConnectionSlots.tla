-------------------------- MODULE MCConnectionSlots --------------------------
(* Small instances of ConnectionSlots.                                      *)
EXTENDS ConnectionSlots, TLC

CONSTANTS c1, c2, c3

Symmetry == Permutations({c1, c2, c3})

\* Nothing is said about what happens once an agent has come between another
\* one and its work.
Orderly == orderly
=============================================================================
