--------------------------- MODULE MCPrivateChat ---------------------------
(***************************************************************************)
(* A small instance of PrivateChat for TLC.                                *)
(***************************************************************************)
EXTENDS PrivateChat, TLC

CONSTANTS r1, p1, w1, w2, ada, mon

\* Workers are interchangeable.
Symmetry == Permutations(Workers)

OneStudent == [r \in Requests |-> ada]

=============================================================================
