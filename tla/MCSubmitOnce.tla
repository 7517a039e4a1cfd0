---------------------------- MODULE MCSubmitOnce ----------------------------
EXTENDS SubmitOnce, TLC

CONSTANTS p, q

TwoSubmitters == {p, q}
Actions == {HandoffId(s) : s \in TwoSubmitters} \cup {SendId(s) : s \in TwoSubmitters}
Symmetry == Permutations(TwoSubmitters)
=============================================================================
