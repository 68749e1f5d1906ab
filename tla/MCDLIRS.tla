------------------------------- MODULE MCDLIRS -------------------------------
EXTENDS DLIRS

\* Keys are only compared with each other.
KeySymmetry == Permutations(Keys)

\* Every key hashes to the same slot.
Colliding == [k \in Keys |-> 0]

\* What follows the step that stores a key twice is left out: for properties
\* that speak of the steps before it.
UntilTwice == ~Twice

\* Once a key was stored twice, tables with more nodes than this are left out.
FewNodes == Twice => Len(stack) + Len(index) + Len(resident) <= 5
==============================================================================
