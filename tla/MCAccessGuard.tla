---------------------------- MODULE MCAccessGuard ----------------------------
\* Small instances of AccessGuard for TLC.
EXTENDS AccessGuard, TLC

\* Slots and accounts are interchangeable; sessions are numbered.
SlotSymmetry == Permutations(Requests) \cup Permutations(Users)
=============================================================================
