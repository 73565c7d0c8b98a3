--------------------------- MODULE MCSignInLockout ---------------------------
\* Small instances of SignInLockout for TLC.
EXTENDS SignInLockout, TLC

\* Slots of a speed are interchangeable, and so are emails.
SlotSymmetry == Permutations(Requests \ Slow) \cup Permutations(Slow) \cup Permutations(Emails)
=============================================================================
