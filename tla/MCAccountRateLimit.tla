------------------------- MODULE MCAccountRateLimit -------------------------
\* Small instances of AccountRateLimit for TLC.
EXTENDS AccountRateLimit, TLC

\* Keys, and the slots that run alike, are interchangeable; counters are numbered.
CallSymmetry == Permutations(Requests \ (Slow \cup Faulty)) \cup Permutations(Keys)
=============================================================================
