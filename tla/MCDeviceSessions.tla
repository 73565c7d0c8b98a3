-------------------------- MODULE MCDeviceSessions --------------------------
\* Small instances of DeviceSessions for TLC.
EXTENDS DeviceSessions, TLC

\* Requests and accounts are interchangeable; token and session numbers are not.
SlotSymmetry == Permutations(Requests) \cup Permutations(Users)
=============================================================================
