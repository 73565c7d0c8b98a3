------------------------------ MODULE MCAccounts ------------------------------
\* Small instances of Accounts for TLC.
EXTENDS Accounts, TLC

\* Slots and addresses are interchangeable; accounts and passwords are numbered.
SlotSymmetry == Permutations(Requests) \cup Permutations(Emails)
=============================================================================
