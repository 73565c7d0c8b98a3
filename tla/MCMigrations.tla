----------------------------- MODULE MCMigrations -----------------------------
\* A small instance of Migrations for TLC: two sign-ins, one of which was
\* refreshed, and a mailed token of each kind.
EXTENDS Migrations

CONSTANTS u1, u2

MCUsers == {u1, u2}

Token(hash, user, family, expiresAt) ==
    [hash |-> hash, userId |-> user, familyId |-> family, sessionId |-> 0,
     expiresAt |-> expiresAt, origin |-> family]

MCRefreshRows == {Token(1, u1, 1, 1), Token(2, u1, 1, 2), Token(3, u1, 2, 2)}

Mail(hash, type, expiresAt) ==
    [hash |-> hash, type |-> type, expiresAt |-> expiresAt, copy |-> 0]

MCMailedRows == {Mail(1, "passwordReset", 1), Mail(2, "emailVerification", 2)}
=============================================================================
