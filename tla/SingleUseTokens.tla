--------------------------- MODULE SingleUseTokens ---------------------------
(***************************************************************************)
(* What ActionTokens promises about a mailed token, without requests,      *)
(* collections, limits or a clock: it is issued for one action of one      *)
(* account, can be used once it was mailed and once only, and whoever used *)
(* it may act once, as it says.  A token that is no longer redeemable      *)
(* never is again, and an account that is gone stays gone.                 *)
(***************************************************************************)
CONSTANTS
    Users,          \* one account each
    Actions,        \* what tokens are for
    Tokens,
    Verification    \* the action whose effect is visible here

VARIABLES
    account,        \* [Users -> {"none", "unverified", "verified", "gone"}]
    purpose,        \* whom and what a token was issued for
    redeemable,     \* the tokens that would be accepted
    spent,          \* tokens that never will be (again)
    mailed,         \* the tokens their owners were sent
    authorized      \* the actions that were authorized and not taken yet: token, account, action

vars == <<account, purpose, redeemable, spent, mailed, authorized>>

Issued == redeemable \cup spent

Init ==
    /\ account = [u \in Users |-> "none"]
    /\ purpose = [h \in {} |-> {}]
    /\ redeemable = {} /\ spent = {} /\ mailed = {} /\ authorized = {}

Open(u) ==
    /\ account[u] = "none"
    /\ account' = [account EXCEPT ![u] = "unverified"]
    /\ UNCHANGED <<purpose, redeemable, spent, mailed, authorized>>

Close(u) ==
    /\ account[u] \in {"unverified", "verified"}
    /\ account' = [account EXCEPT ![u] = "gone"]
    /\ UNCHANGED <<purpose, redeemable, spent, mailed, authorized>>

Issue(h, u, a) ==
    /\ h \notin Issued
    /\ redeemable' = redeemable \cup {h}
    /\ purpose' = [g \in (DOMAIN purpose) \cup {h} |-> IF g = h THEN <<u, a>> ELSE purpose[g]]
    /\ UNCHANGED <<account, spent, mailed, authorized>>

\* A token may be superseded, or run out, before its mail goes out.
Mail(h) ==
    /\ h \in Issued
    /\ mailed' = mailed \cup {h}
    /\ UNCHANGED <<account, purpose, redeemable, spent, authorized>>

Spend(h) ==
    /\ h \in redeemable
    /\ redeemable' = redeemable \ {h}
    /\ spent' = spent \cup {h}
    /\ UNCHANGED <<account, purpose, mailed>>

Use(h) ==
    /\ h \in mailed
    /\ Spend(h)
    /\ authorized' = authorized \cup {<<h, purpose[h][1], purpose[h][2]>>}

\* Superseded, expired or cleaned up with its account
Drop(h) == Spend(h) /\ UNCHANGED authorized

\* Whoever was authorized acts once, or not at all; a verification shows.
Act(x) ==
    /\ x \in authorized
    /\ authorized' = authorized \ {x}
    /\ \/ UNCHANGED account
       \/ /\ x[3] = Verification
          /\ account[x[2]] \in {"unverified", "verified"}
          /\ account' = [account EXCEPT ![x[2]] = "verified"]
    /\ UNCHANGED <<purpose, redeemable, spent, mailed>>

Next ==
    \/ \E u \in Users : Open(u) \/ Close(u)
    \/ \E h \in Tokens, u \in Users, a \in Actions : Issue(h, u, a)
    \/ \E h \in Tokens : Mail(h) \/ Use(h) \/ Drop(h)
    \/ \E x \in authorized : Act(x)

Spec == Init /\ [][Next]_vars
=============================================================================
