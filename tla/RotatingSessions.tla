-------------------------- MODULE RotatingSessions --------------------------
(***************************************************************************)
(* What DeviceSessions promises about refresh tokens, without requests,    *)
(* collections or a clock: a session is opened once, holds at most one     *)
(* redeemable token at any time, trades it for a new one only by redeeming *)
(* it, and a token that stopped being redeemable never is again.           *)
(*                                                                         *)
(* Ending a session (Kill) is possible while a new token for it is being   *)
(* issued or not; it does not call that token off.  That is what the code  *)
(* does, and why RevokedSessionStaysRevoked of DeviceSessions fails.       *)
(***************************************************************************)
CONSTANTS
    Ids,            \* session ids
    Tokens          \* refresh tokens

VARIABLES
    phase,          \* [Ids -> {"unopened", "issuing", "settled"}]
    redeemable,     \* the tokens of each session that can be redeemed
    spent           \* tokens that will never be redeemable (again)

vars == <<phase, redeemable, spent>>

Fresh(h) == h \notin spent /\ \A s \in Ids : h \notin redeemable[s]

Init ==
    /\ phase = [s \in Ids |-> "unopened"]
    /\ redeemable = [s \in Ids |-> {}]
    /\ spent = {}

\* A sign-in opens the session and is going to issue its first token.
Open(s) ==
    /\ phase[s] = "unopened"
    /\ phase' = [phase EXCEPT ![s] = "issuing"]
    /\ UNCHANGED <<redeemable, spent>>

\* The one token the session was waiting for becomes redeemable.
Issue(s) ==
    /\ phase[s] = "issuing"
    /\ redeemable[s] = {}
    /\ phase' = [phase EXCEPT ![s] = "settled"]
    /\ \E h \in Tokens : Fresh(h) /\ redeemable' = [redeemable EXCEPT ![s] = {h}]
    /\ UNCHANGED spent

\* Nothing will be issued after all; a token already signed for it is lost.
Abandon(s) ==
    /\ phase[s] = "issuing"
    /\ phase' = [phase EXCEPT ![s] = "settled"]
    /\ \/ UNCHANGED spent
       \/ \E h \in Tokens : Fresh(h) /\ spent' = spent \cup {h}
    /\ UNCHANGED redeemable

\* Rotation spends the token before it gets the next one.
Redeem(s) ==
    /\ phase[s] = "settled"
    /\ \E h \in redeemable[s] : redeemable[s] = {h} /\ spent' = spent \cup {h}
    /\ phase' = [phase EXCEPT ![s] = "issuing"]
    /\ redeemable' = [redeemable EXCEPT ![s] = {}]

\* Logout, revocation or expiry: the token is gone and nothing follows it.
Kill(s) ==
    /\ phase[s] = "settled"
    /\ \E h \in redeemable[s] : redeemable[s] = {h} /\ spent' = spent \cup {h}
    /\ redeemable' = [redeemable EXCEPT ![s] = {}]
    /\ UNCHANGED phase

Next == \E s \in Ids : Open(s) \/ Issue(s) \/ Abandon(s) \/ Redeem(s) \/ Kill(s)

Spec == Init /\ [][Next]_vars
=============================================================================
