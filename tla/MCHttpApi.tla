---------------------------- MODULE MCHttpApi ----------------------------
\* A small instance of HttpApi for TLC.
EXTENDS HttpApi, TLC

SlotSymmetry == Permutations(Requests) \cup Permutations(Clients)

Deployment(proxies, trust, secretsDiffer) ==
    [proxies |-> proxies, trust |-> trust, secretsDiffer |-> secretsDiffer]
Behind(n) == IF n = 0 THEN <<>> ELSE IF n = 1 THEN <<"edge">> ELSE <<"edge", "cdn">>
Alone == Deployment(<<>>, [kind |-> "unset"], TRUE)
TrustProxyValues ==
    {[kind |-> k] : k \in {"unset", "false", "true"}} \cup
    {[kind |-> "count", n |-> n] : n \in 0..2} \cup
    {[kind |-> "list", addresses |-> a] : a \in {{}, {"edge"}, {"edge", "cdn"}}}

\* Floods: up to two proxies in front, every value of TRUST_PROXY.
Floods ==
    {[routes |-> {"signIn", "getHello"}, calls |-> 4, atOnce |-> 1, ticks |-> 3,
      deployment |-> Deployment(Behind(n), trust, TRUE)] :
        n \in 0..2, trust \in TrustProxyValues}

\* A load balancer probes more often than any limit allows.
Probing ==
    {[routes |-> {"getHealth"}, calls |-> 5, atOnce |-> 1, ticks |-> 3, deployment |-> Alone]}

\* An administrator pages while others sign up and go.
Paging ==
    {[routes |-> {"list", "signUp", "deleteAccount"}, calls |-> 5, atOnce |-> 2, ticks |-> 0,
      deployment |-> Alone]}

\* Every route.
EveryRoute ==
    {[routes |-> DOMAIN Routes, calls |-> 2, atOnce |-> 2, ticks |-> 0,
      deployment |-> Deployment(<<>>, [kind |-> "unset"], differ)] : differ \in BOOLEAN}

AllScenarios == Floods \cup Probing \cup Paging \cup EveryRoute
=============================================================================
