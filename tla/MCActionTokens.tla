---------------------------- MODULE MCActionTokens ----------------------------
\* A small instance of ActionTokens for TLC.
EXTENDS ActionTokens
=============================================================================
