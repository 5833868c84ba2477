----------------------------- MODULE MCDAPSession -----------------------------
\* The instance of module DAPSession for TLC.
EXTENDS DAPSession
=============================================================================
