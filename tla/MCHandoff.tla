----------------------------- MODULE MCHandoff -----------------------------
\* Handoff on a small instance; the constants get their values in the .cfg files.
EXTENDS Handoff
=============================================================================
