----------------------------- MODULE MCModStore -----------------------------
\* Two packages of two versions; all runs are unbounded otherwise.
EXTENDS ModStore
=============================================================================
