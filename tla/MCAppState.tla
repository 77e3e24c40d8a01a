----------------------------- MODULE MCAppState -----------------------------
\* One character of the game and one package that may come and go, two turns.
EXTENDS AppState
=============================================================================
