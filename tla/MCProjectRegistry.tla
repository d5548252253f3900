------------------------- MODULE MCProjectRegistry -------------------------
\* Two request threads, the default project and one more.
EXTENDS ProjectRegistry
============================================================================
