--------------------------- MODULE WorldSocketsMC ---------------------------
EXTENDS WorldSockets
=============================================================================
