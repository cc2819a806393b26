--------------------------- MODULE MercenaryChatMC ---------------------------
EXTENDS MercenaryChat, TLC
=============================================================================
