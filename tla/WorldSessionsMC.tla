--------------------------- MODULE WorldSessionsMC ---------------------------
EXTENDS WorldSessions, TLC

CONSTANTS s1, s2, s3, a1, a2

\* The first two sessions are of one account.
TwoAndOne == s1 :> a1 @@ s2 :> a1 @@ s3 :> a2

Alone == s1 :> a1
=============================================================================
