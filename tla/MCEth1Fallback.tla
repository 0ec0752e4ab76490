--------------------------- MODULE MCEth1Fallback ---------------------------
EXTENDS Eth1Fallback

CONSTANTS r1, r2, u1, u2, u3

\* Three distinct endpoints.
MCOriginal3 == <<u1, u2, u3>>
\* Two endpoints, the primary listed twice: the fallback flag compares URLs.
MCOriginalDup == <<u1, u2, u1>>
=============================================================================
