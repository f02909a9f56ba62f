--------------------------- MODULE MCAsyncTexture ---------------------------
\* Instances of AsyncTexture for TLC.
EXTENDS AsyncTexture

CONSTANTS t1, t2, s1
=============================================================================
