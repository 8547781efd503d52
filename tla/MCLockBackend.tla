--------------------------- MODULE MCLockBackend ---------------------------
EXTENDS LockBackend
CONSTANTS k1, k2, a1, a2, a3, a4
MCKeys == {k1, k2}
MCActors == {a1, a2, a3, a4}
=============================================================================
