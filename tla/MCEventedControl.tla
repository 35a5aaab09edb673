--------------------------- MODULE MCEventedControl --------------------------
EXTENDS EventedControl

CONSTANTS m1, m2, c1
=============================================================================
