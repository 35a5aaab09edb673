------------------------------ MODULE MCHalUart ------------------------------
EXTENDS HalUart

CONSTANTS w1, w2, u1
=============================================================================
