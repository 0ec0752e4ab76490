-------------------------- MODULE MCBlockProcessor --------------------------
EXTENDS BlockProcessor

CONSTANTS w1, w2, b1, b2
=============================================================================
