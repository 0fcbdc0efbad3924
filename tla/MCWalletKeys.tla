---------------------------- MODULE MCWalletKeys ----------------------------
EXTENDS WalletKeys, TLC

CONSTANTS h1, h2

MCHolder == {h1, h2}

MCSymmetry == Permutations(MCHolder)
=============================================================================
