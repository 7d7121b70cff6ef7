------------------------------ MODULE MCFtsSync ------------------------------
EXTENDS FtsSync, TLC

Symmetric == Permutations(Text)
=============================================================================
