------------------------------ MODULE MCSessions ------------------------------
EXTENDS Sessions, TLC

SendsAlike == Permutations(Sends)
==============================================================================
