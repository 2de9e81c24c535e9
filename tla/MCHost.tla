------------------------------- MODULE MCHost -------------------------------
EXTENDS Host, TLC

MCRecovered == {1}

ConnSymmetry == Permutations(Conn)
=============================================================================
