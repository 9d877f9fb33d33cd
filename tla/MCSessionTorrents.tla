--------------------------- MODULE MCSessionTorrents ---------------------------
EXTENDS SessionTorrents, TLC

SwapIds == Permutations(Id)
=============================================================================
