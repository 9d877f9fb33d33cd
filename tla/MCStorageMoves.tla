--------------------------- MODULE MCStorageMoves ---------------------------
(* Instances of StorageMoves for TLC.                                      *)
EXTENDS StorageMoves

CONSTANTS h1, h2, t1, t2

(* Each torrent is added once.                                             *)
OneStay == h1 :> t1 @@ h2 :> t2

(* The torrent may be added again after its removal.                       *)
TwoStays == h1 :> t1 @@ h2 :> t1

SwapTorrents == {h1 :> h2 @@ h2 :> h1 @@ t1 :> t2 @@ t2 :> t1}
=============================================================================
