------------------------ MODULE MCMaindataRevisions ------------------------
(* Two tabs of one browser, beside another browser, for TLC.               *)
EXTENDS MaindataRevisions, TLC

CONSTANTS b1, b2, t1, t2

TwoTabsOneBrowser == t1 :> b1 @@ t2 :> b1
=============================================================================
