---------------------------- MODULE MCTorrentFiles ----------------------------
EXTENDS TorrentFiles

CONSTANTS f1, p1, p2

Pieces == [f \in {f1} |-> {p1, p2}]

Resident == [deferPaths |-> FALSE, deferState |-> FALSE, sparse |-> FALSE,
             relayout |-> FALSE, recheck |-> TRUE]
Sparse == [Resident EXCEPT !.deferPaths = TRUE, !.sparse = TRUE, !.relayout = TRUE,
                           !.recheck = FALSE]
Deferred == [Sparse EXCEPT !.deferState = TRUE]

AllModes == {Resident, Sparse, Deferred}
DeferredModes == {Deferred}

SwapPieces == Permutations({p1, p2})
=============================================================================
