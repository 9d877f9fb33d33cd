--------------------------- MODULE MCCompactSnapshot ---------------------------
EXTENDS CompactSnapshot, TLC

CONSTANTS name, dlspeed, state, seedingTime, t1, t2, t3, t4

Order == <<name, dlspeed, state, seedingTime>>
Types == (name :> "text") @@ (dlspeed :> "int") @@ (state :> "text") @@ (seedingTime :> "long")
AllAlike == {[f \in Field |-> v] : v \in Value}

Plain == [compact |-> FALSE, pool |-> FALSE, sidecar |-> FALSE, subgroups |-> FALSE,
          lifecycleOnDemand |-> FALSE, numericOnDemand |-> FALSE, omitted |-> {}]
Compact == [Plain EXCEPT !.compact = TRUE]
Pooled == [Compact EXCEPT !.pool = TRUE]
Sidecar == [Pooled EXCEPT !.sidecar = TRUE]
Subgroups == [Sidecar EXCEPT !.subgroups = TRUE]
LifecycleLate == [Subgroups EXCEPT !.lifecycleOnDemand = TRUE]
NumericLate == [Pooled EXCEPT !.numericOnDemand = TRUE]
Mixed == [Sidecar EXCEPT !.numericOnDemand = TRUE]

SoundModes == {Plain, Pooled, Sidecar, [Subgroups EXCEPT !.omitted = {seedingTime}], NumericLate}
LateModes == {LifecycleLate}
MixedModes == {Mixed}
SwapTorrents == Permutations(Torrent)
=============================================================================
