-------------------------- MODULE MCMaindataStore --------------------------
(* Instances of MaindataStore for TLC.                                     *)
EXTENDS MaindataStore, TLC

Symmetric == Permutations(Torrent) \union Permutations(Tracker)
=============================================================================
