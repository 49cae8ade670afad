-------------------------- MODULE MCPassiveHistory --------------------------
(* Two protocols, two sources, a file and a database of two records: a full     *)
(* file, a full database, an update, a new key and a filter all occur.          *)
EXTENDS PassiveHistory, TLC

MCSymmetry == Permutations(Macs) \cup Permutations(Infos) \cup Permutations(Protocols)
=============================================================================
