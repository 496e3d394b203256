---- MODULE MCChannelTable ----
(* An instance of ChannelTable for TLC. *)
EXTENDS ChannelTable, TLC

Symmetry == Permutations(Tasks) \cup Permutations(Channels)
====
