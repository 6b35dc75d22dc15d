-------------------------- MODULE MCChannelOutbound --------------------------
(* Two texts share a key, one text is split in two, one call sends media.  *)
EXTENDS ChannelOutbound, TLC

CONSTANTS c1, c2, c3, m1, k1

KeyOf == [c \in Calls |-> IF c \in {c1, c2} THEN k1 ELSE NoKey]
ChunksOf == [c \in Calls |-> IF c = c3 THEN 2 ELSE 1]
=============================================================================
