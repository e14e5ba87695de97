------------------------- MODULE MCSequenceTracker -------------------------
(* Two topics whose counters wrap after a few messages. *)
EXTENDS SequenceTracker, TLC

CONSTANTS rawtx, rawblock
MCTopics == {rawtx, rawblock}
TopicSymmetry == Permutations(MCTopics)
=============================================================================
