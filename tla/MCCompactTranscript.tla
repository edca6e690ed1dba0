------------------------ MODULE MCCompactTranscript ------------------------
(* Journals of none to three chunks of two pieces, with and without a rest, *)
(* that deflate makes longer by all that a frame may exceed a chunk.        *)
EXTENDS CompactTranscript

MCJournals == {[i \in 1..n |-> i] : n \in 0..9}
MCDeflatedLength(n) == n + FrameSlack
=============================================================================
