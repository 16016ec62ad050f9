------------------------- MODULE MCChunkedEnvelope -------------------------
(* Instance of ChunkedEnvelope for TLC: two envelopes of one reveal each. *)
EXTENDS ChunkedEnvelope

ShortReveals == <<1, 1>>
=============================================================================
