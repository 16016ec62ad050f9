------------------------ MODULE MCCheckpointPipeline ------------------------
(* Two epochs, the first of which can complete a second time. *)
EXTENDS CheckpointPipeline

TwoEpochs == {<<1, 1>>, <<1, 2>>, <<2, 1>>}
=============================================================================
