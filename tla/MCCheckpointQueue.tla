------------------------- MODULE MCCheckpointQueue -------------------------
(* CheckpointQueue on small sets of threads, for TLC. *)
EXTENDS CheckpointQueue

CONSTANTS w1, c1, h1, k1

OneWorkspace == {w1}
OneClient == {c1}
OneFlusher == {h1}
NoFlusher == {}
OneWorker == {k1}
=============================================================================
