SPECIFICATION Spec
CONSTANTS
  Seqs = {"seq1", "seq2"}
  Blocks = 3
INVARIANT OneScratchpad
INVARIANT LastChunkMeansComplete
INVARIANT RestartIsOwed
INVARIANT OkMeansRunning
