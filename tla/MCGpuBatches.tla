---------------------------- MODULE MCGpuBatches ----------------------------
(* Two threads, three calls: small and large single batches, a packed flight  *)
(* of two chunks with kernels of two tiles, and a batch that is refused.      *)
EXTENDS GpuBatches

Key(modulus, tile) == [modulus |-> modulus, tile |-> tile]

Chunk(words) == [query |-> words, answer |-> words]

Segment(chunk, key) == [chunk |-> chunk, key |-> key]

MCKeys == { Key(modulus, tile) : modulus \in {"p", "q"}, tile \in {1, 4} }

Single(words, key) ==
  [kind |-> "single", chunks |-> << Chunk(words) >>, segments |-> << Segment(1, key) >>,
   valid |-> TRUE]

\* The first chunk holds segments of two tiles.
Packed ==
  [kind |-> "packed", chunks |-> << Chunk(2), Chunk(1) >>,
   segments |-> << Segment(1, Key("p", 4)), Segment(1, Key("p", 1)), Segment(2, Key("p", 1)) >>,
   valid |-> TRUE]

MCJobs ==
  { Single(1, Key("p", 1)), Single(2, Key("q", 1)), Packed,
    [kind |-> "single", chunks |-> <<>>, segments |-> <<>>, valid |-> FALSE] }

=============================================================================
