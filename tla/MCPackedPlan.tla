---------------------------- MODULE MCPackedPlan -----------------------------
(* Lists of two jobs, on devices with small and with odd limits.            *)
EXTENDS PackedPlan

MCShapes ==
  [n : {1, 3}, rows : {1, 2}, s : {1}, queries : {1, 2, 5}] \cup
  [n : {2}, rows : {1, 5}, s : {2}, queries : {1, 7}]
MCLists == UNION {[1 .. k -> MCShapes] : k \in 1 .. 2}
MCDevices == [buffer : {7, 12}, binding : {3, 6, 12}, alignment : {1, 4}]

=============================================================================
