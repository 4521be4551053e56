--------------------------- MODULE MCBatchPipeline ---------------------------
(* BatchPipeline on small ladders: one original topic, one retry topic. *)
EXTENDS BatchPipeline

CONSTANTS orders, retry, m1, m2

MCLevel == [p \in Partitions |-> IF p = orders THEN 0 ELSE 1]

\* Two messages on the original topic: a full batch, or two.
TwoBacklog == [p \in Partitions |-> IF p = orders THEN <<m1, m2>> ELSE <<>>]

\* A message on the original topic, and one that failed once on the retry topic.
SplitBacklog == [p \in Partitions |-> IF p = orders THEN <<m1>> ELSE <<m2>>]
=============================================================================
