-------------------------- MODULE MCConsumerPipeline --------------------------
(* ConsumerPipeline on small ladders: one original topic and one retry topic, *)
(* a partition each, with the backlog on the one or on the other.             *)
EXTENDS ConsumerPipeline, TLC

CONSTANTS orders, retry, retry2, m1, m2, m3

MCLevel == [p \in Partitions |-> IF p = orders THEN 0 ELSE 1]

\* The works are interchangeable.
WorkSymmetry == Permutations(Works)

\* Two messages on the original topic.
OrdersBacklog == [p \in Partitions |-> IF p = orders THEN <<m1, m2>> ELSE <<>>]

\* Three messages that failed once, already on the retry topic.
RetryBacklog == [p \in Partitions |-> IF p = retry THEN <<m1, m2, m3>> ELSE <<>>]

\* A message on the original topic, and others that failed once already.
WaitingBacklog == [p \in Partitions |-> IF p = orders THEN <<m1>> ELSE <<m2>>]

\* One message on the original topic.
OneMessage == [p \in Partitions |-> IF p = orders THEN <<m1>> ELSE <<>>]
=============================================================================
